----------------------------- MODULE Web_proofs -----------------------------
(***************************************************************************)
(* Proofs about websmbta, for any browsers, accounts and rows.             *)
(*                                                                         *)
(* WebUsers: the properties are about a step that looks at what earlier    *)
(* steps of the same request have read.  What those readings are still     *)
(* worth when the step is taken, after any steps of other requests, is the *)
(* invariant: a removal is not of the own account, its account is an old   *)
(* one, and if that account is still there when it is removed, two were    *)
(* counted.                                                                *)
(*                                                                         *)
(* WebFunctions: types and what a process needs where it is (CallIInv) are *)
(* inductive together, and each property has an invariant of its own above *)
(* them: whose the file is while a request is alone (AloneInv), and what   *)
(* its two parts are while only save_function runs (LeftInv).              *)
(*                                                                         *)
(* WebPanels: what a row, a panel, a request and a delete under way know   *)
(* of the same id is one invariant (PanelsIInv).                           *)
(***************************************************************************)
EXTENDS WebUsers, WebPanels, FiniteSetTheorems, SequenceTheorems, TLAPS

\* Nobody is named by a cookie who has not been created yet.
CookieInv == \A b \in Browser : session[b] # 0 => session[b] < nextId

RemovalInv ==
  \A b \in Browser :
    req[b].at \in {"deleteCount", "destroy"} =>
      /\ req[b].id # session[b]
      /\ req[b].id < nextId
      /\ req[b].at = "destroy" /\ req[b].id \in users => req[b].seen > 1

\* Who is not to be an administrator has counted somebody.
SignUpInv ==
  \A b \in Browser :
    req[b].at = "createSave" /\ ~ req[b].admin => req[b].seen > 0 /\ nextId > 1

IInv == TypeOK /\ CookieInv /\ RemovalInv /\ SignUpInv
-----------------------------------------------------------------------------
LEMMA CountBounds ==
  ASSUME NEW S, S \subseteq Id
  PROVE  /\ Cardinality(S) \in 0..MaxId
         /\ S # {} => Cardinality(S) > 0
<1>1. IsFiniteSet(Id) /\ Cardinality(Id) = MaxId
  BY FS_Interval, WebAssumption DEF Id
<1>2. IsFiniteSet(S) /\ Cardinality(S) <= MaxId
  BY <1>1, FS_Subset
<1>3. Cardinality(S) \in Nat /\ (Cardinality(S) = 0 <=> S = {})
  BY <1>2, FS_CardinalityType, FS_EmptySet
<1> QED BY <1>2, <1>3, WebAssumption

LEMMA AskedType ==
  ASSUME NEW at \in {"idle", "createCount", "createSave", "updateSave", "deleteCount", "destroy"},
         NEW id \in Id \cup {0}, NEW a \in BOOLEAN
  PROVE  /\ Asked(at, id, a) \in Request
         /\ Asked(at, id, a).at = at
         /\ Asked(at, id, a).id = id
<1>1. 0 \in 0..MaxId
  BY WebAssumption
<1> QED BY <1>1, Zenon DEF Asked, Request

LEMMA IdleType == Idle \in Request /\ Idle.at = "idle"
<1>1. Asked("idle", 0, FALSE) \in Request
  <2>1. 0 \in Id \cup {0} /\ 0 \in 0 .. MaxId
    BY WebAssumption
  <2> QED BY <2>1 DEF Asked, Request
<1>2. Asked("idle", 0, FALSE).at = "idle"
  BY DEF Asked
<1> QED BY <1>1, <1>2, Zenon DEF Idle

LEMMA InitInv == Init => IInv
<1> SUFFICES ASSUME Init PROVE IInv
  OBVIOUS
<1>i. Idle \in Request /\ Idle.at = "idle"
  BY IdleType
<1>1. TypeOK
  BY <1>i, WebAssumption DEF Init, TypeOK, NoForm, Form, Id
<1>2. CookieInv /\ RemovalInv /\ SignUpInv
  BY <1>i DEF Init, CookieInv, RemovalInv, SignUpInv
<1> QED BY <1>1, <1>2 DEF IInv

\* A step that only moves the request of b on, to r, keeps the invariant if r does.
LEMMA GotoKeeps ==
  ASSUME IInv, NEW b \in Browser, NEW r \in Request, Goto(b, r),
         UNCHANGED <<users, admins, nextId, session, form>>,
         r.at \in {"deleteCount", "destroy"} =>
           /\ r.id # session[b]
           /\ r.id < nextId
           /\ r.at = "destroy" /\ r.id \in users => r.seen > 1,
         r.at = "createSave" /\ ~ r.admin => r.seen > 0 /\ nextId > 1
  PROVE  IInv'
<1>1. TypeOK'
  BY DEF IInv, TypeOK, Goto
<1>2. \A c \in Browser : req'[c] = IF c = b THEN r ELSE req[c]
  BY DEF Goto, IInv, TypeOK
<1>3. CookieInv' /\ RemovalInv' /\ SignUpInv'
  BY <1>2 DEF IInv, CookieInv, RemovalInv, SignUpInv
<1> QED BY <1>1, <1>3 DEF IInv

LEMMA StepInv == IInv /\ [Next]_vars => IInv'
<1> SUFFICES ASSUME IInv, [Next]_vars PROVE IInv'
  OBVIOUS
<1> USE DEF IInv
<1>i. Idle \in Request /\ Idle.at = "idle"
  BY IdleType
<1>1. ASSUME NEW b \in Browser, LogIn(b) PROVE IInv'
  <2>1. PICK i \in users : session' = [session EXCEPT ![b] = i]
    BY <1>1 DEF LogIn
  <2>2. TypeOK'
    BY <1>1, <2>1 DEF LogIn, TypeOK
  <2>3. CookieInv'
    BY <1>1, <2>1 DEF LogIn, TypeOK, CookieInv
  <2>4. RemovalInv'
    BY <1>1, <1>i, <2>1 DEF LogIn, TypeOK, RemovalInv
  <2>5. SignUpInv'
    BY <1>1 DEF LogIn, SignUpInv
  <2> QED BY <2>2, <2>3, <2>4, <2>5
<1>2. ASSUME NEW b \in Browser, LogOut(b) \/ CloseBrowser(b) PROVE IInv'
  <2>0. /\ req[b] = Idle
        /\ session' = [session EXCEPT ![b] = 0]
        /\ form' = [form EXCEPT ![b] = NoForm]
        /\ UNCHANGED <<users, admins, nextId, req>>
    BY <1>2 DEF LogOut, CloseBrowser
  <2>1. TypeOK'
    BY <2>0 DEF TypeOK, NoForm, Form
  <2>2. CookieInv' /\ SignUpInv'
    BY <2>0 DEF TypeOK, CookieInv, SignUpInv
  <2>3. RemovalInv'
    BY <2>0, <1>i DEF TypeOK, RemovalInv
  <2> QED BY <2>1, <2>2, <2>3
<1>3. ASSUME NEW b \in Browser, Create(b) PROVE IInv'
  <2>1. PICK a \in BOOLEAN : Goto(b, Asked("createCount", 0, a))
    BY <1>3 DEF Create
  <2> DEFINE r == Asked("createCount", 0, a)
  <2>4. r \in Request /\ r.at = "createCount"
    BY AskedType
  <2>3. UNCHANGED <<users, admins, nextId, session, form>>
    BY <1>3 DEF Create
  <2> HIDE DEF r
  <2> QED BY <2>1, <2>3, <2>4, GotoKeeps DEF r
<1>4. ASSUME NEW b \in Browser, CreateCount(b) PROVE IInv'
  <2> DEFINE r == [req[b] EXCEPT !.at = "createSave", !.admin = @ \/ users = {},
                                 !.seen = Cardinality(users)]
  <2>0. req[b] \in Request /\ users \subseteq Id
    BY DEF TypeOK
  <2>1. /\ r.at = "createSave" /\ r.id = req[b].id /\ r.seen = Cardinality(users)
        /\ r.admin = (req[b].admin \/ users = {})
    BY <2>0 DEF Request
  <2>2. r \in Request
    BY <2>0, CountBounds DEF Request
  <2>3. ~ r.admin => r.seen > 0 /\ nextId > 1
    <3>1. SUFFICES ASSUME ~ r.admin PROVE r.seen > 0 /\ nextId > 1
      OBVIOUS
    <3>2. PICK i \in users : TRUE
      BY <2>1, <3>1
    <3>3. nextId > 1
      BY <3>2 DEF TypeOK, Id
    <3> QED BY <2>0, <2>1, <3>2, <3>3, CountBounds
  <2>4. Goto(b, r) /\ UNCHANGED <<users, admins, nextId, session, form>>
    BY <1>4 DEF CreateCount
  <2> HIDE DEF r
  <2> QED BY <2>1, <2>2, <2>3, <2>4, GotoKeeps
<1>5. ASSUME NEW b \in Browser, CreateSave(b) PROVE IInv'
  <2>1. /\ nextId \in Id /\ users' = users \cup {nextId}
        /\ admins' \in {admins, admins \cup {nextId}}
        /\ nextId' = nextId + 1
        /\ req' = [req EXCEPT ![b] = Idle]
        /\ UNCHANGED <<session, form>>
    BY <1>5, WebAssumption DEF CreateSave, Goto, TypeOK, Id
  <2>2. TypeOK'
    <3>1. users' \subseteq Id /\ admins' \subseteq users'
      BY <2>1 DEF TypeOK
    <3>2. nextId' \in 1..(MaxId + 1) /\ \A i \in users' : i < nextId'
      BY <2>1, WebAssumption DEF TypeOK, Id
    <3>3. req' \in [Browser -> Request]
      BY <2>1, <1>i DEF TypeOK
    <3> QED BY <2>1, <3>1, <3>2, <3>3 DEF TypeOK
  <2>3. CookieInv'
    BY <2>1, WebAssumption DEF TypeOK, CookieInv, Id
  <2>4. \A c \in Browser : req'[c] = IF c = b THEN Idle ELSE req[c]
    BY <2>1 DEF TypeOK
  <2>5. RemovalInv'
    <3> SUFFICES ASSUME NEW c \in Browser, req'[c].at \in {"deleteCount", "destroy"}
                 PROVE  /\ req'[c].id # session'[c]
                        /\ req'[c].id < nextId'
                        /\ req'[c].at = "destroy" /\ req'[c].id \in users'
                             => req'[c].seen > 1
      BY DEF RemovalInv
    <3>1. c # b /\ req'[c] = req[c]
      BY <2>4, <1>i
    <3>2. req[c].id < nextId /\ req[c].id # nextId
      BY <3>1, <2>1 DEF RemovalInv, TypeOK, Request, Id
    <3>3. req[c].id < nextId'
      BY <3>1, <3>2, <2>1 DEF TypeOK, Request, Id
    <3> QED BY <3>1, <3>2, <3>3, <2>1 DEF RemovalInv
  <2>6. SignUpInv'
    BY <2>1, <2>4, <1>i DEF SignUpInv, TypeOK, Id
  <2> QED BY <2>2, <2>3, <2>5, <2>6
<1>6. ASSUME NEW b \in Browser, CreateRefused(b) PROVE IInv'
  BY <1>6, <1>i, GotoKeeps DEF CreateRefused
<1>7. ASSUME NEW b \in Browser, EditUser(b) PROVE IInv'
  <2>1. PICK i \in users : form' = [form EXCEPT ![b] = [id |-> i, box |-> i \in admins]]
    BY <1>7 DEF EditUser
  <2>2. [id |-> i, box |-> i \in admins] \in Form
    BY DEF TypeOK, Form
  <2>3. TypeOK'
    BY <1>7, <2>1, <2>2 DEF EditUser, TypeOK
  <2> QED BY <1>7, <2>3 DEF EditUser, CookieInv, RemovalInv, SignUpInv
<1>8. ASSUME NEW b \in Browser, Update(b) PROVE IInv'
  <2>1. /\ form' = [form EXCEPT ![b] = NoForm]
        /\ UNCHANGED <<users, admins, nextId, session>>
    BY <1>8 DEF Update
  <2>2. NoForm \in Form
    BY DEF NoForm, Form
  <2>3. PICK a \in BOOLEAN :
          \/ req' = [req EXCEPT ![b] = Asked("updateSave", form[b].id, a)]
          \/ UNCHANGED req
    BY <1>8 DEF Update, Goto
  <2>4. form[b].id \in Id \cup {0}
    BY DEF TypeOK, Form
  <2>7. Asked("updateSave", form[b].id, a) \in Request
    BY <2>4, AskedType
  <2>8. Asked("updateSave", form[b].id, a).at = "updateSave"
    BY Zenon DEF Asked
  <2>5. TypeOK'
    BY <2>1, <2>2, <2>3, <2>7 DEF TypeOK
  <2>6. \A c \in Browser : req'[c] = req[c] \/ req'[c].at = "updateSave"
    BY <2>3, <2>8 DEF TypeOK
  <2> QED BY <2>1, <2>5, <2>6 DEF CookieInv, RemovalInv, SignUpInv
<1>9. ASSUME NEW b \in Browser, UpdateSave(b) PROVE IInv'
  <2>1. /\ admins' \subseteq users /\ req' = [req EXCEPT ![b] = Idle]
        /\ UNCHANGED <<users, nextId, session, form>>
    BY <1>9 DEF UpdateSave, Goto, TypeOK
  <2>2. TypeOK'
    BY <2>1, <1>i DEF TypeOK
  <2>3. \A c \in Browser : req'[c] = IF c = b THEN Idle ELSE req[c]
    BY <2>1 DEF TypeOK
  <2> QED BY <2>1, <2>2, <2>3, <1>i DEF CookieInv, RemovalInv, SignUpInv
<1>10. ASSUME NEW b \in Browser, Delete(b) PROVE IInv'
  <2>1. PICK i \in users \ {session[b]} :
               Goto(b, Asked("deleteCount", i, FALSE))
    BY <1>10 DEF Delete
  <2> DEFINE r == Asked("deleteCount", i, FALSE)
  <2>2. r \in Request /\ r.at = "deleteCount" /\ r.id = i
    BY <2>1, AskedType DEF TypeOK
  <2>3. r.id # session[b] /\ r.id < nextId
    BY <2>1, <2>2 DEF TypeOK
  <2>4. Goto(b, r) /\ UNCHANGED <<users, admins, nextId, session, form>>
    BY <1>10, <2>1 DEF Delete
  <2> HIDE DEF r
  <2> QED BY <2>2, <2>3, <2>4, GotoKeeps
<1>11. ASSUME NEW b \in Browser, DeleteCount(b) PROVE IInv'
  <2>1. UNCHANGED <<users, admins, nextId, session, form>>
    BY <1>11 DEF DeleteCount
  <2>2. CASE Cardinality(users) = 1
    BY <1>11, <1>i, <2>1, <2>2, GotoKeeps DEF DeleteCount
  <2>3. CASE Cardinality(users) # 1
    <3> DEFINE r == [req[b] EXCEPT !.at = "destroy", !.seen = Cardinality(users)]
    <3>0. req[b] \in Request /\ users \subseteq Id /\ req[b].at = "deleteCount"
      BY <1>11 DEF TypeOK, DeleteCount
    <3>1. r.at = "destroy" /\ r.id = req[b].id /\ r.seen = Cardinality(users)
      BY <3>0 DEF Request
    <3>2. r \in Request
      BY <3>0, CountBounds DEF Request
    <3>3. r.id # session[b] /\ r.id < nextId
      BY <3>0, <3>1 DEF RemovalInv
    <3>4. r.id \in users => r.seen > 1
      BY <3>0, <3>1, <2>3, CountBounds
    <3>5. Goto(b, r)
      BY <1>11, <2>3 DEF DeleteCount
    <3> HIDE DEF r
    <3> QED BY <2>1, <3>1, <3>2, <3>3, <3>4, <3>5, GotoKeeps
  <2> QED BY <2>2, <2>3
<1>12. ASSUME NEW b \in Browser, Destroy(b) PROVE IInv'
  <2>1. /\ users' \subseteq users /\ admins' \subseteq users'
        /\ req' = [req EXCEPT ![b] = Idle]
        /\ UNCHANGED <<nextId, session, form>>
    BY <1>12 DEF Destroy, Goto, TypeOK
  <2>2. TypeOK'
    BY <2>1, <1>i DEF TypeOK
  <2>3. \A c \in Browser : req'[c] = IF c = b THEN Idle ELSE req[c]
    BY <2>1 DEF TypeOK
  <2> QED BY <2>1, <2>2, <2>3, <1>i DEF CookieInv, RemovalInv, SignUpInv
<1>13. CASE UNCHANGED vars
  BY <1>13 DEF vars, TypeOK, CookieInv, RemovalInv, SignUpInv
<1> QED
  BY <1>1, <1>2, <1>3, <1>4, <1>5, <1>6, <1>7, <1>8, <1>9, <1>10, <1>11, <1>12, <1>13
  DEF Next

LEMMA Invariance == Spec => []IInv
BY InitInv, StepInv, PTL DEF Spec

(* Ids, sessions, forms and requests stay what they are meant to be.       *)
THEOREM TypeCorrect == Spec => []TypeOK
<1>1. IInv => TypeOK
  BY DEF IInv
<1> QED BY <1>1, Invariance, PTL
-----------------------------------------------------------------------------
\* What a step that takes the last element out of users or admins can be.
LEMMA Emptying ==
  ASSUME IInv, [Next]_vars
  PROVE  /\ users # {} /\ users' = {} =>
              \E b \in Browser : Destroy(b) /\ users = {req[b].id}
         /\ admins # {} /\ admins' = {} =>
              \E b \in Browser :
                \/ req[b].at = "updateSave" /\ ~ req[b].admin
                \/ Destroy(b) /\ admins = {req[b].id}
<1>1. CASE UNCHANGED vars
  BY <1>1 DEF vars
<1>2. ASSUME NEW b \in Browser,
             \/ LogIn(b) \/ LogOut(b) \/ CloseBrowser(b) \/ Create(b) \/ CreateCount(b)
             \/ CreateRefused(b) \/ EditUser(b) \/ Update(b) \/ Delete(b) \/ DeleteCount(b)
      PROVE UNCHANGED <<users, admins>>
  BY <1>2 DEF LogIn, LogOut, CloseBrowser, Create, CreateCount, CreateRefused, EditUser,
              Update, Delete, DeleteCount
<1>3. ASSUME NEW b \in Browser, CreateSave(b) PROVE users' # {} /\ (admins # {} => admins' # {})
  BY <1>3 DEF CreateSave
<1>4. ASSUME NEW b \in Browser, UpdateSave(b)
      PROVE  /\ users' = users
             /\ admins # {} /\ admins' = {} => req[b].at = "updateSave" /\ ~ req[b].admin
  BY <1>4 DEF UpdateSave
<1>5. ASSUME NEW b \in Browser, Destroy(b)
      PROVE  /\ users # {} /\ users' = {} => users = {req[b].id}
             /\ admins # {} /\ admins' = {} => admins = {req[b].id}
  BY <1>5 DEF Destroy
<1> QED BY <1>1, <1>2, <1>3, <1>4, <1>5 DEF Next

(* Only somebody without an account, whose count is out of date, empties   *)
(* the table of accounts.                                                  *)
THEOREM LastStays == Spec => LastGoesByAStranger
<1>1. IInv /\ [Next]_vars =>
        [users # {} /\ users' = {} =>
           \E b \in Browser :
             /\ req[b].at = "destroy"
             /\ session[b] \notin users
             /\ req[b].seen > Cardinality(users)]_vars
  <2> SUFFICES ASSUME IInv, [Next]_vars, users # {}, users' = {}
               PROVE  \E b \in Browser :
                        /\ req[b].at = "destroy"
                        /\ session[b] \notin users
                        /\ req[b].seen > Cardinality(users)
    OBVIOUS
  <2>1. PICK b \in Browser : Destroy(b) /\ users = {req[b].id}
    BY Emptying
  <2>2. req[b].at = "destroy" /\ session[b] # req[b].id /\ req[b].seen > 1
    BY <2>1 DEF Destroy, IInv, RemovalInv
  <2>3. Cardinality(users) = 1
    BY <2>1, FS_Singleton
  <2> QED BY <2>1, <2>2, <2>3
<1> QED BY <1>1, Invariance, PTL DEF Spec, LastGoesByAStranger

(* Administrators who remove others remain administrators.                 *)
THEOREM AdminStays == Spec => AdminRemains
<1>1. IInv /\ [Next]_vars =>
        [admins # {} /\ admins' = {} =>
           \E b \in Browser :
             \/ req[b].at = "updateSave" /\ ~ req[b].admin
             \/ req[b].at = "destroy" /\ session[b] \notin admins]_vars
  <2> SUFFICES ASSUME IInv, [Next]_vars, admins # {}, admins' = {}
               PROVE  \E b \in Browser :
                        \/ req[b].at = "updateSave" /\ ~ req[b].admin
                        \/ req[b].at = "destroy" /\ session[b] \notin admins
    OBVIOUS
  <2>1. PICK b \in Browser :
          \/ req[b].at = "updateSave" /\ ~ req[b].admin
          \/ Destroy(b) /\ admins = {req[b].id}
    BY Emptying
  <2>2. CASE Destroy(b) /\ admins = {req[b].id}
    <3>1. req[b].at = "destroy" /\ session[b] # req[b].id
      BY <2>2 DEF Destroy, IInv, RemovalInv
    <3> QED BY <2>2, <3>1
  <2> QED BY <2>1, <2>2
<1> QED BY <1>1, Invariance, PTL DEF Spec, AdminRemains

(* However many sign up at once, the first account is an administrator.    *)
THEOREM FirstBecomesAdmin == Spec => FirstIsAdmin
<1>1. IInv /\ [Next]_vars =>
        [users = {} /\ users' # {} =>
           \/ admins' = users'
           \/ nextId > 1 /\ \E b \in Browser : req[b].at = "createSave" /\ req[b].seen > 0]_vars
  <2> SUFFICES ASSUME IInv, Next, users = {}, users' # {}
               PROVE  \/ admins' = users'
                      \/ /\ nextId > 1
                         /\ \E b \in Browser : req[b].at = "createSave" /\ req[b].seen > 0
    BY DEF vars
  <2>1. PICK b \in Browser : CreateSave(b)
    BY DEF Next, LogIn, LogOut, CloseBrowser, Create, CreateCount, CreateRefused, EditUser,
           Update, UpdateSave, Delete, DeleteCount, Destroy
  <2>2. CASE req[b].admin
    BY <2>1, <2>2 DEF CreateSave, IInv, TypeOK
  <2>3. CASE ~ req[b].admin
    BY <2>1, <2>3 DEF CreateSave, IInv, SignUpInv
  <2> QED BY <2>2, <2>3
<1> QED BY <1>1, Invariance, PTL DEF Spec, FirstIsAdmin

(* The cookie of an account that is gone names nobody for ever after.      *)
THEOREM CookieIsOfOne == Spec => CookieStaysYours
<1>1. IInv /\ [Next]_vars =>
        [\A b \in Browser :
           session[b] # 0 /\ session[b] \notin users /\ session'[b] = session[b] =>
             session'[b] \notin users']_vars
  <2> SUFFICES ASSUME IInv, Next, NEW b \in Browser, session[b] # 0, session[b] \notin users,
                      session'[b] = session[b]
               PROVE  session[b] \notin users'
    BY DEF vars
  <2>1. users' \subseteq users \cup {nextId}
    BY DEF Next, LogIn, LogOut, CloseBrowser, Create, CreateCount, CreateSave, CreateRefused,
           EditUser, Update, UpdateSave, Delete, DeleteCount, Destroy
  <2>2. session[b] # nextId
    BY DEF IInv, CookieInv, TypeOK, Id
  <2> QED BY <2>1, <2>2
<1> QED BY <1>1, Invariance, PTL DEF Spec, CookieStaysYours
-----------------------------------------------------------------------------
(* The processes of the overview page *)

Running == {"create", "first", "second", "open", "read"}

\* Where a process is, it has what it needs there: a command to run, an inode.
CallInv ==
  \A b \in Process :
    /\ call[b].at = "idle" => call[b].fd = 0 /\ ~ call[b].robbed
    /\ call[b].at # "idle" => call[b].op \in Op
    /\ call[b].at \in {"first", "second", "read"} => call[b].fd # 0
    /\ call[b].at \in Running => call[b].ran < Len(call[b].todo)
    /\ call[b].at = "delete" => call[b].ran \in 1..Len(call[b].todo)
    /\ call[b].at # "idle" /\ call[b].op = "save" =>
         call[b].at \in {"create", "first", "second"} /\ Command(b) = System

CallIInv == FunctionsTypeOK /\ CallInv

\* Function and part of an output.
LEMMA OutputIs ==
  /\ Empty \in Output
  /\ System \in Function
  /\ \A f \in Function : OutputOf(f) \in Output
  /\ \A o \in Output, f \in Function : o[1] = f /\ o[2] = f => o = OutputOf(f)
BY FunctionsAssumption DEF Output, Empty, OutputOf

LEMMA NoCallIs ==
  /\ NoCall \in Call
  /\ NoCall.at = "idle" /\ NoCall.fd = 0 /\ ~ NoCall.robbed
<1>1. <<>> \in Seq(Function) /\ Empty \in Output
  BY OutputIs
<1> QED BY <1>1, Zenon DEF NoCall, Call

LEMMA TurnIs ==
  ASSUME call \in [Process -> Call], NEW b \in Process, NEW r \in Call,
         call' = [call EXCEPT ![b] = r]
  PROVE  /\ call' \in [Process -> Call]
         /\ call'[b] = r
         /\ \A c \in Process : c # b => call'[c] = call[c]
OBVIOUS

\* What a call is made of.
LEMMA CallIs ==
  ASSUME NEW r \in Call
  PROVE  /\ r.op \in Op \cup {"none"} /\ r.at \in At \cup {"idle"}
         /\ r.todo \in Seq(Function) /\ r.ran \in Nat /\ r.out \in Output
         /\ r.fd \in Inode \cup {0}
BY DEF Call

\* The changes of a call that the steps of a process make.
LEMMA CallChanges ==
  ASSUME NEW r \in Call
  PROVE  /\ \A i \in Inode : [r EXCEPT !.at = "first", !.fd = i, !.robbed = FALSE] \in Call
         /\ [r EXCEPT !.at = "second"] \in Call
         /\ [r EXCEPT !.at = "open", !.fd = 0] \in Call
         /\ \A i \in Inode : [r EXCEPT !.at = "read", !.fd = i] \in Call
         /\ \A o \in Output, n \in Nat :
              [r EXCEPT !.at = "delete", !.fd = 0, !.ran = n, !.out = o] \in Call
         /\ [r EXCEPT !.at = "create", !.out = Empty] \in Call
         /\ [r EXCEPT !.robbed = TRUE] \in Call
         /\ [r EXCEPT !.alone = FALSE] \in Call
<1>1. \A i \in Inode : [r EXCEPT !.at = "first", !.fd = i, !.robbed = FALSE] \in Call
  BY DEF Call, At
<1>2. [r EXCEPT !.at = "second"] \in Call
  BY DEF Call, At
<1>3. [r EXCEPT !.at = "open", !.fd = 0] \in Call
  BY DEF Call, At
<1>4. \A i \in Inode : [r EXCEPT !.at = "read", !.fd = i] \in Call
  BY DEF Call, At
<1>5. \A o \in Output, n \in Nat :
        [r EXCEPT !.at = "delete", !.fd = 0, !.ran = n, !.out = o] \in Call
  BY DEF Call, At
<1>6. [r EXCEPT !.at = "create", !.out = Empty] \in Call
  BY OutputIs DEF Call, At
<1>7. [r EXCEPT !.robbed = TRUE] \in Call
  BY DEF Call
<1>8. [r EXCEPT !.alone = FALSE] \in Call
  BY DEF Call
<1> QED BY <1>1, <1>2, <1>3, <1>4, <1>5, <1>6, <1>7, <1>8, Zenon

\* A request that begins.
NewCall(op, todo, a) ==
  [NoCall EXCEPT !.op = op, !.at = "create", !.todo = todo, !.alone = a]

LEMMA NewCallIs ==
  ASSUME NEW op \in Op, NEW todo \in Seq(Function), NEW a \in BOOLEAN,
         NEW r, r = NewCall(op, todo, a)
  PROVE  /\ r \in Call /\ r.op = op /\ r.at = "create" /\ r.todo = todo /\ r.ran = 0
         /\ r.fd = 0 /\ ~ r.robbed /\ (r.alone <=> a)
<1>1. r = [op |-> op, at |-> "create", todo |-> todo, ran |-> 0, out |-> Empty,
           fd |-> 0, alone |-> a, robbed |-> FALSE]
  BY DEF NoCall, NewCall
<1>2. op \in Op \cup {"none"} /\ "create" \in At \cup {"idle"} /\ 0 \in Nat
      /\ Empty \in Output /\ 0 \in Inode \cup {0} /\ FALSE \in BOOLEAN
  BY OutputIs DEF At
<1> DEFINE new == [op |-> op, at |-> "create", todo |-> todo, ran |-> 0, out |-> Empty,
                   fd |-> 0, alone |-> a, robbed |-> FALSE]
<1>3. new \in Call
  BY <1>2, Zenon DEF Call
<1>4. /\ new.op = op /\ new.at = "create" /\ new.todo = todo /\ new.ran = 0
      /\ new.fd = 0 /\ new.robbed = FALSE /\ new.alone = a
  BY Zenon
<1>5. r = new
  BY <1>1, Zenon
<1> HIDE DEF new
<1> QED BY <1>3, <1>4, <1>5, Zenon

LEMMA AskIs ==
  ASSUME CallIInv, NEW b \in Process, NEW op \in Op, NEW todo \in Seq(Function),
         todo # <<>>, op = "save" => todo = <<System>>, Ask(b, op, todo)
  PROVE  /\ call' \in [Process -> Call] /\ CallInv'
         /\ call[b].at = "idle"
         /\ call'[b].op = op /\ call'[b].at = "create" /\ call'[b].todo = todo
         /\ call'[b].alone => Waiting = {}
         /\ ~ call'[b].robbed /\ call'[b].fd = 0
         /\ \A c \in Process : c # b =>
              /\ call'[c].op = call[c].op /\ call'[c].at = call[c].at
              /\ call'[c].todo = call[c].todo /\ call'[c].ran = call[c].ran
              /\ call'[c].out = call[c].out /\ call'[c].fd = call[c].fd
              /\ call'[c].robbed = call[c].robbed
              /\ call[c].at # "idle" => ~ call'[c].alone
<1>1. call \in [Process -> Call]
  BY DEF CallIInv, FunctionsTypeOK
<1>2. PICK a \in BOOLEAN : a = (Waiting = {})
  OBVIOUS
<1>3. PICK r : r = NewCall(op, todo, a)
  OBVIOUS
<1>4. /\ r \in Call /\ r.op = op /\ r.at = "create" /\ r.todo = todo /\ r.ran = 0
      /\ r.fd = 0 /\ ~ r.robbed /\ (r.alone <=> a)
  BY <1>3, NewCallIs
<1>5. /\ call[b].at = "idle"
      /\ call' = [c \in Process |->
                    IF c = b THEN r
                    ELSE IF c \in Waiting THEN [call[c] EXCEPT !.alone = FALSE]
                    ELSE call[c]]
  BY <1>2, <1>3, Zenon DEF Ask, NewCall
<1>6. call'[b] = r
  BY <1>5
<1>7. ASSUME NEW c \in Process, c # b
      PROVE  /\ call'[c] \in Call
             /\ call'[c].op = call[c].op /\ call'[c].at = call[c].at
             /\ call'[c].todo = call[c].todo /\ call'[c].ran = call[c].ran
             /\ call'[c].out = call[c].out /\ call'[c].fd = call[c].fd
             /\ call'[c].robbed = call[c].robbed
             /\ call[c].at # "idle" => ~ call'[c].alone
  <2>1. call[c] \in Call
    BY <1>1
  <2>2. CASE c \in Waiting
    <3>1. call'[c] = [call[c] EXCEPT !.alone = FALSE]
      BY <1>5, <1>7, <2>2
    <3>2. PICK d \in Call : d = call[c]
      BY <2>1
    <3>3. PICK e \in Call : e = [d EXCEPT !.alone = FALSE]
      BY CallChanges
    <3>4. /\ e.op = d.op /\ e.at = d.at /\ e.todo = d.todo /\ e.ran = d.ran
          /\ e.out = d.out /\ e.fd = d.fd /\ e.robbed = d.robbed
      BY <3>3 DEF Call
    <3>5. e.alone = FALSE
      BY <3>3 DEF Call
    <3> QED BY <3>1, <3>2, <3>3, <3>4, <3>5, Zenon
  <2>3. CASE c \notin Waiting
    <3>1. call'[c] = call[c] /\ call[c].at = "idle"
      BY <1>5, <1>7, <2>3 DEF Waiting
    <3> QED BY <2>1, <3>1
  <2> QED BY <2>2, <2>3
<1>8. call' \in [Process -> Call]
  BY <1>4, <1>5, <1>6, <1>7
<1>9. CallInv'
  <2>1. Len(todo) > 0 /\ (op = "save" => todo[1] = System)
    OBVIOUS
  <2>2. Command(b)' = r.todo[1]
    BY <1>4, <1>6 DEF Command
  <2>3. \A c \in Process : c # b => Command(c)' = Command(c)
    BY <1>7 DEF Command
  <2> QED BY <1>4, <1>6, <1>7, <2>1, <2>2, <2>3 DEF CallIInv, CallInv, Running
<1> QED BY <1>2, <1>4, <1>5, <1>6, <1>7, <1>8, <1>9

\* Only one of the requests moves on.
Others(b) == \A c \in Process : c # b => call'[c] = call[c]

\* A request that ends, or moves on as it is.
LEMMA OtherCalls ==
  ASSUME CallIInv, NEW b \in Process, NEW r \in Call, call' = [call EXCEPT ![b] = r],
         r.at = "idle" => r.fd = 0 /\ ~ r.robbed,
         r.at # "idle" => r.op \in Op,
         r.at \in {"first", "second", "read"} => r.fd # 0,
         r.at \in Running => r.ran < Len(r.todo),
         r.at = "delete" => r.ran \in 1..Len(r.todo),
         r.at # "idle" /\ r.op = "save" =>
           r.at \in {"create", "first", "second"} /\ r.todo[r.ran + 1] = System
  PROVE  call' \in [Process -> Call] /\ call'[b] = r /\ Others(b) /\ CallInv'
<1>1. call \in [Process -> Call]
  BY DEF CallIInv, FunctionsTypeOK
<1>2. call' \in [Process -> Call] /\ call'[b] = r /\ Others(b)
  BY <1>1, TurnIs DEF Others
<1>3. CallInv'
  BY <1>2 DEF CallIInv, CallInv, Command, Others
<1> QED BY <1>2, <1>3

\* There are more inodes than files can be open.
LEMMA InodeIsFree ==
  ASSUME CallIInv, NEW b \in Process, path = 0
  PROVE  \E i \in Inode : i \notin Held(b)
<1>1. SUFFICES ASSUME \A i \in Inode : i \in Held(b) PROVE FALSE
  OBVIOUS
<1>2. PICK n \in Nat : n = Cardinality(Process)
  BY FS_CardinalityType, FunctionsAssumption
<1>3. Inode = 1..(n + 1) /\ IsFiniteSet(Inode) /\ Cardinality(Inode) = n + 1
  <2>1. Inode = 1..(n + 1)
    BY <1>2 DEF Inode
  <2>2. n + 1 \in Int /\ 1 \in Int /\ ~ (1 > n + 1) /\ (n + 1) - 1 + 1 = n + 1
    BY <1>2
  <2> QED BY <2>1, <2>2, FS_Interval
<1>4. PICK f : f = [c \in Process |-> call[c].fd]
  OBVIOUS
<1>5. \A i \in Inode : \E c \in Process : f[c] = i
  <2>1. \A i \in Inode : i # 0
    BY <1>3
  <2> QED BY <1>1, <1>4, <2>1 DEF Held
<1>6. PICK T : T = {f[c] : c \in Process}
  OBVIOUS
<1>7. f \in Surjection(Process, T)
  BY <1>4, <1>6 DEF Surjection
<1>8. IsFiniteSet(T) /\ Cardinality(T) <= n
  BY <1>2, <1>7, FunctionsAssumption, FS_Surjection
<1>9. Inode \in SUBSET T
  BY <1>5, <1>6
<1>10. Cardinality(Inode) <= Cardinality(T) /\ Cardinality(T) \in Nat
  BY <1>8, <1>9, FS_Subset, FS_CardinalityType
<1> QED BY <1>2, <1>3, <1>8, <1>10

\* What is kept of a request by a step of its own.
Keeps(b) ==
  /\ call'[b].op = call[b].op /\ call'[b].todo = call[b].todo
  /\ call'[b].alone <=> call[b].alone

LEMMA CreateIs ==
  ASSUME CallIInv, NEW b \in Process, CreateFile(b)
  PROVE  /\ call' \in [Process -> Call] /\ Others(b) /\ CallInv'
         /\ Keeps(b) /\ call'[b].ran = call[b].ran
         /\ call'[b].at = "first" /\ ~ call'[b].robbed
         /\ call'[b].fd = path' /\ path' \in Inode /\ body' = Clear(path')
         /\ body' \in [Inode -> Output]
<1>0. PICK i : i = Opened(b)
  OBVIOUS
<1>1. /\ path' = i /\ body' = Clear(i)
      /\ call' = [call EXCEPT ![b] = [@ EXCEPT !.at = "first", !.fd = i, !.robbed = FALSE]]
  BY <1>0, Zenon DEF CreateFile
<1>2. i \in Inode
  <2>1. CASE path # 0
    BY <1>0, <2>1 DEF Opened, CallIInv, FunctionsTypeOK
  <2>2. CASE path = 0
    BY <1>0, <2>2, InodeIsFree DEF Opened
  <2> QED BY <2>1, <2>2
<1>3. PICK c \in Call : c = call[b]
  BY DEF CallIInv, FunctionsTypeOK
<1>4. PICK r : r = [c EXCEPT !.at = "first", !.fd = i, !.robbed = FALSE]
  OBVIOUS
<1>5. r \in Call
  BY <1>2, <1>4, CallChanges
<1>6. /\ r.op = c.op /\ r.todo = c.todo /\ (r.alone <=> c.alone) /\ r.ran = c.ran
      /\ r.at = "first" /\ ~ r.robbed /\ r.fd = i
  BY <1>4 DEF Call
<1>7. call' = [call EXCEPT ![b] = r]
  BY <1>1, <1>3, <1>4
<1>8. i # 0
  BY <1>2 DEF Inode
<1>9. c.at = "create" /\ c.op \in Op /\ c.ran < Len(c.todo)
      /\ (c.op = "save" => c.todo[c.ran + 1] = System)
  BY <1>3 DEF CreateFile, CallIInv, CallInv, Running, Command
<1>10. call' \in [Process -> Call] /\ call'[b] = r /\ Others(b) /\ CallInv'
  BY <1>5, <1>6, <1>7, <1>8, <1>9, OtherCalls DEF Running
<1>11. body' \in [Inode -> Output]
  BY <1>1, <1>2, OutputIs DEF Clear, CallIInv, FunctionsTypeOK
<1> QED BY <1>1, <1>2, <1>3, <1>6, <1>10, <1>11 DEF Keeps

\* The command under way is one of the request.
LEMMA CommandIs ==
  ASSUME CallIInv, NEW b \in Process, call[b].at \in Running
  PROVE  /\ Command(b) \in Function
         /\ call[b].op = "save" => Command(b) = System
<1>1. call[b] \in Call /\ call[b].ran < Len(call[b].todo)
  BY DEF CallIInv, FunctionsTypeOK, CallInv
<1>2. call[b].todo \in Seq(Function) /\ call[b].ran \in Nat
  BY <1>1, CallIs
<1>3. call[b].ran + 1 \in 1..Len(call[b].todo)
  BY <1>1, <1>2
<1>4. Command(b) \in Function
  BY <1>2, <1>3 DEF Command
<1> QED BY <1>4 DEF CallIInv, CallInv, Running

LEMMA FirstIs ==
  ASSUME CallIInv, NEW b \in Process, WriteFirst(b)
  PROVE  /\ call' \in [Process -> Call] /\ Others(b) /\ CallInv'
         /\ Keeps(b) /\ call'[b].ran = call[b].ran
         /\ call'[b].at = "second" /\ (call'[b].robbed <=> call[b].robbed)
         /\ call'[b].fd = call[b].fd /\ call[b].fd \in Inode
         /\ body' \in [Inode -> Output]
         /\ body'[call[b].fd][1] = Command(b)
         /\ body'[call[b].fd][2] = body[call[b].fd][2]
         /\ \A i \in Inode : i # call[b].fd => body'[i] = body[i]
<1>1. PICK c \in Call : c = call[b]
  BY DEF CallIInv, FunctionsTypeOK
<1>2. PICK r : r = [c EXCEPT !.at = "second"]
  OBVIOUS
<1>3. /\ r.op = c.op /\ r.todo = c.todo /\ (r.alone <=> c.alone) /\ r.ran = c.ran
      /\ r.at = "second" /\ (r.robbed <=> c.robbed) /\ r.fd = c.fd
  BY <1>1, <1>2 DEF Call
<1>14. r \in Call
  BY <1>1, <1>2, CallChanges, Zenon
<1>4. /\ call' = [call EXCEPT ![b] = r]
      /\ body' = [body EXCEPT ![c.fd] = [@ EXCEPT ![1] = Command(b)]]
  BY <1>1, <1>2 DEF WriteFirst
<1>5. c.at = "first" /\ c.op \in Op /\ c.ran < Len(c.todo) /\ c.fd \in Inode
      /\ (c.op = "save" => c.todo[c.ran + 1] = System)
  BY <1>1, CallIs DEF WriteFirst, CallIInv, CallInv, Running, Command
<1>6. c.fd # 0
  BY <1>5 DEF Inode
<1>7. call' \in [Process -> Call] /\ call'[b] = r /\ Others(b) /\ CallInv'
  BY <1>3, <1>4, <1>5, <1>6, <1>14, OtherCalls DEF Running
<1>8. PICK f \in Function : f = Command(b)
  BY <1>1, <1>5, CommandIs DEF Running
<1>9. PICK o \in Output : o = body[c.fd]
  BY <1>5 DEF CallIInv, FunctionsTypeOK
<1>10. PICK o2 : o2 = [o EXCEPT ![1] = f]
  OBVIOUS
<1>13. o2 \in Output /\ o2[1] = f /\ o2[2] = o[2]
  <2>1. f \in Function \cup {Gap}
    BY <1>8
  <2> QED BY <1>9, <1>10, <2>1 DEF Output
<1>11. /\ body' \in [Inode -> Output]
       /\ body'[c.fd] = o2
       /\ \A i \in Inode : i # c.fd => body'[i] = body[i]
  <2>1. body \in [Inode -> Output] /\ body' = [body EXCEPT ![c.fd] = o2]
    BY <1>4, <1>8, <1>9, <1>10 DEF CallIInv, FunctionsTypeOK
  <2> QED BY <1>5, <1>13, <2>1
<1> QED BY <1>1, <1>3, <1>5, <1>7, <1>8, <1>9, <1>13, <1>11 DEF Keeps

LEMMA SecondIs ==
  ASSUME CallIInv, NEW b \in Process, WriteSecond(b)
  PROVE  /\ call' \in [Process -> Call] /\ Others(b) /\ CallInv'
         /\ call[b].op # "save" =>
              /\ Keeps(b) /\ call'[b].ran = call[b].ran
              /\ call'[b].at = "open" /\ (call'[b].robbed <=> call[b].robbed)
         /\ call[b].op = "save" => call'[b].at = "idle" /\ ~ call'[b].robbed
         /\ call'[b].fd = 0 /\ call[b].fd \in Inode
         /\ body' \in [Inode -> Output]
         /\ call[b].fd = path =>
              /\ body'[path][2] = Command(b)
              /\ body'[path][1] = body[path][1]
         /\ \A i \in Inode : i # call[b].fd => body'[i] = body[i]
<1>1. PICK c \in Call : c = call[b]
  BY DEF CallIInv, FunctionsTypeOK
<1>2. PICK r : r = IF c.op = "save" THEN NoCall ELSE [c EXCEPT !.at = "open", !.fd = 0]
  OBVIOUS
<1>3. /\ c.op # "save" =>
           /\ r.op = c.op /\ r.todo = c.todo /\ (r.alone <=> c.alone) /\ r.ran = c.ran
           /\ r.at = "open" /\ (r.robbed <=> c.robbed)
      /\ c.op = "save" => r.at = "idle" /\ ~ r.robbed
      /\ r.fd = 0 /\ r \in Call
  <2>1. CASE c.op = "save"
    BY <1>2, <2>1, NoCallIs
  <2>2. CASE c.op # "save"
    <3>1. r = [c EXCEPT !.at = "open", !.fd = 0]
      BY <1>2, <2>2
    <3>2. r \in Call
      BY <1>1, <3>1, CallChanges, Zenon
    <3>3. /\ r.op = c.op /\ r.todo = c.todo /\ (r.alone <=> c.alone) /\ r.ran = c.ran
          /\ r.at = "open" /\ (r.robbed <=> c.robbed) /\ r.fd = 0
      BY <1>1, <3>1 DEF Call
    <3> QED BY <2>2, <3>2, <3>3, Zenon
  <2> QED BY <2>1, <2>2, Zenon
<1>4. call' = [call EXCEPT ![b] = r]
  BY <1>1, <1>2 DEF WriteSecond
<1>5. c.at = "second" /\ c.op \in Op /\ c.ran < Len(c.todo) /\ c.fd \in Inode
      /\ (c.op = "save" => c.todo[c.ran + 1] = System)
  BY <1>1, CallIs DEF WriteSecond, CallIInv, CallInv, Running, Command
<1>6. call' \in [Process -> Call] /\ call'[b] = r /\ Others(b) /\ CallInv'
  BY <1>3, <1>4, <1>5, OtherCalls DEF Running
<1>7. PICK f \in Function : f = Command(b)
  BY <1>1, <1>5, CommandIs DEF Running
<1>8. PICK o \in Output : o = body[c.fd]
  BY <1>5 DEF CallIInv, FunctionsTypeOK
<1>9. PICK o2 : o2 = [o EXCEPT ![2] = f]
  OBVIOUS
<1>11. o2 \in Output /\ o2[2] = f /\ o2[1] = o[1]
  <2>1. f \in Function \cup {Gap}
    BY <1>7
  <2> QED BY <1>8, <1>9, <2>1 DEF Output
<1>12. body' = IF c.fd \in Held(b) THEN [body EXCEPT ![c.fd] = o2]
                                   ELSE [body EXCEPT ![c.fd] = Empty]
  BY <1>1, <1>5, <1>7, <1>8, <1>9 DEF WriteSecond, Clear, CallIInv, FunctionsTypeOK
<1>13. body' \in [Inode -> Output] /\ \A i \in Inode : i # c.fd => body'[i] = body[i]
  BY <1>5, <1>11, <1>12, OutputIs DEF CallIInv, FunctionsTypeOK
<1>14. c.fd = path => body'[path] = o2
  BY <1>5, <1>12 DEF Held, CallIInv, FunctionsTypeOK
<1> QED BY <1>1, <1>3, <1>5, <1>6, <1>7, <1>8, <1>11, <1>13, <1>14 DEF Keeps

LEMMA OpenIs ==
  ASSUME CallIInv, NEW b \in Process, Open(b)
  PROVE  /\ call' \in [Process -> Call] /\ Others(b) /\ CallInv'
         /\ call[b].op # "save"
         /\ path # 0 =>
              /\ Keeps(b) /\ call'[b].ran = call[b].ran
              /\ call'[b].at = "read" /\ (call'[b].robbed <=> call[b].robbed)
              /\ call'[b].fd = path
         /\ path = 0 => call'[b].at = "idle" /\ ~ call'[b].robbed /\ call'[b].fd = 0
<1>1. PICK c \in Call : c = call[b]
  BY DEF CallIInv, FunctionsTypeOK
<1>2. PICK r : r = IF path = 0 THEN NoCall ELSE [c EXCEPT !.at = "read", !.fd = path]
  OBVIOUS
<1>3. path # 0 => path \in Inode
  BY DEF CallIInv, FunctionsTypeOK
<1>4. /\ path # 0 =>
           /\ r.op = c.op /\ r.todo = c.todo /\ (r.alone <=> c.alone) /\ r.ran = c.ran
           /\ r.at = "read" /\ (r.robbed <=> c.robbed) /\ r.fd = path
      /\ path = 0 => r.at = "idle" /\ ~ r.robbed /\ r.fd = 0
      /\ r \in Call
  <2>1. CASE path = 0
    BY <1>2, <2>1, NoCallIs
  <2>2. CASE path # 0
    <3>1. r = [c EXCEPT !.at = "read", !.fd = path]
      BY <1>2, <2>2
    <3>2. r \in Call
      BY <1>1, <1>3, <2>2, <3>1, CallChanges, Zenon
    <3>3. /\ r.op = c.op /\ r.todo = c.todo /\ (r.alone <=> c.alone) /\ r.ran = c.ran
          /\ r.at = "read" /\ (r.robbed <=> c.robbed) /\ r.fd = path
      BY <1>1, <3>1 DEF Call
    <3> QED BY <2>2, <3>2, <3>3, Zenon
  <2> QED BY <2>1, <2>2, Zenon
<1>5. call' = [call EXCEPT ![b] = r]
  BY <1>1, <1>2 DEF Open
<1>6. c.at = "open" /\ c.op \in Op /\ c.ran < Len(c.todo) /\ c.op # "save"
  BY <1>1 DEF Open, CallIInv, CallInv, Running
<1>7. call' \in [Process -> Call] /\ call'[b] = r /\ Others(b) /\ CallInv'
  BY <1>4, <1>5, <1>6, OtherCalls DEF Running
<1> QED BY <1>1, <1>4, <1>6, <1>7 DEF Keeps

LEMMA ReadIs ==
  ASSUME CallIInv, NEW b \in Process, Read(b)
  PROVE  /\ call' \in [Process -> Call] /\ Others(b) /\ CallInv'
         /\ Keeps(b) /\ call[b].op # "save"
         /\ call'[b].at = "delete" /\ (call'[b].robbed <=> call[b].robbed)
         /\ call'[b].fd = 0 /\ call[b].fd \in Inode
         /\ call'[b].out = body[call[b].fd]
         /\ call'[b].todo[call'[b].ran] = Command(b)
         /\ body' \in [Inode -> Output]
         /\ path # 0 => body'[path] = body[path]
<1>1. PICK c \in Call : c = call[b]
  BY DEF CallIInv, FunctionsTypeOK
<1>2. c.at = "read" /\ c.op \in Op /\ c.ran < Len(c.todo) /\ c.op # "save" /\ c.fd \in Inode
      /\ c.ran \in Nat /\ c.todo \in Seq(Function)
  BY <1>1, CallIs DEF Read, CallIInv, CallInv, Running
<1>3. PICK n, o : n = c.ran + 1 /\ o = body[c.fd]
  OBVIOUS
<1>4. n \in Nat /\ o \in Output /\ n \in 1..Len(c.todo)
  BY <1>2, <1>3 DEF CallIInv, FunctionsTypeOK
<1>5. PICK r : r = [c EXCEPT !.at = "delete", !.fd = 0, !.ran = n, !.out = o]
  OBVIOUS
<1>6. r \in Call
  BY <1>1, <1>4, <1>5, CallChanges, Zenon
<1>7. /\ r.op = c.op /\ r.todo = c.todo /\ (r.alone <=> c.alone) /\ r.ran = n
      /\ r.at = "delete" /\ (r.robbed <=> c.robbed) /\ r.fd = 0 /\ r.out = o
  BY <1>1, <1>3, <1>5 DEF Call
<1>8. call' = [call EXCEPT ![b] = r]
  <2>1. call' = [call EXCEPT ![b] = [call[b] EXCEPT !.at = "delete", !.fd = 0,
                                       !.ran = call[b].ran + 1, !.out = body[call[b].fd]]]
    BY DEF Read, CallIInv, FunctionsTypeOK
  <2> QED BY <1>1, <1>3, <1>5, <2>1, Zenon
<1>9. call' \in [Process -> Call] /\ call'[b] = r /\ Others(b) /\ CallInv'
  BY <1>2, <1>4, <1>6, <1>7, <1>8, OtherCalls DEF Running
<1>10. body' = IF c.fd \in Held(b) THEN body ELSE [body EXCEPT ![c.fd] = Empty]
  BY <1>1 DEF Read, Clear
<1>11. body' \in [Inode -> Output]
  BY <1>2, <1>10, OutputIs DEF CallIInv, FunctionsTypeOK
<1>12. path # 0 => body'[path] = body[path]
  BY <1>2, <1>10 DEF Held, CallIInv, FunctionsTypeOK
<1>13. Command(b) = c.todo[n]
  BY <1>1, <1>3 DEF Command
<1> QED BY <1>1, <1>2, <1>3, <1>7, <1>9, <1>11, <1>12, <1>13 DEF Keeps

\* A removal: the request ends, or goes on to its next command; it ends with an
\* answer when its last command has run and the file was there.
LEMMA DeleteIs ==
  ASSUME CallIInv, NEW b \in Process, DeleteFile(b)
  PROVE  /\ call' \in [Process -> Call] /\ CallInv'
         /\ path' = 0 /\ body' \in [Inode -> Output]
         /\ call[b].op # "save"
         /\ call'[b].at \in {"idle", "create"} /\ (call'[b].robbed => call[b].robbed)
         /\ call'[b].at = "create" => Keeps(b)
         /\ \A c \in Process : c # b =>
              /\ call'[c].op = call[c].op /\ call'[c].at = call[c].at
              /\ call'[c].todo = call[c].todo /\ call'[c].ran = call[c].ran
              /\ call'[c].out = call[c].out /\ call'[c].fd = call[c].fd
              /\ call'[c].alone <=> call[c].alone
              /\ call'[c].robbed <=> call[c].robbed \/ (path # 0 /\ call[c].at # "idle")
<1> DEFINE done == path = 0 \/ call[b].ran = Len(call[b].todo)
<1>1. PICK c \in Call : c = call[b]
  BY DEF CallIInv, FunctionsTypeOK
<1>2. c.at = "delete" /\ c.op \in Op /\ c.ran \in 1..Len(c.todo) /\ c.op # "save"
      /\ c.ran \in Nat /\ c.todo \in Seq(Function)
  BY <1>1, CallIs DEF DeleteFile, CallIInv, CallInv
<1>3. PICK r : r = IF done THEN NoCall ELSE [c EXCEPT !.at = "create", !.out = Empty]
  OBVIOUS
<1>4. PICK d \in BOOLEAN : d <=> done
  OBVIOUS
<1> HIDE DEF done
<1>5. /\ r \in Call /\ r.at \in {"idle", "create"}
      /\ r.robbed => c.robbed
      /\ r.at = "idle" => r.fd = 0 /\ ~ r.robbed
      /\ r.at = "create" => /\ r.op = c.op /\ r.todo = c.todo /\ (r.alone <=> c.alone)
                            /\ r.ran = c.ran /\ c.ran # Len(c.todo)
  <2>1. CASE d
    BY <1>3, <1>4, <2>1, NoCallIs
  <2>2. CASE ~ d
    <3>1. r = [c EXCEPT !.at = "create", !.out = Empty]
      BY <1>3, <1>4, <2>2
    <3>2. r \in Call
      BY <1>1, <3>1, CallChanges, Zenon
    <3>3. /\ r.op = c.op /\ r.todo = c.todo /\ (r.alone <=> c.alone) /\ r.ran = c.ran
          /\ r.at = "create" /\ (r.robbed <=> c.robbed) /\ r.fd = c.fd
      BY <1>1, <3>1 DEF Call
    <3>4. c.ran # Len(c.todo)
      BY <1>1, <1>4, <2>2 DEF done
    <3>5. r.at # "idle"
      BY <3>3
    <3> QED BY <3>2, <3>3, <3>4, <3>5, Zenon
  <2> QED BY <1>4, <2>1, <2>2, Zenon
<1>6. /\ call' = [e \in Process |->
                    IF e = b THEN r
                    ELSE IF path # 0 /\ e \in Waiting THEN [call[e] EXCEPT !.robbed = TRUE]
                    ELSE call[e]]
      /\ path' = 0
      /\ body' = IF path = 0 \/ \E e \in Process : call[e].fd = path THEN body ELSE Clear(path)
  BY <1>1, <1>3, <1>4, Zenon DEF DeleteFile, Ends, done
<1>7. call'[b] = r
  BY <1>6
<1>8. ASSUME NEW e \in Process, e # b
      PROVE  /\ call'[e] \in Call
             /\ call'[e].op = call[e].op /\ call'[e].at = call[e].at
             /\ call'[e].todo = call[e].todo /\ call'[e].ran = call[e].ran
             /\ call'[e].out = call[e].out /\ call'[e].fd = call[e].fd
             /\ call'[e].alone <=> call[e].alone
             /\ call'[e].robbed <=> call[e].robbed \/ (path # 0 /\ call[e].at # "idle")
  <2>1. PICK old \in Call : old = call[e]
    BY DEF CallIInv, FunctionsTypeOK
  <2>2. CASE path # 0 /\ e \in Waiting
    <3>1. PICK new : new = [old EXCEPT !.robbed = TRUE]
      OBVIOUS
    <3>2. new \in Call
      BY <2>1, <3>1, CallChanges, Zenon
    <3>3. /\ new.op = old.op /\ new.at = old.at /\ new.todo = old.todo /\ new.ran = old.ran
          /\ new.out = old.out /\ new.fd = old.fd /\ (new.alone <=> old.alone) /\ new.robbed
      BY <2>1, <3>1 DEF Call
    <3>4. call'[e] = new /\ call[e].at # "idle"
      BY <1>6, <1>8, <2>1, <2>2, <3>1 DEF Waiting
    <3> QED BY <2>1, <2>2, <3>2, <3>3, <3>4, Zenon
  <2>3. CASE ~ (path # 0 /\ e \in Waiting)
    <3>1. call'[e] = old /\ ~ (path # 0 /\ call[e].at # "idle")
      BY <1>6, <1>8, <2>1, <2>3 DEF Waiting
    <3> QED BY <2>1, <3>1, Zenon
  <2> QED BY <2>2, <2>3
<1>9. call' \in [Process -> Call]
  BY <1>5, <1>6, <1>7, <1>8
<1>10. CallInv'
  <2>1. \A e \in Process : e # b => Command(e)' = Command(e)
    BY <1>8 DEF Command
  <2>2. ASSUME NEW e \in Process, e # b
        PROVE  call[e].at = "idle" => ~ call'[e].robbed
    BY <1>8, <2>2 DEF CallIInv, CallInv
  <2>3. ASSUME NEW e \in Process, e # b
        PROVE  /\ call'[e].at = "idle" => call'[e].fd = 0 /\ ~ call'[e].robbed
               /\ call'[e].at # "idle" => call'[e].op \in Op
               /\ call'[e].at \in {"first", "second", "read"} => call'[e].fd # 0
               /\ call'[e].at \in Running => call'[e].ran < Len(call'[e].todo)
               /\ call'[e].at = "delete" => call'[e].ran \in 1..Len(call'[e].todo)
               /\ call'[e].at # "idle" /\ call'[e].op = "save" =>
                    call'[e].at \in {"create", "first", "second"} /\ Command(e)' = System
    BY <1>8, <2>1, <2>2, <2>3 DEF CallIInv, CallInv
  <2>4. /\ call'[b].at = "idle" => call'[b].fd = 0 /\ ~ call'[b].robbed
        /\ call'[b].at # "idle" => call'[b].op \in Op
        /\ call'[b].at \in {"first", "second", "read"} => call'[b].fd # 0
        /\ call'[b].at \in Running => call'[b].ran < Len(call'[b].todo)
        /\ call'[b].at = "delete" => call'[b].ran \in 1..Len(call'[b].todo)
        /\ call'[b].at # "idle" /\ call'[b].op = "save" =>
             call'[b].at \in {"create", "first", "second"} /\ Command(b)' = System
    BY <1>2, <1>5, <1>7 DEF CallIInv, CallInv, Running
  <2> QED BY <2>3, <2>4 DEF CallInv
<1>11. body' \in [Inode -> Output]
  BY <1>6, OutputIs DEF Clear, CallIInv, FunctionsTypeOK
<1> QED BY <1>1, <1>2, <1>5, <1>6, <1>7, <1>8, <1>9, <1>10, <1>11, Zenon DEF Keeps

-----------------------------------------------------------------------------
Arrives(p) == Start(p) \/ LoadPage(p) \/ RefreshFunction(p) \/ PrintView(p) \/ SaveFunction(p)

\* What arrives is a request for commands there are.
LEMMA ArrivesIs ==
  ASSUME NEW b \in Process, Arrives(b)
  PROVE  \E op \in Op, todo \in Seq(Function) :
           todo # <<>> /\ (op = "save" => todo = <<System>>) /\ Ask(b, op, todo)
<1>1. ASSUME Start(b)
      PROVE  \E todo \in Seq(Function) : todo # <<>> /\ Ask(b, "start", todo)
  <2>1. PICK f \in Function : Ask(b, "start", IF f = System THEN <<f, f>> ELSE <<f>>)
    BY <1>1 DEF Start
  <2>2. <<f, f>> \in Seq(Function) /\ <<f, f>> # <<>> /\ <<f>> \in Seq(Function) /\ <<f>> # <<>>
    OBVIOUS
  <2> QED BY <2>1, <2>2, Zenon
<1>2. ASSUME LoadPage(b)
      PROVE  \E todo \in Seq(Function) : todo # <<>> /\ Ask(b, "load", todo)
  <2>0. PICK n \in 1..MaxRow :
          \E todo \in [1..n -> Function \ {System}] : Ask(b, "load", todo)
    BY <1>2 DEF LoadPage
  <2>1. PICK todo \in [1..n -> Function \ {System}] : Ask(b, "load", todo)
    BY <2>0
  <2>2. n \in Nat /\ n > 0 /\ todo \in [1..n -> Function]
    BY FunctionsAssumption
  <2>3. todo \in Seq(Function) /\ Len(todo) = n
    BY <2>2
  <2>4. todo # <<>>
    BY <2>2, <2>3
  <2> QED BY <2>1, <2>3, <2>4
<1>3. ASSUME RefreshFunction(b) \/ PrintView(b)
      PROVE  \E op \in {"refresh", "print"}, todo \in Seq(Function) :
               todo # <<>> /\ Ask(b, op, todo)
  <2>1. \E op \in {"refresh", "print"}, f \in Function : Ask(b, op, <<f>>)
    BY <1>3, Zenon DEF RefreshFunction, PrintView
  <2>2. \A f \in Function : <<f>> \in Seq(Function) /\ <<f>> # <<>>
    OBVIOUS
  <2> QED BY <2>1, <2>2, Zenon
<1>4. ASSUME SaveFunction(b)
      PROVE  <<System>> \in Seq(Function) /\ <<System>> # <<>> /\ Ask(b, "save", <<System>>)
  BY <1>4, OutputIs DEF SaveFunction
<1>5. /\ "start" \in Op /\ "load" \in Op /\ "save" \in Op
      /\ \A op \in {"refresh", "print"} : op \in Op /\ op # "save"
      /\ "start" # "save" /\ "load" # "save"
  BY DEF Op
<1> QED BY <1>1, <1>2, <1>3, <1>4, <1>5, Zenon DEF Arrives

LEMMA CallInit == FunctionsInit => CallIInv
<1> SUFFICES ASSUME FunctionsInit PROVE CallIInv
  OBVIOUS
<1>1. \A b \in Process : call[b] = NoCall
  BY DEF FunctionsInit
<1>2. CallInv
  BY <1>1, NoCallIs DEF CallInv, Running
<1>3. call \in [Process -> Call]
  BY NoCallIs DEF FunctionsInit
<1>4. body \in [Inode -> Output]
  BY OutputIs DEF FunctionsInit
<1> QED BY <1>2, <1>3, <1>4, FunctionsAssumption DEF FunctionsInit, FunctionsTypeOK, CallIInv

\* Types, and what a process needs where it is, are kept by every step.
LEMMA CallNext == CallIInv /\ [FunctionsNext]_functionsVars => CallIInv'
<1> SUFFICES ASSUME CallIInv, [FunctionsNext]_functionsVars
             PROVE  CallIInv'
  OBVIOUS
<1> USE DEF CallIInv, FunctionsTypeOK
<1>1. ASSUME NEW b \in Process, Arrives(b)
      PROVE  CallIInv'
  <2>1. PICK op \in Op, todo \in Seq(Function) :
          todo # <<>> /\ (op = "save" => todo = <<System>>) /\ Ask(b, op, todo)
    BY <1>1, ArrivesIs
  <2>2. path' = path /\ body' = body
    BY <2>1 DEF Ask
  <2> QED BY <2>1, <2>2, AskIs
<1>2. ASSUME NEW b \in Process, Serve(b)
      PROVE  CallIInv'
  <2>1. CASE CreateFile(b)
    BY <2>1, CreateIs
  <2>2. CASE WriteFirst(b)
    BY <2>2, FirstIs DEF WriteFirst
  <2>3. CASE WriteSecond(b)
    BY <2>3, SecondIs DEF WriteSecond
  <2>4. CASE Open(b)
    BY <2>4, OpenIs DEF Open
  <2>5. CASE Read(b)
    BY <2>5, ReadIs DEF Read
  <2>6. CASE DeleteFile(b)
    BY <2>6, DeleteIs
  <2> QED BY <1>2, <2>1, <2>2, <2>3, <2>4, <2>5, <2>6 DEF Serve
<1>3. CASE UNCHANGED functionsVars
  BY <1>3 DEF functionsVars, CallInv, Command
<1> HIDE DEF CallIInv, FunctionsTypeOK
<1> QED BY <1>1, <1>2, <1>3 DEF FunctionsNext, Arrives

LEMMA CallAlways == FunctionsSpec => []CallIInv
BY CallInit, CallNext, PTL DEF FunctionsSpec

(* Calls and the file keep their types, and the inodes do not run out      *)
(* however many processes there are.                                       *)
THEOREM FunctionsTypes == FunctionsSpec => []FunctionsTypeOK
BY CallAlways, PTL DEF CallIInv
-----------------------------------------------------------------------------
\* While a request is alone the file is its own and holds what its command has written;
\* and a file is gone under a process only after somebody else has deleted it.
AloneInv ==
  \A b \in Process :
    /\ call[b].at \notin {"idle", "create"} /\ path = 0 => call[b].robbed
    /\ call[b].robbed => ~ call[b].alone
    /\ call[b].alone /\ call[b].at # "idle" =>
         /\ Waiting = {b}
         /\ call[b].at \in {"first", "second", "read"} => call[b].fd = path
         /\ call[b].at = "second" => body[path][1] = Command(b)
         /\ call[b].at \in {"open", "read"} => body[path] = OutputOf(Command(b))
         /\ call[b].at = "delete" => call[b].out = OutputOf(call[b].todo[call[b].ran])

LEMMA AloneInit == FunctionsInit => AloneInv
BY NoCallIs DEF FunctionsInit, AloneInv

\* A step of one process that leaves the other calls as they are.
LEMMA AloneStep ==
  ASSUME CallIInv, AloneInv, NEW b \in Process, call[b].at # "idle", Others(b),
         path = 0 => path' = 0,
         path # 0 => path' # 0,
         call'[b].at \notin {"idle", "create"} /\ path' = 0 => call'[b].robbed,
         call'[b].robbed => ~ call'[b].alone,
         call'[b].alone /\ call'[b].at # "idle" => call[b].alone,
         call'[b].alone /\ call'[b].at # "idle" =>
           /\ call'[b].at \in {"first", "second", "read"} => call'[b].fd = path'
           /\ call'[b].at = "second" => body'[path'][1] = Command(b)'
           /\ call'[b].at \in {"open", "read"} => body'[path'] = OutputOf(Command(b)')
           /\ call'[b].at = "delete" => call'[b].out = OutputOf(call'[b].todo[call'[b].ran])
  PROVE  AloneInv'
<1>1. ASSUME NEW c \in Process, c # b
      PROVE  call'[c] = call[c] /\ ~ (call[c].alone /\ call[c].at # "idle")
  <2>1. call'[c] = call[c]
    BY <1>1 DEF Others
  <2>2. b \in Waiting
    BY DEF Waiting
  <2> QED BY <1>1, <2>1, <2>2 DEF AloneInv
<1>2. ASSUME call'[b].alone, call'[b].at # "idle"
      PROVE  Waiting' = {b}
  <2>1. Waiting = {b}
    BY <1>2 DEF AloneInv
  <2> QED BY <1>1, <1>2, <2>1 DEF Waiting
<1>3. ASSUME NEW c \in Process, c # b
      PROVE  /\ call'[c].at \notin {"idle", "create"} /\ path' = 0 => call'[c].robbed
             /\ call'[c].robbed => ~ call'[c].alone
             /\ ~ (call'[c].alone /\ call'[c].at # "idle")
  BY <1>1, <1>3 DEF AloneInv
<1> QED BY <1>2, <1>3 DEF AloneInv

LEMMA AloneArrives ==
  ASSUME CallIInv, AloneInv, NEW b \in Process, Arrives(b)
  PROVE  AloneInv'
<1>1. PICK op \in Op, todo \in Seq(Function) :
        todo # <<>> /\ (op = "save" => todo = <<System>>) /\ Ask(b, op, todo)
  BY ArrivesIs
<1>2. path' = path /\ body' = body
  BY <1>1 DEF Ask
<1>3. /\ call'[b].at = "create" /\ (call'[b].alone => Waiting = {})
      /\ ~ call'[b].robbed
      /\ \A c \in Process : c # b =>
           /\ call'[c].at = call[c].at /\ call'[c].robbed = call[c].robbed
           /\ call[c].at # "idle" => ~ call'[c].alone
  BY <1>1, AskIs
<1>4. ASSUME NEW c \in Process, c # b
      PROVE  /\ call'[c].at \notin {"idle", "create"} /\ path' = 0 => call'[c].robbed
             /\ call'[c].robbed => ~ call'[c].alone
             /\ ~ (call'[c].alone /\ call'[c].at # "idle")
  <2>1. call'[c].robbed => call[c].at # "idle"
    BY <1>3, <1>4 DEF CallIInv, CallInv
  <2> QED BY <1>2, <1>3, <1>4, <2>1 DEF AloneInv
<1>5. call'[b].alone => Waiting' = {b}
  BY <1>3 DEF Waiting
<1> QED BY <1>2, <1>3, <1>4, <1>5 DEF AloneInv

LEMMA AloneServed ==
  ASSUME CallIInv, AloneInv, NEW b \in Process, Serve(b)
  PROVE  AloneInv'
<1>1. CASE CreateFile(b)
  <2>1. /\ Others(b) /\ Keeps(b) /\ call'[b].ran = call[b].ran /\ call'[b].at = "first"
        /\ ~ call'[b].robbed /\ call'[b].fd = path' /\ path' \in Inode
    BY <1>1, CreateIs
  <2>2. path' # 0 /\ call[b].at = "create"
    BY <1>1, <2>1 DEF Inode, CreateFile
  <2>3. ASSUME NEW c \in Process, c # b
        PROVE  call'[c] = call[c] /\ ~ (call[c].alone /\ call[c].at # "idle")
    <3>1. call'[c] = call[c]
      BY <2>1, <2>3 DEF Others
    <3>2. b \in Waiting
      BY <2>2 DEF Waiting
    <3> QED BY <2>3, <3>1, <3>2 DEF AloneInv
  <2>4. ASSUME call'[b].alone
        PROVE  Waiting' = {b}
    <3>1. Waiting = {b}
      BY <2>1, <2>2, <2>4 DEF AloneInv, Keeps
    <3> QED BY <2>1, <2>3, <3>1 DEF Waiting
  <2> QED BY <2>1, <2>2, <2>3, <2>4 DEF AloneInv
<1>2. CASE WriteFirst(b)
  <2>1. /\ Others(b) /\ Keeps(b) /\ call'[b].ran = call[b].ran /\ call'[b].at = "second"
        /\ (call'[b].robbed <=> call[b].robbed) /\ call'[b].fd = call[b].fd
        /\ call[b].fd \in Inode /\ body'[call[b].fd][1] = Command(b)
    BY <1>2, FirstIs
  <2>2. call[b].at = "first" /\ path' = path
    BY <1>2 DEF WriteFirst
  <2>3. Command(b)' = Command(b)
    BY <2>1 DEF Command, Keeps
  <2> QED BY <2>1, <2>2, <2>3, AloneStep DEF AloneInv, Keeps
<1>3. CASE WriteSecond(b)
  <2>1. /\ Others(b) /\ body' \in [Inode -> Output]
        /\ call[b].op # "save" =>
             /\ Keeps(b) /\ call'[b].ran = call[b].ran
             /\ call'[b].at = "open" /\ (call'[b].robbed <=> call[b].robbed)
        /\ call[b].op = "save" => call'[b].at = "idle" /\ ~ call'[b].robbed
        /\ call[b].fd \in Inode
        /\ call[b].fd = path =>
             /\ body'[path][2] = Command(b)
             /\ body'[path][1] = body[path][1]
    BY <1>3, SecondIs
  <2>2. call[b].at = "second" /\ path' = path
    BY <1>3 DEF WriteSecond
  <2>3. call[b].op # "save" => Command(b)' = Command(b)
    BY <2>1 DEF Command, Keeps
  <2>4. ASSUME call'[b].alone, call'[b].at # "idle"
        PROVE  call[b].alone /\ body'[path] = OutputOf(Command(b))
    <3>1. call[b].op # "save" /\ call[b].alone
      BY <2>1, <2>4 DEF Keeps
    <3>2. call[b].fd = path /\ body[path][1] = Command(b)
      BY <2>2, <3>1 DEF AloneInv
    <3>3. Command(b) \in Function
      BY <2>2, CommandIs DEF Running
    <3>4. body'[path] \in Output
      BY <2>1, <3>2
    <3> QED BY <2>1, <3>1, <3>2, <3>3, <3>4, OutputIs
  <2>5. call'[b].robbed => ~ call'[b].alone
    BY <2>1, <2>2 DEF AloneInv, Keeps
  <2>6. call'[b].at \notin {"idle", "create"} /\ path' = 0 => call'[b].robbed
    BY <2>1, <2>2 DEF AloneInv
  <2>7. call'[b].at \in {"idle", "open"}
    BY <2>1
  <2> QED BY <2>1, <2>2, <2>3, <2>4, <2>5, <2>6, <2>7, AloneStep
<1>4. CASE Open(b)
  <2>1. /\ Others(b)
        /\ path # 0 =>
             /\ Keeps(b) /\ call'[b].ran = call[b].ran
             /\ call'[b].at = "read" /\ (call'[b].robbed <=> call[b].robbed)
             /\ call'[b].fd = path
        /\ path = 0 => call'[b].at = "idle" /\ ~ call'[b].robbed /\ call'[b].fd = 0
    BY <1>4, OpenIs
  <2>2. call[b].at = "open" /\ path' = path /\ body' = body
    BY <1>4 DEF Open
  <2>3. path # 0 => Command(b)' = Command(b)
    BY <2>1 DEF Command, Keeps
  <2>4. ASSUME call'[b].alone, call'[b].at # "idle"
        PROVE  call[b].alone /\ body'[path] = OutputOf(Command(b)) /\ path # 0
    BY <2>1, <2>2, <2>4 DEF AloneInv, Keeps
  <2>5. call'[b].robbed => ~ call'[b].alone
    BY <2>1, <2>2 DEF AloneInv, Keeps
  <2>6. call'[b].at \in {"idle", "read"} /\ (path' = 0 => call'[b].at = "idle")
    BY <2>1, <2>2
  <2> QED BY <2>1, <2>2, <2>3, <2>4, <2>5, <2>6, AloneStep
<1>5. CASE Read(b)
  <2>1. /\ Others(b) /\ Keeps(b) /\ call'[b].at = "delete"
        /\ (call'[b].robbed <=> call[b].robbed)
        /\ call'[b].out = body[call[b].fd]
        /\ call'[b].todo[call'[b].ran] = Command(b)
    BY <1>5, ReadIs
  <2>2. call[b].at = "read" /\ path' = path
    BY <1>5 DEF Read
  <2>3. ASSUME call'[b].alone
        PROVE  call[b].alone /\ call'[b].out = OutputOf(Command(b))
    BY <2>1, <2>2, <2>3 DEF AloneInv, Keeps
  <2>4. call'[b].robbed => ~ call'[b].alone
    BY <2>1, <2>2 DEF AloneInv, Keeps
  <2>5. path' = 0 => call'[b].robbed
    BY <2>1, <2>2 DEF AloneInv
  <2> QED BY <2>1, <2>2, <2>3, <2>4, <2>5, AloneStep
<1>6. CASE DeleteFile(b)
  <2>1. /\ path' = 0 /\ call'[b].at \in {"idle", "create"}
        /\ call'[b].robbed => call[b].robbed
        /\ call'[b].at = "create" => Keeps(b)
        /\ \A c \in Process : c # b =>
             /\ call'[c].at = call[c].at
             /\ call'[c].alone <=> call[c].alone
             /\ call'[c].robbed <=> call[c].robbed \/ (path # 0 /\ call[c].at # "idle")
    BY <1>6, DeleteIs
  <2>2. call[b].at = "delete" /\ b \in Waiting
    BY <1>6 DEF DeleteFile, Waiting
  <2>3. ASSUME NEW c \in Process, c # b
        PROVE  /\ call'[c].at \notin {"idle", "create"} => call'[c].robbed
               /\ call'[c].robbed => ~ call'[c].alone
               /\ ~ (call'[c].alone /\ call'[c].at # "idle")
    <3>1. ~ (call[c].alone /\ call[c].at # "idle")
      BY <2>2, <2>3 DEF AloneInv
    <3> QED BY <2>1, <2>3, <3>1 DEF AloneInv
  <2>4. call'[b].robbed => ~ call'[b].alone
    <3>1. CASE call'[b].at = "create"
      BY <2>1, <2>2, <3>1 DEF AloneInv, Keeps
    <3>2. CASE call'[b].at = "idle"
      BY <1>6, <3>2, DeleteIs DEF CallInv
    <3> QED BY <2>1, <3>1, <3>2
  <2>5. ASSUME call'[b].alone, call'[b].at # "idle"
        PROVE  Waiting' = {b}
    <3>1. Waiting = {b}
      BY <2>1, <2>2, <2>5 DEF AloneInv, Keeps
    <3> QED BY <2>1, <2>5, <3>1 DEF Waiting
  <2> QED BY <2>1, <2>3, <2>4, <2>5 DEF AloneInv
<1> QED BY <1>1, <1>2, <1>3, <1>4, <1>5, <1>6 DEF Serve

(* A request that no other one overlaps shows the complete output of its   *)
(* own command, and File.open and File.delete raise only where another     *)
(* request got on, for any number of processes.                            *)
THEOREM AloneShowsItsOwn == FunctionsSpec => []AloneIsOwn
<1>1. CallIInv /\ AloneInv /\ [FunctionsNext]_functionsVars => AloneInv'
  <2> SUFFICES ASSUME CallIInv, AloneInv, [FunctionsNext]_functionsVars
               PROVE  AloneInv'
    OBVIOUS
  <2>1. CASE UNCHANGED functionsVars
    BY <2>1 DEF functionsVars, AloneInv, Waiting, Command
  <2> QED BY <2>1, AloneArrives, AloneServed DEF FunctionsNext, Arrives
<1>2. CallIInv /\ AloneInv => AloneIsOwn
  BY DEF CallIInv, CallInv, AloneInv, AloneIsOwn
<1> QED BY <1>1, <1>2, AloneInit, CallAlways, PTL DEF FunctionsSpec
-----------------------------------------------------------------------------
\* While only save_function runs, each part of the file is a system function's or is about
\* to be written by a command that has just emptied it.
PartLeft(k, places) ==
  body[path][k] = System \/ \E b \in Process : call[b].at \in places /\ call[b].fd = path

OnlySaves == \A b \in Process : call[b].at # "idle" => call[b].op = "save"

LeftInv ==
  path # 0 /\ OnlySaves => PartLeft(1, {"first"}) /\ PartLeft(2, {"first", "second"})

LEMMA LeftInit == FunctionsInit => LeftInv
BY DEF FunctionsInit, LeftInv

LEMMA LeftArrives ==
  ASSUME CallIInv, LeftInv, NEW b \in Process, Arrives(b)
  PROVE  LeftInv'
<1>1. PICK op \in Op, todo \in Seq(Function) :
        todo # <<>> /\ (op = "save" => todo = <<System>>) /\ Ask(b, op, todo)
  BY ArrivesIs
<1>2. path' = path /\ body' = body
  BY <1>1 DEF Ask
<1>3. /\ call[b].at = "idle"
      /\ \A c \in Process : c # b =>
           call'[c].op = call[c].op /\ call'[c].at = call[c].at /\ call'[c].fd = call[c].fd
  BY <1>1, AskIs
<1>4. OnlySaves' => OnlySaves
  BY <1>3 DEF OnlySaves
<1>5. /\ PartLeft(1, {"first"}) => PartLeft(1, {"first"})'
      /\ PartLeft(2, {"first", "second"}) => PartLeft(2, {"first", "second"})'
  BY <1>2, <1>3 DEF PartLeft
<1> QED BY <1>2, <1>4, <1>5 DEF LeftInv

LEMMA LeftServed ==
  ASSUME CallIInv, LeftInv, NEW b \in Process, Serve(b)
  PROVE  LeftInv'
<1> SUFFICES ASSUME path' # 0, OnlySaves'
             PROVE  PartLeft(1, {"first"})' /\ PartLeft(2, {"first", "second"})'
  BY DEF LeftInv
<1>1. CASE CreateFile(b)
  <2>1. call'[b].at = "first" /\ call'[b].fd = path'
    BY <1>1, CreateIs
  <2> QED BY <2>1 DEF PartLeft
<1>2. CASE WriteFirst(b)
  <2>1. /\ Others(b) /\ Keeps(b) /\ call'[b].at = "second" /\ call'[b].fd = call[b].fd
        /\ body'[call[b].fd][1] = Command(b)
        /\ body'[call[b].fd][2] = body[call[b].fd][2]
        /\ \A i \in Inode : i # call[b].fd => body'[i] = body[i]
    BY <1>2, FirstIs
  <2>2. call[b].at = "first" /\ path' = path /\ path \in Inode
    BY <1>2 DEF WriteFirst, CallIInv, FunctionsTypeOK
  <2>3. OnlySaves /\ call[b].op = "save"
    BY <2>1, <2>2 DEF OnlySaves, Others, Keeps
  <2>4. Command(b) = System
    BY <2>2, <2>3, CommandIs DEF Running
  <2>5. PartLeft(1, {"first"})'
    BY <2>1, <2>2, <2>3, <2>4 DEF LeftInv, PartLeft, Others
  <2>6. PartLeft(2, {"first", "second"})'
    BY <2>1, <2>2, <2>3 DEF LeftInv, PartLeft, Others
  <2> QED BY <2>5, <2>6
<1>3. CASE WriteSecond(b)
  <2>1. /\ Others(b)
        /\ call[b].op # "save" => Keeps(b) /\ call'[b].at = "open"
        /\ call[b].fd = path =>
             /\ body'[path][2] = Command(b)
             /\ body'[path][1] = body[path][1]
        /\ \A i \in Inode : i # call[b].fd => body'[i] = body[i]
    BY <1>3, SecondIs
  <2>2. call[b].at = "second" /\ path' = path /\ path \in Inode
    BY <1>3 DEF WriteSecond, CallIInv, FunctionsTypeOK
  <2>3. OnlySaves /\ call[b].op = "save"
    BY <2>1, <2>2 DEF OnlySaves, Others, Keeps
  <2>4. Command(b) = System
    BY <2>2, <2>3, CommandIs DEF Running
  <2>5. PartLeft(1, {"first"})'
    BY <2>1, <2>2, <2>3 DEF LeftInv, PartLeft, Others
  <2>6. PartLeft(2, {"first", "second"})'
    BY <2>1, <2>2, <2>3, <2>4 DEF LeftInv, PartLeft, Others
  <2> QED BY <2>5, <2>6
<1>4. CASE Open(b)
  <2>1. call[b].op # "save" /\ (path # 0 => Keeps(b) /\ call'[b].at = "read")
    BY <1>4, OpenIs
  <2>2. path' = path
    BY <1>4 DEF Open
  <2> QED BY <2>1, <2>2 DEF OnlySaves, Keeps
<1>5. CASE Read(b)
  <2>1. call[b].op # "save" /\ Keeps(b) /\ call'[b].at = "delete"
    BY <1>5, ReadIs
  <2> QED BY <2>1 DEF OnlySaves, Keeps
<1>6. CASE DeleteFile(b)
  BY <1>6 DEF DeleteFile
<1> QED BY <1>1, <1>2, <1>3, <1>4, <1>5, <1>6 DEF Serve

(* When no request is under way function.html is gone, or holds what       *)
(* save_function left of a system function, in full.                       *)
THEOREM NothingStays == FunctionsSpec => []NothingIsLeft
<1>1. CallIInv /\ LeftInv /\ [FunctionsNext]_functionsVars => LeftInv'
  <2> SUFFICES ASSUME CallIInv, LeftInv, [FunctionsNext]_functionsVars
               PROVE  LeftInv'
    OBVIOUS
  <2>1. CASE UNCHANGED functionsVars
    BY <2>1 DEF functionsVars, LeftInv, OnlySaves, PartLeft
  <2> QED BY <2>1, LeftArrives, LeftServed DEF FunctionsNext, Arrives
<1>2. CallIInv /\ LeftInv => NothingIsLeft
  <2> SUFFICES ASSUME CallIInv, LeftInv, Waiting = {}, path # 0
               PROVE  body[path] = OutputOf(System)
    BY DEF NothingIsLeft
  <2>1. \A b \in Process : call[b].at = "idle"
    BY DEF Waiting
  <2>2. body[path][1] = System /\ body[path][2] = System
    BY <2>1 DEF LeftInv, OnlySaves, PartLeft
  <2>3. body[path] \in Output
    BY DEF CallIInv, FunctionsTypeOK
  <2> QED BY <2>2, <2>3, OutputIs
<1> QED BY <1>1, <1>2, LeftInit, CallAlways, PTL DEF FunctionsSpec
-----------------------------------------------------------------------------
(* The panels of the overview page *)

\* What the table, the histories and the deletes under way know of an id.
RowInv ==
  /\ \A r \in rows : /\ r.id < nextRow /\ r.id \notin served
                     /\ \A s \in rows : s.id = r.id => s = r
  /\ \A i \in served : i < nextRow
  /\ \A b \in Browsers : \A i \in closed[b] : i < nextRow
  /\ \A d \in deletes : d.id < nextRow /\ \A r \in rows : r.id = d.id => r.user = d.user

\* What a page shows of the user's rows: nothing that was closed, and no row twice.
PageInv ==
  \A b \in Browsers : \A s \in page[b] :
    /\ account[b] # Nobody /\ s.id < nextRow /\ s.id \notin closed[b]
    /\ \A r \in rows : r.id = s.id => r.user = account[b]
    /\ \A t \in page[b] : t.id = s.id /\ s.id # 0 => t = s

\* The same of the panels an answer is about to bring.
AskInv ==
  \A p \in Process : asked[p].at # "idle" =>
    /\ asked[p].browser # Nobody => account[asked[p].browser] = asked[p].user
    /\ \A s \in asked[p].shows :
         /\ s.id < nextRow
         /\ (asked[p].op = "load" /\ asked[p].at = "run") \/ s.id = 0
         /\ asked[p].browser # Nobody => s.id \notin closed[asked[p].browser]
         /\ \A r \in rows : r.id = s.id => r.user = asked[p].user
         /\ \A t \in asked[p].shows : t.id = s.id /\ s.id # 0 => t = s

WaitsForLoad(b, p) ==
  asked[p].at # "idle" /\ asked[p].op = "load" /\ asked[p].browser = b

\* A page waits for one load at most, which is what brings it its panels with an id.
LoadInv ==
  \A b \in Browsers : \A p \in Process : WaitsForLoad(b, p) =>
    /\ \A s \in page[b] : s.id = 0
    /\ \A q \in Process : WaitsForLoad(b, q) => q = p

PanelsIInv == PanelsTypeOK /\ RowInv /\ PageInv /\ AskInv /\ LoadInv

\* What the changes of a request are made of.
LEMMA RequestIs ==
  /\ NoRequest.at = "idle"
  /\ \A r \in PageRequest : r.at # "idle" /\ r # NoRequest
  /\ Nobody \notin Browsers /\ Nobody \notin User /\ 0 \notin RowId /\ RowId \subseteq Nat
BY FunctionsAssumption, PanelsAssumption DEF NoRequest, PageRequest, RowId

LEMMA PanelsStart == PanelsInit => PanelsIInv
<1> SUFFICES ASSUME PanelsInit PROVE PanelsIInv
  OBVIOUS
<1>1. \A p \in Process : asked[p].at = "idle"
  BY RequestIs DEF PanelsInit
<1>2. PanelsTypeOK
  BY FunctionsAssumption DEF PanelsInit, PanelsTypeOK
<1>3. RowInv /\ PageInv
  BY DEF PanelsInit, RowInv, PageInv
<1>4. AskInv /\ LoadInv
  BY <1>1 DEF AskInv, LoadInv, WaitsForLoad
<1> QED BY <1>2, <1>3, <1>4 DEF PanelsIInv

\* A new request, which does not bring any row yet.
NewRequest(b, p, op, at, shows) ==
  /\ asked' \in [Process -> PageRequest \cup {NoRequest}]
  /\ asked[p].at = "idle"
  /\ asked'[p].at = at /\ asked'[p].op = op /\ asked'[p].browser = b
  /\ asked'[p].user = account[b] /\ asked'[p].shows = shows
  /\ \A q \in Process : q # p => asked'[q] = asked[q]

LEMMA AskForIs ==
  ASSUME PanelsIInv, NEW b \in Browsers, NEW op \in {"start", "load", "refresh"},
         NEW at \in {"table", "run"}, NEW shows \in SUBSET Panel,
         AskFor(b, op, at, shows)
  PROVE  /\ account[b] \in User
         /\ \E p \in Process : NewRequest(b, p, op, at, shows)
<1>1. asked \in [Process -> PageRequest \cup {NoRequest}] /\ account[b] \in User
  BY DEF PanelsIInv, PanelsTypeOK, AskFor
<1>2. PICK r : r = [at |-> at, op |-> op, browser |-> b, user |-> account[b], shows |-> shows]
  OBVIOUS
<1>3. r \in PageRequest
  BY <1>1, <1>2 DEF PageRequest
<1>4. PICK p \in Process : asked[p] = NoRequest /\ asked' = [asked EXCEPT ![p] = r]
  BY <1>2 DEF AskFor
<1>5. asked'[p] = r
  BY <1>1, <1>4
<1> QED BY <1>1, <1>2, <1>3, <1>4, <1>5, RequestIs DEF NewRequest

LEMMA NewRequestKeeps ==
  ASSUME PanelsIInv, NEW b \in Browsers, NEW op \in {"start", "refresh"},
         NEW at \in {"table", "run"}, NEW shows \in SUBSET Panel,
         AskFor(b, op, at, shows), \A s \in shows : s.id = 0,
         UNCHANGED <<rows, nextRow, account, page, deletes, closed, served, abandoned, late>>
  PROVE  PanelsIInv'
<1>1. PICK p \in Process : account[b] \in User /\ NewRequest(b, p, op, at, shows)
  BY AskForIs
<1>2. PanelsTypeOK'
  BY <1>1 DEF NewRequest, PanelsIInv, PanelsTypeOK
<1>3. RowInv' /\ PageInv'
  BY DEF PanelsIInv, RowInv, PageInv
<1>4. AskInv'
  <2>1. closed[b] \subseteq RowId /\ rows \subseteq Row /\ nextRow > 0
    BY FunctionsAssumption DEF PanelsIInv, PanelsTypeOK
  <2>2. \A r \in rows : r.id # 0
    BY <2>1, RequestIs DEF Row
  <2>3. ASSUME NEW s \in shows
        PROVE  /\ s.id < nextRow /\ s.id = 0 /\ s.id \notin closed[b]
               /\ \A r \in rows : r.id # s.id
    BY <2>1, <2>2, RequestIs
  <2>4. CASE \A q \in Process : q # p => asked'[q] = asked[q]
    <3> SUFFICES ASSUME NEW q \in Process, asked'[q].at # "idle"
                 PROVE  (asked[q].at # "idle" /\ asked'[q] = asked[q]) \/ q = p
      BY <1>1, <2>3 DEF NewRequest, PanelsIInv, AskInv
    <3> QED BY <2>4
  <2> QED BY <1>1, <2>4 DEF NewRequest
<1>5. LoadInv'
  <2>1. \A c \in Browsers, q \in Process : WaitsForLoad(c, q)' => WaitsForLoad(c, q)
    BY <1>1 DEF NewRequest, WaitsForLoad
  <2> QED BY <2>1 DEF PanelsIInv, LoadInv
<1> QED BY <1>2, <1>3, <1>4, <1>5 DEF PanelsIInv

LEMMA CloseKeeps ==
  ASSUME PanelsIInv, NEW b \in Browsers, NEW panel \in page[b], Close(b, panel)
  PROVE  PanelsIInv'
<1> DEFINE named == {q \in page[b] : SameName(q, panel)}
<1>1. /\ page \in [Browsers -> SUBSET Panel] /\ closed \in [Browsers -> SUBSET RowId]
      /\ rows \subseteq Row /\ deletes \subseteq [id : RowId, user : User]
      /\ account[b] \in User
  BY DEF PanelsIInv, PanelsTypeOK, PageInv
<1>2. PICK first \in named :
        IF first.id = 0 THEN UNCHANGED <<deletes, closed>>
        ELSE /\ deletes' = deletes \cup {[id |-> first.id, user |-> account[b]]}
             /\ closed' = [closed EXCEPT ![b] = @ \cup {first.id}]
  BY DEF Close
<1>3. /\ page' = [page EXCEPT ![b] = page[b] \ named]
      /\ UNCHANGED <<rows, nextRow, account, asked, served, abandoned, late>>
  BY <1>1 DEF Close
<1>4. /\ first \in page[b] /\ first \in named /\ first \in Panel
      /\ first.id \in RowId \cup {0} /\ first.id < nextRow
      /\ \A r \in rows : r.id = first.id => r.user = account[b]
  BY <1>1, <1>2 DEF PanelsIInv, PageInv, Panel
<1>5. /\ page' \in [Browsers -> SUBSET Panel] /\ page'[b] = page[b] \ named
      /\ \A c \in Browsers : c # b => page'[c] = page[c]
  BY <1>1, <1>3
<1>6. /\ closed' \in [Browsers -> SUBSET RowId]
      /\ closed'[b] \subseteq closed[b] \cup {first.id}
      /\ first.id = 0 => closed' = closed /\ deletes' = deletes
      /\ \A c \in Browsers : c # b => closed'[c] = closed[c]
      /\ \A d \in deletes' : d \in deletes \/ d = [id |-> first.id, user |-> account[b]]
      /\ deletes' \subseteq [id : RowId, user : User]
  <2>1. CASE first.id = 0
    BY <1>1, <1>2, <2>1
  <2>2. CASE first.id # 0
    BY <1>1, <1>2, <1>4, <2>2
  <2> QED BY <2>1, <2>2
<1> HIDE DEF named
<1>7. PanelsTypeOK'
  BY <1>3, <1>5, <1>6 DEF PanelsIInv, PanelsTypeOK
<1>8. RowInv'
  BY <1>3, <1>4, <1>6 DEF PanelsIInv, RowInv
<1>9. PageInv'
  <2>1. \A s \in page'[b] : s \in page[b] /\ (s.id = first.id => s.id = 0)
    BY <1>4, <1>5 DEF PanelsIInv, PageInv
  <2>2. \A s \in page'[b] : s.id \notin closed'[b]
    BY <1>6, <2>1 DEF PanelsIInv, PageInv
  <2> QED BY <1>3, <1>5, <1>6, <2>1, <2>2 DEF PanelsIInv, PageInv
<1>10. AskInv'
  <2> SUFFICES ASSUME NEW p \in Process, asked[p].at # "idle", asked[p].browser = b,
                      NEW s \in asked[p].shows, s.id = first.id, first.id # 0
               PROVE  FALSE
    <3>1. ASSUME NEW p \in Process, asked[p].at # "idle", asked[p].browser # Nobody,
                 NEW s \in asked[p].shows
          PROVE  s.id \notin closed'[asked[p].browser]
      <4>1. s.id \notin closed[asked[p].browser] /\ asked[p].browser \in Browsers
        BY <3>1 DEF PanelsIInv, AskInv, PanelsTypeOK, PageRequest, NoRequest
      <4> QED BY <1>6, <3>1, <4>1
    <3> QED BY <1>3, <3>1 DEF PanelsIInv, AskInv
  <2>1. WaitsForLoad(b, p)
    BY DEF PanelsIInv, AskInv, WaitsForLoad
  <2> QED BY <1>4, <2>1 DEF PanelsIInv, LoadInv
<1>11. LoadInv'
  <2>1. \A c \in Browsers : page'[c] \subseteq page[c]
    BY <1>5
  <2> QED BY <1>3, <2>1 DEF PanelsIInv, LoadInv, WaitsForLoad
<1> QED BY <1>7, <1>8, <1>9, <1>10, <1>11 DEF PanelsIInv

\* Requests nobody waits for any more.
Dropped(b) ==
  /\ asked' \in [Process -> PageRequest \cup {NoRequest}]
  /\ \A p \in Process :
       /\ asked'[p].at = asked[p].at
       /\ asked[p].at # "idle" =>
            /\ asked'[p].op = asked[p].op /\ asked'[p].user = asked[p].user
            /\ asked'[p].shows = asked[p].shows
            /\ asked'[p].browser # b
            /\ asked'[p].browser \in {asked[p].browser, Nobody}

LEMMA DropIs ==
  ASSUME PanelsTypeOK, NEW b \in Browsers
  PROVE  \A a : a = DropAnswers(b) =>
           /\ a \in [Process -> PageRequest \cup {NoRequest}]
           /\ \A p \in Process :
                /\ a[p].at = asked[p].at
                /\ asked[p].at # "idle" =>
                     /\ a[p].op = asked[p].op /\ a[p].user = asked[p].user
                     /\ a[p].shows = asked[p].shows
                     /\ a[p].browser # b
                     /\ a[p].browser \in {asked[p].browser, Nobody}
<1> SUFFICES ASSUME NEW a, a = DropAnswers(b), NEW p \in Process
             PROVE  /\ a[p] \in PageRequest \cup {NoRequest}
                    /\ a[p].at = asked[p].at
                    /\ asked[p].at # "idle" =>
                         /\ a[p].op = asked[p].op /\ a[p].user = asked[p].user
                         /\ a[p].shows = asked[p].shows
                         /\ a[p].browser # b
                         /\ a[p].browser \in {asked[p].browser, Nobody}
  BY DEF DropAnswers
<1>1. PICK r : r = asked[p]
  OBVIOUS
<1>2. r \in PageRequest \cup {NoRequest}
  BY <1>1 DEF PanelsTypeOK
<1>3. CASE r # NoRequest /\ r.browser = b
  <2>1. a[p] = [r EXCEPT !.browser = Nobody] /\ r \in PageRequest
    BY <1>1, <1>2, <1>3 DEF DropAnswers
  <2>2. PICK t : t = [r EXCEPT !.browser = Nobody]
    OBVIOUS
  <2>3. /\ t \in PageRequest /\ t.at = r.at /\ t.op = r.op /\ t.user = r.user
        /\ t.shows = r.shows /\ t.browser = Nobody
    BY <2>1, <2>2 DEF PageRequest
  <2> QED BY <1>1, <2>1, <2>2, <2>3, RequestIs
<1>4. CASE ~ (r # NoRequest /\ r.browser = b)
  <2>1. a[p] = r
    BY <1>1, <1>4 DEF DropAnswers
  <2>2. r.at # "idle" => r # NoRequest
    BY RequestIs
  <2> QED BY <1>1, <1>2, <1>4, <2>1, <2>2
<1> QED BY <1>3, <1>4

\* A page that is left, by whatever becomes of the session.
LEMMA LeavingKeeps ==
  ASSUME PanelsIInv, NEW b \in Browsers, NEW u \in User \cup {Nobody},
         Navigate(b), asked' = DropAnswers(b), account' = [account EXCEPT ![b] = u],
         rows' \subseteq rows, abandoned' \subseteq User
  PROVE  PanelsIInv'
<1>1. Dropped(b)
  BY DropIs DEF Dropped, PanelsIInv
<1>2. /\ page' \in [Browsers -> SUBSET Panel] /\ page'[b] = {}
      /\ \A c \in Browsers : c # b => page'[c] = page[c] /\ account'[c] = account[c]
      /\ account' \in [Browsers -> User \cup {Nobody}]
      /\ UNCHANGED <<nextRow, deletes, closed, served, late>>
  BY DEF Navigate, PanelsIInv, PanelsTypeOK
<1>3. PanelsTypeOK'
  BY <1>1, <1>2 DEF Dropped, PanelsIInv, PanelsTypeOK
<1>4. RowInv'
  BY <1>2 DEF PanelsIInv, RowInv
<1>5. PageInv'
  BY <1>2 DEF PanelsIInv, PageInv
<1>6. AskInv'
  <2> SUFFICES ASSUME NEW p \in Process, asked'[p].at # "idle"
               PROVE  /\ asked'[p].browser # Nobody => account'[asked'[p].browser] = asked'[p].user
                      /\ \A s \in asked'[p].shows :
                           /\ s.id < nextRow'
                           /\ (asked'[p].op = "load" /\ asked'[p].at = "run") \/ s.id = 0
                           /\ asked'[p].browser # Nobody => s.id \notin closed'[asked'[p].browser]
                           /\ \A r \in rows' : r.id = s.id => r.user = asked'[p].user
                           /\ \A t \in asked'[p].shows : t.id = s.id /\ s.id # 0 => t = s
    BY DEF AskInv
  <2>1. /\ asked[p].at # "idle" /\ asked'[p].at = asked[p].at
        /\ asked'[p].op = asked[p].op /\ asked'[p].user = asked[p].user
        /\ asked'[p].shows = asked[p].shows
        /\ asked'[p].browser # Nobody =>
             asked'[p].browser = asked[p].browser /\ asked[p].browser # b
    BY <1>1 DEF Dropped
  <2>2. asked[p].browser \in Browsers \cup {Nobody}
    BY <2>1, RequestIs DEF PanelsIInv, PanelsTypeOK, PageRequest
  <2> QED BY <1>2, <2>1, <2>2 DEF PanelsIInv, AskInv
<1>7. LoadInv'
  <2>1. \A c \in Browsers, p \in Process :
          WaitsForLoad(c, p)' => WaitsForLoad(c, p) /\ c # b
    BY <1>1, RequestIs DEF Dropped, WaitsForLoad
  <2> QED BY <1>2, <2>1 DEF PanelsIInv, LoadInv
<1> QED BY <1>3, <1>4, <1>5, <1>6, <1>7 DEF PanelsIInv

LEMMA LoadKeeps ==
  ASSUME PanelsIInv, NEW b \in Browsers, NEW p \in Process, Load(b, p)
  PROVE  PanelsIInv'
<1>1. PICK a : a = DropAnswers(b)
  OBVIOUS
<1>2. /\ a \in [Process -> PageRequest \cup {NoRequest}]
      /\ \A q \in Process :
           /\ a[q].at = asked[q].at
           /\ asked[q].at # "idle" =>
                /\ a[q].op = asked[q].op /\ a[q].user = asked[q].user
                /\ a[q].shows = asked[q].shows
                /\ a[q].browser # b
                /\ a[q].browser \in {asked[q].browser, Nobody}
  BY <1>1, DropIs DEF PanelsIInv
<1>3. PICK new : new = [at |-> "table", op |-> "load", browser |-> b, user |-> account[b],
                        shows |-> {}]
  OBVIOUS
<1>4. /\ new \in PageRequest /\ new.at = "table" /\ new.op = "load" /\ new.browser = b
      /\ new.user = account[b] /\ new.shows = {}
  BY <1>3 DEF Load, PageRequest, PanelsIInv, PanelsTypeOK
<1>5. /\ asked' = [a EXCEPT ![p] = new]
      /\ UNCHANGED <<rows, nextRow, account, deletes, closed, served, abandoned, late>>
      /\ page' \in [Browsers -> SUBSET Panel] /\ page'[b] = {}
      /\ \A c \in Browsers : c # b => page'[c] = page[c]
  BY <1>1, <1>3 DEF Load, Navigate, PanelsIInv, PanelsTypeOK
<1>6. /\ asked' \in [Process -> PageRequest \cup {NoRequest}] /\ asked'[p] = new
      /\ \A q \in Process : q # p => asked'[q] = a[q]
  BY <1>2, <1>4, <1>5
<1>7. PanelsTypeOK'
  BY <1>5, <1>6 DEF PanelsIInv, PanelsTypeOK
<1>8. RowInv' /\ PageInv'
  BY <1>5 DEF PanelsIInv, RowInv, PageInv
<1>9. AskInv'
  <2> SUFFICES ASSUME NEW q \in Process, asked'[q].at # "idle"
               PROVE  /\ asked'[q].browser # Nobody => account'[asked'[q].browser] = asked'[q].user
                      /\ \A s \in asked'[q].shows :
                           /\ s.id < nextRow'
                           /\ (asked'[q].op = "load" /\ asked'[q].at = "run") \/ s.id = 0
                           /\ asked'[q].browser # Nobody => s.id \notin closed'[asked'[q].browser]
                           /\ \A r \in rows' : r.id = s.id => r.user = asked'[q].user
                           /\ \A t \in asked'[q].shows : t.id = s.id /\ s.id # 0 => t = s
    BY DEF AskInv
  <2>1. CASE q = p
    BY <1>4, <1>5, <1>6, <2>1
  <2>2. CASE q # p
    <3>1. /\ asked[q].at # "idle" /\ asked'[q].at = asked[q].at
          /\ asked'[q].op = asked[q].op /\ asked'[q].user = asked[q].user
          /\ asked'[q].shows = asked[q].shows
          /\ asked'[q].browser # Nobody =>
               asked'[q].browser = asked[q].browser /\ asked[q].browser # b
      BY <1>2, <1>6, <2>2
    <3> QED BY <1>5, <3>1 DEF PanelsIInv, AskInv
  <2> QED BY <2>1, <2>2
<1>10. LoadInv'
  <2>1. \A c \in Browsers, q \in Process :
          WaitsForLoad(c, q)' => (c = b /\ q = p) \/ (c # b /\ WaitsForLoad(c, q))
    BY <1>2, <1>4, <1>6, RequestIs DEF WaitsForLoad
  <2> QED BY <1>5, <2>1 DEF PanelsIInv, LoadInv
<1> QED BY <1>7, <1>8, <1>9, <1>10 DEF PanelsIInv

\* A request that goes on, for the same browser and the same user.
GoesOn(p, shows) ==
  /\ asked' \in [Process -> PageRequest \cup {NoRequest}]
  /\ asked[p].at = "table" /\ asked'[p].at = "run"
  /\ asked'[p].op = asked[p].op /\ asked'[p].browser = asked[p].browser
  /\ asked'[p].user = asked[p].user /\ asked'[p].shows = shows
  /\ \A q \in Process : q # p => asked'[q] = asked[q]

LEMMA GoesOnIs ==
  ASSUME PanelsTypeOK, NEW p \in Process, NEW shows \in SUBSET Panel, asked[p].at = "table",
         asked' = [asked EXCEPT ![p] = [asked[p] EXCEPT !.at = "run", !.shows = shows]]
  PROVE  GoesOn(p, shows) /\ asked[p] \in PageRequest
<1>1. PICK r : r = asked[p]
  OBVIOUS
<1>2. r \in PageRequest /\ asked \in [Process -> PageRequest \cup {NoRequest}]
  BY <1>1, RequestIs DEF PanelsTypeOK
<1>3. PICK t : t = [r EXCEPT !.at = "run", !.shows = shows]
  OBVIOUS
<1>4. /\ t \in PageRequest /\ t.at = "run" /\ t.op = r.op /\ t.browser = r.browser
      /\ t.user = r.user /\ t.shows = shows
  BY <1>2, <1>3 DEF PageRequest
<1>5. asked' = [asked EXCEPT ![p] = t]
  BY <1>1, <1>3
<1> QED BY <1>1, <1>2, <1>4, <1>5 DEF GoesOn

LEMMA SaveRowKeeps ==
  ASSUME PanelsIInv, NEW p \in Process, SaveRow(p)
  PROVE  PanelsIInv'
<1>1. /\ asked[p].at = "table" /\ asked[p].op = "start" /\ nextRow <= MaxRow
      /\ asked' = [asked EXCEPT ![p].at = "run"] /\ nextRow' = nextRow + 1
      /\ late' = IF LoggedInAs(asked[p].user) THEN late ELSE late \cup {nextRow}
      /\ UNCHANGED <<account, page, deletes, closed, served, abandoned>>
  BY DEF SaveRow
<1>2. PICK shows : shows = asked[p].shows
  OBVIOUS
<1>3. asked[p] \in PageRequest /\ shows \subseteq Panel
  BY <1>1, <1>2, RequestIs DEF PanelsIInv, PanelsTypeOK, PageRequest
<1>4. GoesOn(p, shows)
  <2>1. [asked[p] EXCEPT !.at = "run"] = [asked[p] EXCEPT !.at = "run", !.shows = shows]
    BY <1>2, <1>3 DEF PageRequest
  <2>2. asked' = [asked EXCEPT ![p] = [asked[p] EXCEPT !.at = "run"]]
    BY <1>1 DEF PanelsIInv, PanelsTypeOK
  <2> QED BY <1>1, <1>3, <2>1, <2>2, GoesOnIs DEF PanelsIInv
<1>5. PICK new \in Row : new.id = nextRow /\ new.user = asked[p].user /\ rows' = rows \cup {new}
  <2>1. PICK panel \in shows :
          rows' = rows \cup {[id |-> nextRow, user |-> asked[p].user, fn |-> panel.fn]}
    BY <1>2 DEF SaveRow
  <2>2. PICK new : new = [id |-> nextRow, user |-> asked[p].user, fn |-> panel.fn]
    OBVIOUS
  <2>3. nextRow \in RowId /\ panel.fn \in Saved /\ asked[p].user \in User
    BY <1>1, <1>3, FunctionsAssumption DEF PanelsIInv, PanelsTypeOK, RowId, Panel, PageRequest
  <2> QED BY <2>1, <2>2, <2>3 DEF Row
<1>6. nextRow \in RowId /\ nextRow' \in 1..(MaxRow + 1) /\ nextRow' \in Nat /\ nextRow \in Nat
  BY <1>1, FunctionsAssumption DEF PanelsIInv, PanelsTypeOK, RowId
<1>7. /\ \A s \in Panel : s.id \in Nat
      /\ \A r \in rows : r.id \in Nat
      /\ \A d \in deletes : d.id \in Nat
      /\ \A i \in served : i \in Nat
      /\ \A c \in Browsers : \A i \in closed[c] : i \in Nat
  <2>1. RowId \subseteq Nat
    BY RequestIs
  <2>2. ASSUME NEW s \in Panel PROVE s.id \in Nat
    <3>1. s.id \in RowId \cup {0}
      BY DEF Panel
    <3> QED BY <3>1, FunctionsAssumption DEF RowId
  <2>3. \A r \in rows : r.id \in Nat
    BY <2>1 DEF PanelsIInv, PanelsTypeOK, Row
  <2>4. \A d \in deletes : d.id \in Nat
    BY <2>1 DEF PanelsIInv, PanelsTypeOK
  <2>5. /\ \A i \in served : i \in Nat
        /\ \A c \in Browsers : \A i \in closed[c] : i \in Nat
    BY <2>1 DEF PanelsIInv, PanelsTypeOK
  <2> QED BY <2>2, <2>3, <2>4, <2>5
<1>8. PanelsTypeOK'
  BY <1>1, <1>4, <1>5, <1>6 DEF GoesOn, PanelsIInv, PanelsTypeOK
<1>9. RowInv'
  <2>1. \A i \in Nat : i < nextRow => i < nextRow' /\ i # nextRow
    BY <1>1, <1>6
  <2>2. nextRow < nextRow'
    BY <1>1, <1>6
  <2> QED BY <1>1, <1>5, <1>6, <1>7, <2>1, <2>2 DEF PanelsIInv, RowInv
<1>10. \A i \in Nat : i < nextRow => i < nextRow' /\ i # new.id
  BY <1>1, <1>5, <1>6
<1>11. PageInv'
  <2>1. \A c \in Browsers : \A s \in page[c] : s.id \in Nat
    BY <1>7 DEF PanelsIInv, PanelsTypeOK
  <2> QED BY <1>1, <1>5, <1>10, <2>1 DEF PanelsIInv, PageInv
<1>12. AskInv'
  <2>1. \A q \in Process : asked[q].at # "idle" => \A s \in asked[q].shows : s.id \in Nat
    BY <1>7, RequestIs DEF PanelsIInv, PanelsTypeOK, PageRequest
  <2>2. ASSUME NEW q \in Process, asked'[q].at # "idle"
        PROVE  /\ asked[q].at # "idle" /\ asked'[q].op = asked[q].op
               /\ asked'[q].browser = asked[q].browser /\ asked'[q].user = asked[q].user
               /\ asked'[q].shows = asked[q].shows
               /\ asked[q].at = "run" => asked'[q].at = "run"
    BY <1>2, <1>4, <2>2 DEF GoesOn
  <2> QED BY <1>1, <1>5, <1>10, <2>1, <2>2 DEF PanelsIInv, AskInv
<1>13. LoadInv'
  <2>1. \A c \in Browsers, q \in Process : WaitsForLoad(c, q)' => WaitsForLoad(c, q)
    BY <1>4 DEF GoesOn, WaitsForLoad
  <2> QED BY <1>1, <2>1 DEF PanelsIInv, LoadInv
<1> QED BY <1>8, <1>9, <1>11, <1>12, <1>13 DEF PanelsIInv

LEMMA ReadRowsKeeps ==
  ASSUME PanelsIInv, NEW p \in Process, ReadRows(p)
  PROVE  PanelsIInv'
<1>1. PICK mine : mine = RowsOf(asked[p].user)
  OBVIOUS
<1>2. PICK shows : shows = {PanelOf(r) : r \in mine}
  OBVIOUS
<1>3. /\ asked[p].at = "table" /\ asked[p].op = "load"
      /\ asked' = [asked EXCEPT ![p].at = "run", ![p].shows = shows]
      /\ closed' = [c \in Browsers |-> IF asked[p].browser = c
                                       THEN closed[c] \ (Ids(mine) \ served) ELSE closed[c]]
      /\ UNCHANGED <<rows, nextRow, account, page, deletes, served, abandoned, late>>
  BY <1>1, <1>2 DEF ReadRows
<1>4. mine \subseteq rows /\ \A r \in mine : r.user = asked[p].user
  BY <1>1 DEF RowsOf
<1>5. \A s \in shows : \E r \in mine : s = PanelOf(r) /\ s.id = r.id /\ s \in Panel
  <2> SUFFICES ASSUME NEW r \in mine
               PROVE  PanelOf(r).id = r.id /\ PanelOf(r) \in Panel
    BY <1>2
  <2>1. r \in Row
    BY <1>4 DEF PanelsIInv, PanelsTypeOK
  <2> QED BY <2>1 DEF PanelOf, Row, Panel, Kind
<1>6. GoesOn(p, shows)
  <2>1. asked' = [asked EXCEPT ![p] = [asked[p] EXCEPT !.at = "run", !.shows = shows]]
    BY <1>3 DEF PanelsIInv, PanelsTypeOK
  <2> QED BY <1>3, <1>5, <2>1, GoesOnIs DEF PanelsIInv
<1>7. /\ closed' \in [Browsers -> SUBSET RowId]
      /\ \A c \in Browsers : closed'[c] \subseteq closed[c]
      /\ asked[p].browser \in Browsers =>
           \A r \in mine : r.id \in served \/ r.id \notin closed'[asked[p].browser]
  BY <1>3 DEF Ids, PanelsIInv, PanelsTypeOK
<1>8. PanelsTypeOK'
  BY <1>3, <1>6, <1>7 DEF GoesOn, PanelsIInv, PanelsTypeOK
<1>9. RowInv' /\ PageInv'
  BY <1>3, <1>7 DEF PanelsIInv, RowInv, PageInv
<1>10. AskInv'
  <2>1. ASSUME NEW q \in Process, asked'[q].at # "idle"
        PROVE  /\ asked[q].at # "idle" /\ asked'[q].op = asked[q].op
               /\ asked'[q].browser = asked[q].browser /\ asked'[q].user = asked[q].user
               /\ asked[q].browser \in Browsers \cup {Nobody}
               /\ q # p => asked'[q] = asked[q]
               /\ q = p => asked'[q].shows = shows /\ asked'[q].at = "run"
    <3>1. asked[q].at # "idle"
      BY <1>6, <2>1 DEF GoesOn
    <3>2. asked[q].browser \in Browsers \cup {Nobody}
      BY <3>1, RequestIs DEF PanelsIInv, PanelsTypeOK, PageRequest
    <3> QED BY <1>6, <2>1, <3>1, <3>2 DEF GoesOn
  <2>2. ASSUME NEW s \in shows
        PROVE  /\ s.id < nextRow
               /\ asked[p].browser \in Browsers => s.id \notin closed'[asked[p].browser]
               /\ \A r \in rows : r.id = s.id => r.user = asked[p].user
               /\ \A t \in shows : t.id = s.id => t = s
    <3>1. PICK r \in mine : s = PanelOf(r) /\ s.id = r.id
      BY <1>5
    <3>2. r \in rows /\ r.id < nextRow /\ r.id \notin served
      BY <1>4 DEF PanelsIInv, RowInv
    <3>3. \A x \in rows : x.id = s.id => x = r
      BY <3>1, <3>2 DEF PanelsIInv, RowInv
    <3>4. \A t \in shows : t.id = s.id => t = s
      BY <1>4, <1>5, <3>1, <3>3
    <3> QED BY <1>4, <1>7, <3>1, <3>2, <3>3, <3>4
  <2>3. ASSUME NEW q \in Process, asked'[q].at # "idle", q # p
        PROVE  /\ asked[q].browser # Nobody => account[asked[q].browser] = asked[q].user
               /\ \A s \in asked[q].shows :
                    /\ s.id < nextRow
                    /\ (asked[q].op = "load" /\ asked[q].at = "run") \/ s.id = 0
                    /\ asked[q].browser # Nobody => s.id \notin closed'[asked[q].browser]
                    /\ \A r \in rows : r.id = s.id => r.user = asked[q].user
                    /\ \A t \in asked[q].shows : t.id = s.id /\ s.id # 0 => t = s
    BY <1>7, <2>1, <2>3 DEF PanelsIInv, AskInv
  <2>4. asked[p].browser # Nobody => account[asked[p].browser] = asked[p].user
    BY <1>3 DEF PanelsIInv, AskInv
  <2> SUFFICES ASSUME NEW q \in Process, asked'[q].at # "idle"
               PROVE  /\ asked'[q].browser # Nobody => account[asked'[q].browser] = asked'[q].user
                      /\ \A s \in asked'[q].shows :
                           /\ s.id < nextRow
                           /\ (asked'[q].op = "load" /\ asked'[q].at = "run") \/ s.id = 0
                           /\ asked'[q].browser # Nobody => s.id \notin closed'[asked'[q].browser]
                           /\ \A r \in rows : r.id = s.id => r.user = asked'[q].user
                           /\ \A t \in asked'[q].shows : t.id = s.id /\ s.id # 0 => t = s
    <3>1. account' = account /\ rows' = rows /\ nextRow' = nextRow
      BY <1>3
    <3> QED BY <3>1 DEF AskInv
  <2>5. CASE q = p
    <3>1. /\ asked'[q].op = "load" /\ asked'[q].at = "run" /\ asked'[q].shows = shows
          /\ asked'[q].browser = asked[p].browser /\ asked'[q].user = asked[p].user
          /\ asked[p].browser # Nobody => asked[p].browser \in Browsers
      BY <1>3, <2>1, <2>5
    <3>2. asked'[q].browser # Nobody => account[asked'[q].browser] = asked'[q].user
      BY <2>4, <3>1
    <3>3. ASSUME NEW s \in shows
          PROVE  asked'[q].browser # Nobody => s.id \notin closed'[asked'[q].browser]
      BY <2>2, <3>1
    <3> QED BY <2>2, <3>1, <3>2, <3>3
  <2>6. CASE q # p
    BY <2>1, <2>3, <2>6
  <2> QED BY <2>5, <2>6
<1>11. LoadInv'
  <2>1. \A c \in Browsers, q \in Process : WaitsForLoad(c, q)' => WaitsForLoad(c, q)
    BY <1>6 DEF GoesOn, WaitsForLoad
  <2> QED BY <1>3, <2>1 DEF PanelsIInv, LoadInv
<1> QED BY <1>8, <1>9, <1>10, <1>11 DEF PanelsIInv

LEMMA DeleteKeeps ==
  ASSUME PanelsIInv, NEW d \in deletes, DeleteFunction(d) \/ LoseDelete(d)
  PROVE  PanelsIInv'
<1>1. /\ rows' \subseteq rows /\ deletes' \subseteq deletes
      /\ UNCHANGED <<nextRow, account, page, asked, closed, abandoned, late>>
      /\ served' \subseteq served \cup {d.id}
      /\ d.id \in served' => d.id \in served \/ \A r \in rows' : r.id # d.id
  BY DEF DeleteFunction, LoseDelete
<1>2. d.id \in RowId /\ d.id < nextRow
  BY DEF PanelsIInv, PanelsTypeOK, RowInv
<1>3. PanelsTypeOK'
  BY <1>1, <1>2 DEF PanelsIInv, PanelsTypeOK
<1>4. RowInv'
  <2>1. \A r \in rows' : r.id \notin served'
    BY <1>1 DEF PanelsIInv, RowInv
  <2> QED BY <1>1, <1>2, <2>1 DEF PanelsIInv, RowInv
<1>5. PageInv' /\ AskInv' /\ LoadInv'
  BY <1>1 DEF PanelsIInv, PageInv, AskInv, LoadInv, WaitsForLoad
<1> QED BY <1>3, <1>4, <1>5 DEF PanelsIInv

\* A request that is done with.
LEMMA DoneIs ==
  ASSUME PanelsTypeOK, NEW p \in Process, asked' = [asked EXCEPT ![p] = NoRequest]
  PROVE  /\ asked' \in [Process -> PageRequest \cup {NoRequest}]
         /\ \A q \in Process : asked'[q].at # "idle" => q # p /\ asked'[q] = asked[q]
BY RequestIs DEF PanelsTypeOK

\* What an answer puts on a page.
LEMMA AnsweredKeeps ==
  ASSUME PanelsIInv, NEW p \in Process, asked[p].at = "run",
         NEW b \in Browsers, asked[p].browser = b, NEW s \in Answered(p, b)
  PROVE  /\ s \in Panel /\ account[b] # Nobody /\ s.id < nextRow /\ s.id \notin closed[b]
         /\ \A r \in rows : r.id = s.id => r.user = account[b]
         /\ \A t \in Answered(p, b) : t.id = s.id /\ s.id # 0 => t = s
         /\ asked[p].op # "load" => s.id = 0 \/ s \in page[b]
<1>1. asked[p] \in PageRequest
  BY RequestIs DEF PanelsIInv, PanelsTypeOK
<1>2. account[b] = asked[p].user /\ account[b] \in User
  BY <1>1, RequestIs DEF PanelsIInv, AskInv, PageRequest
<1>3. \A t \in Answered(p, b) : t \in page[b] \/ t \in asked[p].shows
  BY DEF Answered
<1>4. ASSUME NEW t \in Answered(p, b)
      PROVE  /\ t \in Panel /\ t.id < nextRow /\ t.id \notin closed[b]
             /\ \A r \in rows : r.id = t.id => r.user = account[b]
             /\ asked[p].op # "load" => t.id = 0 \/ t \in page[b]
  <2>1. CASE t \in page[b]
    BY <2>1 DEF PanelsIInv, PageInv, PanelsTypeOK
  <2>2. CASE t \in asked[p].shows
    <3>1. t \in Panel
      BY <1>1, <2>2 DEF PageRequest
    <3>2. b # Nobody
      BY RequestIs
    <3> QED BY <1>2, <2>2, <3>1, <3>2 DEF PanelsIInv, AskInv
  <2> QED BY <1>3, <2>1, <2>2
<1>5. ASSUME NEW t \in Answered(p, b), t.id = s.id, s.id # 0
      PROVE  t = s
  <2>1. CASE asked[p].op = "load"
    <3>1. \A x \in page[b] : x.id = 0
      BY <2>1 DEF PanelsIInv, LoadInv, WaitsForLoad
    <3>2. s \in asked[p].shows /\ t \in asked[p].shows
      BY <1>3, <1>5, <3>1
    <3> QED BY <1>5, <3>2 DEF PanelsIInv, AskInv
  <2>2. CASE asked[p].op # "load"
    BY <1>4, <1>5, <2>2 DEF PanelsIInv, PageInv
  <2> QED BY <2>1, <2>2
<1> QED BY <1>2, <1>4, <1>5, RequestIs

LEMMA EndKeeps ==
  ASSUME PanelsIInv, NEW p \in Process, Answer(p) \/ Fail(p)
  PROVE  PanelsIInv'
<1>1. /\ asked[p].at = "run" /\ asked' = [asked EXCEPT ![p] = NoRequest]
      /\ UNCHANGED <<rows, nextRow, account, deletes, closed, served, abandoned, late>>
  BY DEF Answer, Fail
<1>2. /\ asked' \in [Process -> PageRequest \cup {NoRequest}]
      /\ \A q \in Process : asked'[q].at # "idle" => q # p /\ asked'[q] = asked[q]
  BY <1>1, DoneIs DEF PanelsIInv
<1>3. \A b \in Browsers : page'[b] = page[b] \/ (asked[p].browser = b /\ page'[b] = Answered(p, b))
  BY DEF Answer, Fail
<1>4. page' \in [Browsers -> SUBSET Panel]
  <2>1. page' = [b \in Browsers |-> page'[b]]
    BY DEF Answer, Fail, PanelsIInv, PanelsTypeOK
  <2>2. \A b \in Browsers : page'[b] \subseteq Panel
    BY <1>1, <1>3, AnsweredKeeps DEF PanelsIInv, PanelsTypeOK
  <2> QED BY <2>1, <2>2
<1>5. PanelsTypeOK'
  BY <1>1, <1>2, <1>4 DEF PanelsIInv, PanelsTypeOK
<1>6. RowInv'
  BY <1>1 DEF PanelsIInv, RowInv
<1>7. PageInv'
  <2> SUFFICES ASSUME NEW b \in Browsers, NEW s \in page'[b]
               PROVE  /\ account[b] # Nobody /\ s.id < nextRow /\ s.id \notin closed[b]
                      /\ \A r \in rows : r.id = s.id => r.user = account[b]
                      /\ \A t \in page'[b] : t.id = s.id /\ s.id # 0 => t = s
    BY <1>1 DEF PageInv
  <2>1. CASE page'[b] = page[b]
    BY <2>1 DEF PanelsIInv, PageInv
  <2>2. CASE asked[p].browser = b /\ page'[b] = Answered(p, b)
    BY <1>1, <2>2, AnsweredKeeps
  <2> QED BY <1>3, <2>1, <2>2
<1>8. AskInv'
  BY <1>1, <1>2 DEF PanelsIInv, AskInv
<1>9. LoadInv'
  <2> SUFFICES ASSUME NEW b \in Browsers, NEW q \in Process, WaitsForLoad(b, q)'
               PROVE  /\ \A s \in page'[b] : s.id = 0
                      /\ \A x \in Process : WaitsForLoad(b, x)' => x = q
    BY DEF LoadInv
  <2>1. /\ WaitsForLoad(b, q) /\ q # p
        /\ \A x \in Process : WaitsForLoad(b, x)' => WaitsForLoad(b, x)
    BY <1>2 DEF WaitsForLoad
  <2>2. /\ \A s \in page[b] : s.id = 0
        /\ \A x \in Process : WaitsForLoad(b, x) => x = q
    BY <2>1 DEF PanelsIInv, LoadInv
  <2>3. asked[p].browser = b => asked[p].op # "load"
    BY <1>1, <2>1, <2>2 DEF WaitsForLoad
  <2>4. \A s \in page'[b] : s.id = 0
    BY <1>1, <1>3, <2>2, <2>3, AnsweredKeeps
  <2> QED BY <2>1, <2>2, <2>4
<1> QED BY <1>5, <1>6, <1>7, <1>8, <1>9 DEF PanelsIInv

LEMMA PanelsStep == PanelsIInv /\ [PanelsNext]_panelsVars => PanelsIInv'
<1> SUFFICES ASSUME PanelsIInv, [PanelsNext]_panelsVars PROVE PanelsIInv'
  OBVIOUS
<1>1. ASSUME NEW b \in Browsers, NEW f \in Saved, StartFunction(b, f)
      PROVE  PanelsIInv'
  <2>1. PICK new : new = [kind |-> "start", fn |-> f, id |-> 0]
    OBVIOUS
  <2>2. new \in Panel /\ new.id = 0
    BY <2>1 DEF Panel, Kind
  <2>3. /\ AskFor(b, "start", "table", {new})
        /\ UNCHANGED <<rows, nextRow, account, page, deletes, closed, served, abandoned, late>>
    BY <1>1, <2>1 DEF StartFunction
  <2> QED BY <2>2, <2>3, NewRequestKeeps
<1>2. ASSUME NEW b \in Browsers, Refresh(b)
      PROVE  PanelsIInv'
  <2>1. PICK panel \in page[b] : AskFor(b, "refresh", "run", {[panel EXCEPT !.id = 0]})
    BY <1>2 DEF Refresh
  <2>2. PICK new : new = [panel EXCEPT !.id = 0]
    OBVIOUS
  <2>3. panel \in Panel
    BY DEF PanelsIInv, PanelsTypeOK
  <2>4. new \in Panel /\ new.id = 0
    BY <2>2, <2>3 DEF Panel
  <2>5. UNCHANGED <<rows, nextRow, account, page, deletes, closed, served, abandoned, late>>
    BY <1>2 DEF Refresh
  <2>6. AskFor(b, "refresh", "run", {new})
    BY <2>1, <2>2
  <2> QED BY <2>4, <2>5, <2>6, NewRequestKeeps
<1>3. ASSUME NEW b \in Browsers,
             SessionDestroy(b) \/ Leave(b) \/ \E u \in User : SessionCreate(b, u)
      PROVE  PanelsIInv'
  <2>1. abandoned \subseteq User /\ account[b] \in User \cup {Nobody}
    BY DEF PanelsIInv, PanelsTypeOK
  <2>2. CASE SessionDestroy(b)
    BY <2>1, <2>2, LeavingKeeps DEF SessionDestroy
  <2>3. CASE Leave(b)
    BY <2>1, <2>3, LeavingKeeps DEF Leave
  <2>4. CASE \E u \in User : SessionCreate(b, u)
    BY <2>1, <2>4, LeavingKeeps DEF SessionCreate
  <2> QED BY <1>3, <2>2, <2>3, <2>4
<1>4. CASE UNCHANGED panelsVars
  BY <1>4 DEF panelsVars, PanelsIInv, PanelsTypeOK, RowInv, PageInv, AskInv, LoadInv, WaitsForLoad
<1> QED BY <1>1, <1>2, <1>3, <1>4, CloseKeeps, LoadKeeps, SaveRowKeeps, ReadRowsKeeps, EndKeeps,
           DeleteKeeps DEF PanelsNext, Browse

LEMMA PanelsAlways == PanelsSpec => []PanelsIInv
BY PanelsStart, PanelsStep, PTL DEF PanelsSpec

(* Tables, pages, requests and what is under way keep their types.         *)
THEOREM PanelsTypes == PanelsSpec => []PanelsTypeOK
BY PanelsAlways, PTL DEF PanelsIInv

(* A panel closed by the id of its row does not come back into the browser *)
(* that closed it, but by a load that reads the table before               *)
(* delete_function has been answered; for any browsers, accounts, requests *)
(* at once and rows of the same command.                                   *)
THEOREM ClosedIsClosed == PanelsSpec => []ClosedStaysClosed
<1>1. PanelsIInv => ClosedStaysClosed
  BY DEF PanelsIInv, PageInv, ClosedStaysClosed
<1> QED BY <1>1, PanelsAlways, PTL

(* A request for the removal of a row is one of the row's user, although   *)
(* delete_function does not ask.                                           *)
THEOREM OnlyOwnRowsAreClosed == PanelsSpec => []ClosesOwn
<1>1. PanelsIInv => ClosesOwn
  BY DEF PanelsIInv, RowInv, ClosesOwn
<1> QED BY <1>1, PanelsAlways, PTL

\* Rows are added by SaveRow alone, and sessions end in three ways.
LEMMA LogOutStep ==
  ASSUME PanelsTypeOK, LogOutForgets, PanelsNext
  PROVE  LogOutForgets'
<1> SUFFICES ASSUME NEW u \in User, ~ LoggedInAs(u)', u \notin abandoned',
                    NEW r \in rows', r.user = u
             PROVE  r.id \in late'
  BY DEF LogOutForgets, Ids, RowsOf
<1>1. ASSUME ~ LoggedInAs(u), u \notin abandoned, r \in rows, late \subseteq late'
      PROVE  r.id \in late'
  BY <1>1 DEF LogOutForgets, Ids, RowsOf
<1>2. ASSUME UNCHANGED <<account, abandoned, late>>, rows' \subseteq rows
      PROVE  r.id \in late'
  BY <1>1, <1>2 DEF LoggedInAs
<1>3. CASE \E b \in Browsers :
             \/ \E f \in Saved : StartFunction(b, f)
             \/ \E panel \in page[b] : Close(b, panel)
             \/ \E p \in Process : Load(b, p)
             \/ Refresh(b)
  BY <1>2, <1>3 DEF StartFunction, Close, Load, Navigate, Refresh
<1>4. CASE \/ \E p \in Process : ReadRows(p) \/ Answer(p) \/ Fail(p)
           \/ \E d \in deletes : DeleteFunction(d) \/ LoseDelete(d)
  BY <1>2, <1>4 DEF ReadRows, Answer, Fail, DeleteFunction, LoseDelete
<1>5. ASSUME NEW p \in Process, SaveRow(p)
      PROVE  r.id \in late'
  <2>1. PICK panel \in asked[p].shows :
          rows' = rows \cup {[id |-> nextRow, user |-> asked[p].user, fn |-> panel.fn]}
    BY <1>5 DEF SaveRow
  <2>2. /\ UNCHANGED <<account, abandoned>>
        /\ late' = IF LoggedInAs(asked[p].user) THEN late ELSE late \cup {nextRow}
    BY <1>5 DEF SaveRow
  <2>3. ~ LoggedInAs(u) /\ late \subseteq late'
    BY <2>2 DEF LoggedInAs
  <2>4. CASE r \in rows
    BY <1>1, <2>2, <2>3, <2>4
  <2>5. CASE r \notin rows
    BY <2>1, <2>2, <2>3, <2>5
  <2> QED BY <2>4, <2>5
<1>6. ASSUME NEW b \in Browsers, NEW v \in User \cup {Nobody},
             account' = [account EXCEPT ![b] = v], late' = late, rows' \subseteq rows,
             account[b] \in abandoned' \/ account[b] = v \/ account[b] # u,
             u \in abandoned => u \in abandoned'
      PROVE  r.id \in late'
  <2>1. \A c \in Browsers : account[c] = u => c = b /\ account[b] # v
    BY <1>6 DEF LoggedInAs, PanelsTypeOK
  <2>2. ~ LoggedInAs(u)
    BY <1>6, <2>1 DEF LoggedInAs
  <2> QED BY <1>1, <1>6, <2>2
<1>7. ASSUME NEW b \in Browsers, NEW v \in User, SessionCreate(b, v)
      PROVE  r.id \in late'
  <2>1. account[b] \in abandoned' \/ account[b] = v \/ account[b] # u
    BY <1>7, RequestIs DEF SessionCreate
  <2> QED BY <1>6, <1>7, <2>1 DEF SessionCreate, Navigate
<1>8. ASSUME NEW b \in Browsers, Leave(b)
      PROVE  r.id \in late'
  BY <1>6, <1>8 DEF Leave, Navigate
<1>9. ASSUME NEW b \in Browsers, SessionDestroy(b)
      PROVE  r.id \in late'
  <2>1. account[b] # u /\ r \in rows
    BY <1>9 DEF SessionDestroy, RowsOf
  <2>2. /\ account' = [account EXCEPT ![b] = Nobody] /\ late' = late /\ rows' \subseteq rows
        /\ u \in abandoned => u \in abandoned'
    BY <1>9, <2>1 DEF SessionDestroy, Navigate
  <2> QED BY <1>6, <2>1, <2>2
<1> QED BY <1>3, <1>4, <1>5, <1>7, <1>8, <1>9 DEF PanelsNext, Browse

(* No row is left of a user whom no browser is logged in as, but what a    *)
(* start saved after the log-out and what a browser left behind that ended *)
(* without one.                                                            *)
THEOREM RowsAreForgotten == PanelsSpec => []LogOutForgets
<1>1. PanelsInit => LogOutForgets
  BY DEF PanelsInit, LogOutForgets, RowsOf, Ids
<1>2. PanelsTypeOK /\ LogOutForgets /\ [PanelsNext]_panelsVars => LogOutForgets'
  <2>1. LogOutForgets /\ UNCHANGED panelsVars => LogOutForgets'
    BY DEF panelsVars, LogOutForgets, LoggedInAs, RowsOf, Ids
  <2> QED BY <2>1, LogOutStep
<1> QED BY <1>1, <1>2, PanelsTypes, PTL DEF PanelsSpec
=============================================================================
