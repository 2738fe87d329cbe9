------------------------------- MODULE Access -------------------------------
(***************************************************************************)
(* The accounts of the web app and who may write: UserMiddleware and the   *)
(* start-up of main.py, the OAuth callback of api/auth.py, the editors'    *)
(* administration of api/admin.py.  A request decides on the account the   *)
(* middleware read before it, and a session writes only the attributes     *)
(* that differ from those it loaded, whatever was committed meanwhile.     *)
(*                                                                         *)
(* A request is a record: what it does and what it has read.  Modules that *)
(* extend this one add kinds of their own.  The middleware's SELECT and    *)
(* the handler's first one are one step: the account is not read again.    *)
(***************************************************************************)
EXTENDS Naturals

CONSTANTS
  User,         \* Stack Exchange users
  Moderator,    \* those whose user_type is "moderator"
  FirstEditor,  \* the one migration 002 names
  Request,      \* requests that may be handled at the same time
  None          \* no account

ASSUME AccessAssumption ==
  /\ Moderator \subseteq User /\ FirstEditor \in User
  /\ None \notin User \cup [admin : BOOLEAN, editor : BOOLEAN]

VARIABLES
  users,        \* the account of each user, or None: [admin, editor]
  request       \* what each request is doing

Account == [admin : BOOLEAN, editor : BOOLEAN]

Idle == [op |-> "idle"]

(* who passes _check_write_perm and _require_admin *)
Writers == {u \in User : users[u] # None /\ (users[u].editor \/ users[u].admin)}
Managers == {u \in User : users[u] # None /\ users[u].admin}

Begin(r, rec) == request[r] = Idle /\ request' = [request EXCEPT ![r] = rec]

End(r) == request' = [request EXCEPT ![r] = Idle]

(* a request that fails, or is cut off: get_db rolls back *)
Fail(r) == request[r] # Idle /\ End(r) /\ UNCHANGED users

AccessInit ==
  /\ users \in [User -> {None, [admin |-> FALSE, editor |-> TRUE], [admin |-> TRUE, editor |-> TRUE]}]
  /\ users[FirstEditor] # None
  /\ \A u \in User : users[u] # None => (users[u].admin <=> u \in Moderator)
  /\ request = [r \in Request |-> Idle]

-----------------------------------------------------------------------------
(* The OAuth callback *)

Login(r, u) ==
  /\ Begin(r, [op |-> "login", user |-> u, loaded |-> users[u]])
  /\ UNCHANGED users

(* Mutant: the row is written back as it was loaded *)
SignedInWhole(now, loaded, moderator) ==
  IF moderator THEN [admin |-> TRUE, editor |-> TRUE] ELSE loaded

(* a moderator becomes admin and editor; nothing is ever taken away *)
SignedIn(now, loaded, moderator) ==
  [admin  |-> now.admin \/ moderator,
   editor |-> now.editor \/ (moderator /\ ~loaded.editor)]

(* the upsert: two first logins of one user meet at the unique se_user_id *)
SaveLogin(r) ==
  LET u == request[r].user
      loaded == request[r].loaded
      moderator == u \in Moderator IN
  /\ request[r].op = "login"
  /\ loaded = None => users[u] = None
  /\ users' = [users EXCEPT ![u] =
       IF loaded = None THEN [admin |-> moderator, editor |-> moderator]
                        ELSE SignedIn(users[u], loaded, moderator)]
  /\ End(r)

-----------------------------------------------------------------------------
(* An admin grants or revokes; admins cannot be revoked *)

Manage(r, u, grant) ==
  /\ Managers # {} /\ users[u] # None
  /\ ~grant => ~users[u].admin
  /\ Begin(r, [op |-> "manage", user |-> u, grant |-> grant, loaded |-> users[u]])
  /\ UNCHANGED users

SaveEditor(r) ==
  /\ request[r].op = "manage"
  /\ users' = IF request[r].grant = request[r].loaded.editor THEN users
              ELSE [users EXCEPT ![request[r].user].editor = request[r].grant]
  /\ End(r)

-----------------------------------------------------------------------------
(* The web app is started again: requests are gone, every migration runs *)

Regranted == [users EXCEPT ![FirstEditor] =
                IF @ = None THEN [admin |-> FALSE, editor |-> TRUE] ELSE [@ EXCEPT !.editor = TRUE]]

Start ==
  /\ users' = Regranted
  /\ request' = [r \in Request |-> Idle]

AccessBegins(r) ==
  \/ \E u \in User : Login(r, u)
  \/ \E u \in User, grant \in BOOLEAN : Manage(r, u, grant)

AccessCommits(r) == SaveLogin(r) \/ SaveEditor(r)

=============================================================================
