------------------------------ MODULE Accounts ------------------------------
(***************************************************************************)
(* Login, registration and sessions: the part of my_http_conn::do_request  *)
(* that works on the global map users, the table user of the database and  *)
(* the global cache lru, run by several workers at once, and mysql_reslut, *)
(* which fills users from the table when the server starts.                *)
(*                                                                         *)
(* do_request locks m_locker, which names the member of the connection and *)
(* not the global of http_conn.cpp:25; a connection is with one worker at  *)
(* a time, so that the lock never keeps a worker waiting and is left out.  *)
(* Single calls on users and lru are steps; in the code they may even      *)
(* overlap.                                                                *)
(***************************************************************************)
EXTENDS LRUCache

CONSTANTS
  Workers,      \* threads of the pool
  Names, Passwords,
  MaxRequests,  \* bound: requests in a behaviour
  MaxRestarts   \* bound: crashes followed by a restart

ASSUME AccountsAssumption ==
  /\ NULL \notin Passwords \cup Names
  /\ Names \subseteq Values
  /\ MaxRequests \in Nat /\ MaxRestarts \in Nat

VARIABLES
  users,     \* per name, the password or NULL
  db,        \* the rows of the table; it has no key
  pc, req,   \* per worker: where it is, with which request
  res,       \* per worker, what mysql_query returned: TRUE for success
  requests, restarts,
  granted,   \* <<name, password>> that were answered with the login page
  raced      \* names that two workers were registering at once

accountVars == <<users, db, pc, req, res, requests, restarts, granted, raced>>
vars == <<cacheVars, accountVars>>

Requests ==
  [kind : {"login"}, name : Names, password : Passwords, ip : Keys]
    \cup [kind : {"register"}, name : Names, password : Passwords]
    \cup [kind : {"home"}, ip : Keys]

NoRequest == [kind |-> "none"]

(* mysql_reslut(): the rows one after the other, a later one for the same  *)
(* name over an earlier one.                                               *)
Load(rows) ==
  [n \in Names |->
     LET of == {i \in 1 .. Len(rows) : rows[i][1] = n} IN
     IF of = {} THEN NULL
                ELSE rows[CHOOSE i \in of : \A j \in of : j <= i][2]]

Init ==
  /\ CacheInit
  /\ db = <<>>
  /\ users = Load(db)
  /\ pc = [w \in Workers |-> "idle"]
  /\ req = [w \in Workers |-> NoRequest]
  /\ res = [w \in Workers |-> FALSE]
  /\ requests = 0 /\ restarts = 0
  /\ granted = {} /\ raced = {}

Goto(w, label) == pc' = [pc EXCEPT ![w] = label]

(* The page is chosen and the worker done with the request.                *)
Answer(w) ==
  /\ Goto(w, "idle")
  /\ req' = [req EXCEPT ![w] = NoRequest]
  /\ res' = [res EXCEPT ![w] = FALSE]

-----------------------------------------------------------------------------
Ask(w) ==
  /\ pc[w] = "idle" /\ requests < MaxRequests
  /\ requests' = requests + 1
  /\ \E q \in Requests : req' = [req EXCEPT ![w] = q] /\ Goto(w, q.kind)
  /\ UNCHANGED <<cacheVars, users, db, res, restarts, granted, raced>>

(* Page 2.  The session is kept after the password was compared.           *)
LoginUncompared(w) ==
  /\ pc[w] = "login"
  /\ Goto(w, "keep")
  /\ UNCHANGED <<cacheVars, users, db, req, res, requests, restarts, granted, raced>>

Login(w) ==
  /\ pc[w] = "login"
  /\ IF users[req[w].name] = req[w].password
     THEN Goto(w, "keep") /\ UNCHANGED <<req, res>>
     ELSE Answer(w)
  /\ UNCHANGED <<cacheVars, users, db, requests, restarts, granted, raced>>

KeepSession(w) ==
  /\ pc[w] = "keep"
  /\ put(req[w].ip, req[w].name)
  /\ Answer(w)
  /\ UNCHANGED <<users, db, requests, restarts, granted, raced>>

(* Page 4: the home page or, without a session, nolog.html.                *)
Home(w) ==
  /\ pc[w] = "home"
  /\ get(req[w].ip)
  /\ Answer(w)
  /\ UNCHANGED <<users, db, requests, restarts, granted, raced>>

(* Page 3: a name that is in users is refused ...                          *)
Registering(n) ==
  {w \in Workers : pc[w] \in {"insert", "map"} /\ req[w].name = n}

FindName(w) ==
  LET n == req[w].name IN
  /\ pc[w] = "register"
  /\ IF users[n] = NULL
     THEN Goto(w, "insert") /\ UNCHANGED <<req, res>>
     ELSE Answer(w)
  /\ raced' = IF users[n] = NULL /\ Registering(n) # {} THEN raced \cup {n}
                                                        ELSE raced
  /\ UNCHANGED <<cacheVars, users, db, requests, restarts, granted>>

(* ... a new one goes into the table, which may fail ...                   *)
InsertRow(w) ==
  /\ pc[w] = "insert"
  /\ \E ok \in BOOLEAN :
       /\ res' = [res EXCEPT ![w] = ok]
       /\ db' = IF ok THEN Append(db, <<req[w].name, req[w].password>>) ELSE db
  /\ Goto(w, "map")
  /\ UNCHANGED <<cacheVars, users, req, requests, restarts, granted, raced>>

(* ... and, failure or not, into users, where map::insert leaves what is   *)
(* there.  The answer is the login page if the table took it.              *)
InsertUserAlways(w) ==
  LET n == req[w].name  p == req[w].password IN
  /\ pc[w] = "map"
  /\ users' = IF users[n] = NULL THEN [users EXCEPT ![n] = p] ELSE users
  /\ granted' = granted \cup {<<n, p>>}
  /\ Answer(w)
  /\ UNCHANGED <<cacheVars, db, requests, restarts, raced>>

InsertUserForgotten(w) ==
  LET n == req[w].name  p == req[w].password IN
  /\ pc[w] = "map"
  /\ UNCHANGED users
  /\ granted' = IF res[w] THEN granted \cup {<<n, p>>} ELSE granted
  /\ Answer(w)
  /\ UNCHANGED <<cacheVars, db, requests, restarts, raced>>

InsertUser(w) ==
  LET n == req[w].name  p == req[w].password IN
  /\ pc[w] = "map"
  /\ users' = IF users[n] = NULL THEN [users EXCEPT ![n] = p] ELSE users
  /\ granted' = IF res[w] THEN granted \cup {<<n, p>>} ELSE granted
  /\ Answer(w)
  /\ UNCHANGED <<cacheVars, db, requests, restarts, raced>>

(* The process ends at any time and is started again.                      *)
Restart ==
  /\ restarts < MaxRestarts
  /\ restarts' = restarts + 1
  /\ users' = Load(db)
  /\ map' = [key \in Keys |-> NULL]
  /\ k' = [n \in Nodes |-> NULL] /\ v' = [n \in Nodes |-> NULL]
  /\ link' = NoNodes
  /\ size' = 0
  /\ call' = NoCall
  /\ pc' = [w \in Workers |-> "idle"]
  /\ req' = [w \in Workers |-> NoRequest]
  /\ res' = [w \in Workers |-> FALSE]
  /\ UNCHANGED <<db, requests, granted, raced>>

Next ==
  \/ \E w \in Workers :
       \/ Ask(w) \/ Login(w) \/ KeepSession(w) \/ Home(w)
       \/ FindName(w) \/ InsertRow(w) \/ InsertUser(w)
  \/ Restart

Spec == Init /\ [][Next]_vars

-----------------------------------------------------------------------------
TypeOK ==
  /\ CacheTypeOK
  /\ users \in [Names -> Passwords \cup {NULL}]
  /\ db \in Seq(Names \X Passwords)
  /\ pc \in [Workers -> {"idle", "login", "keep", "home", "register", "insert", "map"}]
  /\ req \in [Workers -> Requests \cup {NoRequest}]
  /\ res \in [Workers -> BOOLEAN]
  /\ granted \subseteq Names \X Passwords /\ raced \subseteq Names

Rows == {db[i] : i \in 1 .. Len(db)}

(* Who was sent to the login page after registering is in the table, with  *)
(* that password, whatever failed, and through a crash at any point        *)
(* (http_conn.cpp:615-628).                                                *)
GrantedDurable == granted \subseteq Rows

(* ... and can log in, now and after a restart, unless two registrations   *)
(* of the name met: also when an earlier attempt failed in the table and   *)
(* left its password in users (http_conn.cpp:605-617, 31-77).              *)
GrantedCanLogIn ==
  \A g \in granted : g[1] \notin raced => users[g[1]] = g[2]

(* A session belongs to a name that can log in, so that no session         *)
(* outlives its account, which a restart may remove (http_conn.cpp:588-591,*)
(* 661).                                                                   *)
SessionHasAccount ==
  /\ TypeOK
  /\ \A key \in Keys : Known(key) => users[v[map[key]]] # NULL

-----------------------------------------------------------------------------
(* "Registered, go to the login page" (http_conn.cpp:622): who was told so *)
(* can log in.                                                             *)
RegisteredCanLogIn == \A g \in granted : users[g[1]] = g[2]
=============================================================================
