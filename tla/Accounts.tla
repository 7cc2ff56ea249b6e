------------------------------ MODULE Accounts ------------------------------
(***************************************************************************)
(* Accounts and sessions: login with its lockout, the sessions kept in     *)
(* Redis beside the users kept in PostgreSQL, the password changed or      *)
(* reset, and administrators who block accounts and give out roles.        *)
(*                                                                         *)
(* A request is a process. Redis executes one command at a time and the    *)
(* store issues several for each operation, so each of them is a step; a   *)
(* query or a transaction of PostgreSQL is a step too, and what it read is  *)
(* kept in the process. Any step may fail, which ends the request (Fail).  *)
(*                                                                         *)
(* owner and dead are not in the program: whose login made a session, and  *)
(* the sessions that should be of no use any more.                         *)
(***************************************************************************)
EXTENDS Naturals, FiniteSets

CONSTANTS
    Users, Passwords, Sids, Tokens, Processes, None,
    Password0,      \* the password each account starts with
    Admins0,        \* who holds an administrative role at the start
    MaxFailed,      \* MAX_FAILED_ATTEMPTS
    MaxAttempts,    \* bound on failedLoginAttempts
    MaxVersion      \* bound on sessionVersion

ASSUME AccountsAssumption ==
    /\ None \notin Users /\ None \notin Sids /\ None \notin Tokens
    /\ None \notin Nat
    /\ Password0 \in [Users -> Passwords] /\ Admins0 \subseteq Users
    /\ IsFiniteSet(Processes)
    /\ MaxFailed \in Nat \ {0} /\ MaxAttempts \in Nat /\ MaxVersion \in Nat

VARIABLES
    account,   \* users: password, failedLoginAttempts, lockedUntil,
               \* adminBlockedAt, sessionVersion
    admins,    \* users with a row in user_admin_roles
    token,     \* password_reset_tokens, and how often each was spent
    store,     \* f12:session:<sid>, by the sessionVersion it holds, or None
    index,     \* f12:user-sessions:<user>
    expired,   \* sessions past their absoluteExpiresAt
    lapses,    \* how often the lock of each account lapsed
    owner, dead,
    proc       \* the requests

vars == <<account, admins, token, store, index, expired, lapses, owner, dead, proc>>
redis == <<store, index, expired>>
database == <<account, admins, token, lapses>>
ghosts == <<owner, dead>>

Locks == {"none", "locked", "lapsed"}
Account == [password : Passwords, attempts : Nat, blocked : BOOLEAN,
            lock : Locks, version : Nat]
Token == [user : Users \cup {None}, used : BOOLEAN, expired : BOOLEAN,
          sent : BOOLEAN, spent : Nat]

Steps == {"idle", "wrong", "reset", "auth", "serving", "set", "sadd",
          "get", "del", "srem", "members", "delSessions", "delIndex",
          "changeWrite", "createToken", "mail", "confirm",
          "block", "unblock", "roles"}
Process == [at : Steps, user : Users \cup {None}, sid : Sids \cup {None},
            version : Nat, lock : Locks, gone : Sids \cup {None}, found : BOOLEAN,
            logout : BOOLEAN, then : {"idle", "set", "get"},
            secret : Passwords \cup {None}, token : Tokens \cup {None},
            target : Users \cup {None}, ids : SUBSET Sids]
Idle == [at |-> "idle", user |-> None, sid |-> None, version |-> 0,
         lock |-> "none", gone |-> None, found |-> FALSE, logout |-> FALSE, then |-> "idle",
         secret |-> None, token |-> None, target |-> None, ids |-> {}]

TypeOK ==
    /\ account \in [Users -> Account]
    /\ admins \subseteq Users
    /\ token \in [Tokens -> Token]
    /\ store \in [Sids -> Nat \cup {None}]
    /\ index \in [Users -> SUBSET Sids]
    /\ expired \subseteq Sids
    /\ lapses \in [Users -> Nat]
    /\ owner \in [Sids -> Users \cup {None}]
    /\ dead \subseteq Sids
    /\ proc \in [Processes -> Process]

Init ==
    /\ account = [u \in Users |-> [password |-> Password0[u], attempts |-> 0,
                     blocked |-> FALSE, lock |-> "none", version |-> 0]]
    /\ admins = Admins0
    /\ token = [t \in Tokens |-> [user |-> None, used |-> FALSE,
                   expired |-> FALSE, sent |-> FALSE, spent |-> 0]]
    /\ store = [s \in Sids |-> None]
    /\ index = [u \in Users |-> {}]
    /\ expired = {}
    /\ lapses = [u \in Users |-> 0]
    /\ owner = [s \in Sids |-> None]
    /\ dead = {}
    /\ proc = [p \in Processes |-> Idle]

-----------------------------------------------------------------------------
At(p, step) == proc[p].at = step
Begin(p, request) == At(p, "idle") /\ proc' = [proc EXCEPT ![p] = request]
Go(p, step) == proc' = [proc EXCEPT ![p].at = step]
(* The next step of p, or its end.                                          *)
Then(p, step) == proc' = [proc EXCEPT ![p] = IF step = "idle" THEN Idle
                                             ELSE [@ EXCEPT !.at = step, !.then = "idle"]]
Live(s) == store[s] # None

-----------------------------------------------------------------------------
(* LoginService: the account is read once; the password is compared with    *)
(* what was read. A client that still has a session (old) loses it.         *)
LoginAllowed_Locked(u) == ~account[u].blocked
LoginAllowed(u) == ~account[u].blocked /\ account[u].lock # "locked"

LoginWrongRead(p, u) ==
    /\ LoginAllowed(u)
    /\ account[u].attempts < MaxAttempts
    /\ Begin(p, [Idle EXCEPT !.at = "wrong", !.user = u])
    /\ UNCHANGED <<database, redis, ghosts>>

(* One UPDATE: it counts on the row as it is, and locks it.                 *)
LoginWrong(p) ==
    LET u == proc[p].user
        attempts == account[u].attempts + 1
    IN  /\ At(p, "wrong")
        /\ account' = [account EXCEPT
              ![u].attempts = attempts,
              ![u].lock = IF attempts >= MaxFailed THEN "locked" ELSE @]
        /\ proc' = [proc EXCEPT ![p] = Idle]
        /\ UNCHANGED <<admins, token, lapses, redis, ghosts>>

(* regenerate destroys the old session, then the new one is saved with the   *)
(* version that was read (establishAuthenticatedSession).                   *)
AfterLogin(old) == IF old = None THEN "set" ELSE "get"
NeedsReset(u) == account[u].attempts # 0 \/ account[u].lock # "none"

LoginRead(p, u, s, old) ==
    LET login == [Idle EXCEPT !.user = u, !.sid = s, !.gone = old, !.then = "set",
                     !.version = account[u].version, !.lock = account[u].lock]
    IN  /\ LoginAllowed(u)
        /\ owner[s] = None
        /\ old # None => Live(old)
        /\ Begin(p, [login EXCEPT !.at = IF NeedsReset(u) THEN "reset"
                                         ELSE AfterLogin(old)])
        /\ owner' = [owner EXCEPT ![s] = u]
        /\ UNCHANGED <<database, redis, dead>>

(* Unconditional: it also lifts a lock set since the account was read.      *)
LoginReset(p) ==
    /\ At(p, "reset")
    /\ account' = [account EXCEPT ![proc[p].user].attempts = 0,
                                  ![proc[p].user].lock = "none"]
    /\ Go(p, AfterLogin(proc[p].gone))
    /\ UNCHANGED <<admins, token, lapses, redis, ghosts>>

-----------------------------------------------------------------------------
(* RedisSessionStore: persist, the set and touch of a session; remove, its  *)
(* destroy; revokeUserSessions.                                             *)
PersistKey(p) ==
    /\ At(p, "set")
    /\ store' = [store EXCEPT ![proc[p].sid] = proc[p].version]
    /\ Go(p, "sadd")
    /\ UNCHANGED <<index, expired, database, ghosts>>

PersistIndex(p) ==
    /\ At(p, "sadd")
    /\ index' = [index EXCEPT ![proc[p].user] = @ \cup {proc[p].sid}]
    /\ proc' = [proc EXCEPT ![p] = Idle]
    /\ UNCHANGED <<store, expired, database, ghosts>>

RemoveRead(p) ==
    /\ At(p, "get")
    /\ proc' = [proc EXCEPT ![p].at = "del", ![p].found = Live(proc[p].gone)]
    /\ UNCHANGED <<redis, database, ghosts>>

(* A logout that no other request of the session overlaps ends it.          *)
Holds(q, s) == proc[q].sid = s /\ ~At(q, "idle")
RemoveKey(p) ==
    LET s == proc[p].gone
    IN  /\ At(p, "del")
        /\ store' = [store EXCEPT ![s] = None]
        /\ dead' = IF proc[p].logout /\ \A q \in Processes \ {p} : ~Holds(q, s)
                   THEN dead \cup {s} ELSE dead
        /\ IF proc[p].found THEN Go(p, "srem") ELSE Then(p, proc[p].then)
        /\ UNCHANGED <<index, expired, owner, database>>

RemoveIndex(p) ==
    /\ At(p, "srem")
    /\ index' = [u \in Users |-> IF u = owner[proc[p].gone]
                                 THEN index[u] \ {proc[p].gone} ELSE index[u]]
    /\ Then(p, proc[p].then)
    /\ UNCHANGED <<store, expired, database, ghosts>>

RevokeRead(p) ==
    /\ At(p, "members")
    /\ proc' = [proc EXCEPT ![p].at = "delSessions", ![p].ids = index[proc[p].target]]
    /\ UNCHANGED <<redis, database, ghosts>>

RevokeKeys(p) ==
    /\ At(p, "delSessions")
    /\ store' = [s \in Sids |-> IF s \in proc[p].ids THEN None ELSE store[s]]
    /\ Go(p, "delIndex")
    /\ UNCHANGED <<index, expired, database, ghosts>>

RevokeIndex(p) ==
    /\ At(p, "delIndex")
    /\ index' = [index EXCEPT ![proc[p].target] = {}]
    /\ Then(p, proc[p].then)
    /\ UNCHANGED <<store, expired, database, ghosts>>

-----------------------------------------------------------------------------
(* A request with a session: the store loads it, the lifetime middleware    *)
(* ends it when its absolute time is over; logout destroys it at once.      *)
Request(s) == [Idle EXCEPT !.user = owner[s], !.sid = s, !.gone = s,
                           !.version = store[s]]
Load(p, s) ==
    /\ Live(s)
    /\ Begin(p, [Request(s) EXCEPT !.at = IF s \in expired THEN "get" ELSE "auth"])
    /\ UNCHANGED <<redis, database, ghosts>>

Logout(p, s) ==
    /\ Live(s)
    /\ Begin(p, [Request(s) EXCEPT !.at = "get", !.logout = TRUE])
    /\ UNCHANGED <<redis, database, ghosts>>

Admitted_Unversioned(u, v) == ~account[u].blocked
Admitted(u, v) == ~account[u].blocked /\ account[u].version = v
(* authMiddleware: the user is read again for every request; a session that *)
(* is refused is destroyed.                                                 *)
Auth(p) ==
    /\ At(p, "auth")
    /\ Go(p, IF Admitted(proc[p].user, proc[p].version) THEN "serving" ELSE "get")
    /\ UNCHANGED <<redis, database, ghosts>>

(* The end of every response saves the session again (rolling), also of a   *)
(* public route, which asks for no authentication.                          *)
EndResponse(p) ==
    /\ At(p, "auth") \/ At(p, "serving")
    /\ Go(p, "set")
    /\ UNCHANGED <<redis, database, ghosts>>

-----------------------------------------------------------------------------
NewVersion_Same(u) == account[u].version
NewVersion(u) == account[u].version + 1
(* Sessions whose login read the account before this are dead.              *)
Outdate(u) == dead' = dead \cup {s \in Sids : owner[s] = u}
SetPassword(u, secret) ==
    account' = [account EXCEPT ![u].password = secret, ![u].version = NewVersion(u)]
Revoke(p, u, then) ==
    proc' = [proc EXCEPT ![p].at = "members", ![p].target = u, ![p].then = then]

(* ChangePasswordService: the current password is compared with what was    *)
(* read, the write is unconditional; then the sessions of the user and that *)
(* of the request are destroyed.                                            *)
ChangeRead(p, current, secret) ==
    /\ At(p, "serving")
    /\ current # secret /\ account[proc[p].user].password = current
    /\ account[proc[p].user].version < MaxVersion
    /\ proc' = [proc EXCEPT ![p].at = "changeWrite", ![p].secret = secret]
    /\ UNCHANGED <<redis, database, ghosts>>

ChangeWrite(p) ==
    LET u == proc[p].user
    IN  /\ At(p, "changeWrite")
        /\ SetPassword(u, proc[p].secret)
        /\ Outdate(u)
        /\ Revoke(p, u, "get")
        /\ UNCHANGED <<admins, token, lapses, redis, owner>>

(* RequestPasswordResetService: the unused tokens are used up, a new one is *)
(* created and sent; a failure to send it is only logged.                   *)
ForgotPassword(p, u, t) ==
    /\ token[t].user = None
    /\ \A q \in Processes : proc[q].token # t
    /\ Begin(p, [Idle EXCEPT !.at = "createToken", !.user = u, !.token = t])
    /\ token' = [x \in Tokens |-> IF token[x].user = u
                                  THEN [token[x] EXCEPT !.used = TRUE] ELSE token[x]]
    /\ UNCHANGED <<account, admins, lapses, redis, ghosts>>

CreateToken(p) ==
    /\ At(p, "createToken")
    /\ token' = [token EXCEPT ![proc[p].token].user = proc[p].user]
    /\ Go(p, "mail")
    /\ UNCHANGED <<account, admins, lapses, redis, ghosts>>

SendMail(p) ==
    /\ At(p, "mail")
    /\ token' = [token EXCEPT ![proc[p].token].sent = TRUE]
    /\ proc' = [proc EXCEPT ![p] = Idle]
    /\ UNCHANGED <<account, admins, lapses, redis, ghosts>>

(* ResetPasswordService: one transaction, which reads the token first.      *)
TokenValid(t) == token[t].user # None /\ ~token[t].used /\ ~token[t].expired
ConfirmRead(p, t, secret) ==
    /\ TokenValid(t) /\ token[t].sent
    /\ account[token[t].user].version < MaxVersion
    /\ Begin(p, [Idle EXCEPT !.at = "confirm", !.token = t, !.secret = secret])
    /\ UNCHANGED <<redis, database, ghosts>>

TokenSpent_Unused(t) == [token[t] EXCEPT !.spent = @ + 1]
TokenSpent(t) == [token[t] EXCEPT !.used = TRUE, !.spent = @ + 1]
ConfirmWrite(p) ==
    LET t == proc[p].token
        u == token[t].user
    IN  /\ At(p, "confirm")
        /\ SetPassword(u, proc[p].secret)
        /\ token' = [token EXCEPT ![t] = TokenSpent(t)]
        /\ Outdate(u)
        /\ Revoke(p, u, "idle")
        /\ UNCHANGED <<admins, lapses, redis, owner>>

-----------------------------------------------------------------------------
(* Administrators: authorize reads the role of a request already admitted.  *)
HasAdminPermission(u) == u \in admins
Authorize(p, step, u) ==
    /\ At(p, "serving")
    /\ HasAdminPermission(proc[p].user)
    /\ proc' = [proc EXCEPT ![p].at = step, ![p].target = u, ![p].then = "set"]
    /\ UNCHANGED <<redis, database, ghosts>>

BlockUser(p) ==
    LET u == proc[p].target
    IN  /\ At(p, "block")
        /\ u # proc[p].user
        /\ account[u].version < MaxVersion
        /\ account' = [account EXCEPT ![u].blocked = TRUE, ![u].version = NewVersion(u)]
        /\ Outdate(u)
        /\ Go(p, "members")
        /\ UNCHANGED <<admins, token, lapses, redis, owner>>

UnblockUser(p) ==
    LET u == proc[p].target
    IN  /\ At(p, "unblock")
        /\ account' = [account EXCEPT ![u].blocked = FALSE, ![u].attempts = 0,
                                      ![u].lock = "none"]
        /\ Go(p, "set")
        /\ UNCHANGED <<admins, token, lapses, redis, ghosts>>

(* setAdminRoles: an administrator may drop anybody's roles but their own.  *)
MayDropRoles_Own(a, u) == TRUE
MayDropRoles(a, u) == a # u
SetAdminRoles(p) ==
    LET u == proc[p].target
    IN  /\ At(p, "roles")
        /\ \/ admins' = admins \cup {u}
           \/ MayDropRoles(proc[p].user, u) /\ admins' = admins \ {u}
        /\ Go(p, "set")
        /\ UNCHANGED <<account, token, lapses, redis, ghosts>>

-----------------------------------------------------------------------------
(* A statement of a served request throws: the error handler answers, and   *)
(* the session is saved as ever.                                            *)
ErrorResponse(p) ==
    /\ \/ proc[p].at \in {"changeWrite", "block", "unblock", "roles"}
       \/ proc[p].at \in {"members", "delSessions", "delIndex"} /\ proc[p].then # "idle"
    /\ Go(p, "set")
    /\ UNCHANGED <<redis, database, ghosts>>

(* Any other exception or timeout, or a crash, ends a request where it is.  *)
Fail(p) ==
    /\ ~At(p, "idle")
    /\ proc' = [proc EXCEPT ![p] = Idle]
    /\ UNCHANGED <<redis, database, ghosts>>

(* Time: a lock, a token, the absolute and the idle time of a session end.  *)
LockLapses(u) ==
    /\ account[u].lock = "locked"
    /\ account' = [account EXCEPT ![u].lock = "lapsed"]
    /\ lapses' = [lapses EXCEPT ![u] = @ + 1]
    /\ UNCHANGED <<admins, token, redis, ghosts, proc>>

TokenExpires(t) ==
    /\ TokenValid(t)
    /\ token' = [token EXCEPT ![t].expired = TRUE]
    /\ UNCHANGED <<account, admins, lapses, redis, ghosts, proc>>

AbsoluteTimeEnds(s) ==
    /\ Live(s) /\ s \notin expired
    /\ expired' = expired \cup {s}
    /\ UNCHANGED <<store, index, database, ghosts, proc>>

SessionExpires(s) ==
    /\ Live(s)
    /\ store' = [store EXCEPT ![s] = None]
    /\ UNCHANGED <<index, expired, database, ghosts, proc>>

(* The index is given the time of the session saved last.                   *)
IndexExpires(u) ==
    /\ index[u] # {}
    /\ \A s \in index[u] : Live(s) => \E p \in Processes : At(p, "sadd") /\ proc[p].sid = s
    /\ index' = [index EXCEPT ![u] = {}]
    /\ UNCHANGED <<store, expired, database, ghosts, proc>>

Next ==
    \/ \E p \in Processes :
          \/ \E u \in Users : LoginWrongRead(p, u)
          \/ \E u \in Users, s \in Sids, old \in Sids \cup {None} : LoginRead(p, u, s, old)
          \/ LoginWrong(p) \/ LoginReset(p)
          \/ PersistKey(p) \/ PersistIndex(p)
          \/ RemoveRead(p) \/ RemoveKey(p) \/ RemoveIndex(p)
          \/ RevokeRead(p) \/ RevokeKeys(p) \/ RevokeIndex(p)
          \/ \E s \in Sids : Load(p, s) \/ Logout(p, s)
          \/ Auth(p) \/ EndResponse(p)
          \/ \E current, secret \in Passwords : ChangeRead(p, current, secret)
          \/ ChangeWrite(p)
          \/ \E u \in Users, t \in Tokens : ForgotPassword(p, u, t)
          \/ CreateToken(p) \/ SendMail(p)
          \/ \E t \in Tokens, secret \in Passwords : ConfirmRead(p, t, secret)
          \/ ConfirmWrite(p)
          \/ \E u \in Users, step \in {"block", "unblock", "roles"} : Authorize(p, step, u)
          \/ BlockUser(p) \/ UnblockUser(p) \/ SetAdminRoles(p)
          \/ ErrorResponse(p) \/ Fail(p)
    \/ \E u \in Users : LockLapses(u) \/ IndexExpires(u)
    \/ \E t \in Tokens : TokenExpires(t)
    \/ \E s \in Sids : AbsoluteTimeEnds(s) \/ SessionExpires(s)

Spec == Init /\ [][Next]_vars

-----------------------------------------------------------------------------
(* What accounts promise.                                                   *)

(* No request is admitted on a session whose login read the account before  *)
(* the password was changed or reset or the account was blocked, although a *)
(* request that was under way may save the session again after the          *)
(* revocation, a login may save one it began before, the index may miss     *)
(* one, and the revocation may fail half-way; nor on one that ended by a    *)
(* logout no other request overlapped (authMiddleware, RedisSessionStore).  *)
DeadSessionsRefused == [][
    \A p \in Processes :
        At(p, "auth") /\ proc'[p].at = "serving" => proc[p].sid \notin dead]_vars

(* A lock is lifted before its time only by an administrator or by a login  *)
(* with the right password that read the account before it was locked       *)
(* (LoginService).                                                          *)
LockIsKept == [][
    \A u \in Users : account[u].lock = "locked" /\ account'[u].lock = "none" =>
        \E p \in Processes :
            /\ proc'[p] # proc[p]
            /\ \/ At(p, "unblock") /\ proc[p].target = u
               \/ At(p, "reset") /\ proc[p].user = u /\ proc[p].lock # "locked"]_vars

(* However many guesses are sent at once, an account takes no more wrong    *)
(* ones than the limit and those that read it before it was locked, once    *)
(* and again each time the lock lapses; and it is locked, or was, exactly   *)
(* when the limit is reached (the UPDATE of LoginService).                  *)
GuessesBounded ==
    \A u \in Users :
        /\ account[u].attempts <= MaxFailed - 1 + Cardinality(Processes) * (1 + lapses[u])
        /\ account[u].lock # "none" <=> account[u].attempts >= MaxFailed

(* A token changes the password once, or once for each request that read it *)
(* before the first of them committed (usedAt is written unconditionally):  *)
(* no later request adds to them.                                           *)
TokenSpentOnce ==
    \A t \in Tokens :
        LET reads == {p \in Processes : At(p, "confirm") /\ proc[p].token = t}
        IN  token[t].spent + Cardinality(reads) <= Cardinality(Processes)

(* The last administrator loses the role only to someone who held one when  *)
(* the request was authorized and no longer does (setAdminRoles).           *)
AdminsRemain == [][
    admins # {} /\ admins' = {} =>
        \E p \in Processes : At(p, "roles") /\ proc[p].user \notin admins]_vars
=============================================================================
