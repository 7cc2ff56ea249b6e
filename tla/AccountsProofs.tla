--------------------------- MODULE AccountsProofs ---------------------------
(***************************************************************************)
(* Proofs about Accounts, for any number of users, sessions, tokens and    *)
(* concurrent requests: the types, that no session that is dead admits a   *)
(* request, whatever order Redis and PostgreSQL are written in, who lifts  *)
(* a lock, who takes the last administrator role, and how often a token is *)
(* spent and a password guessed.                                           *)
(***************************************************************************)
EXTENDS Accounts, FiniteSetTheorems, TLAPS

(* What is known of a request. It runs on the session of its user and with  *)
(* a version that was the account's once; on a session that is dead the     *)
(* version is an earlier one, unless the request is the logout that ended   *)
(* it, which saves nothing any more.                                        *)
Sound(r, acc, tok, own, dd) ==
    /\ r.at = "idle" => r.sid = None
    /\ r.at \in {"auth", "serving", "set", "sadd", "changeWrite", "block", "unblock", "roles"}
         => r.sid # None
    /\ r.then # "idle" \/ r.at = "reset" => r.sid # None
    /\ r.at = "reset" => r.lock # "locked"
    /\ r.at \in {"members", "block", "unblock", "roles"} => r.target \in Users
    /\ r.at \in {"changeWrite", "confirm"} => r.secret \in Passwords
    /\ r.at \in {"createToken", "mail", "confirm"} => r.token \in Tokens
    /\ r.at \in {"wrong", "reset", "createToken"} => r.user \in Users
    /\ r.at = "confirm" => tok[r.token].user \in Users
    /\ r.logout => /\ r.at \in {"get", "del", "srem"} /\ r.then = "idle"
                   /\ r.gone = r.sid /\ r.gone \in Sids
    /\ r.sid # None =>
          /\ r.user \in Users /\ own[r.sid] = r.user
          /\ r.version <= acc[r.user].version
          /\ r.sid \in dd /\ ~r.logout => r.version < acc[r.user].version

(* What is known of the key of a session.                                   *)
Kept(s, v, acc, own, dd) ==
    /\ v # None => own[s] \in Users /\ v <= acc[own[s]].version
    /\ s \in dd => own[s] \in Users /\ (v # None => v < acc[own[s]].version)

Inv ==
    /\ TypeOK
    /\ \A q \in Processes : Sound(proc[q], account, token, owner, dead)
    /\ \A s \in Sids : Kept(s, store[s], account, owner, dead)

-----------------------------------------------------------------------------
LEMMA InitInv == Init => Inv
  <1> SUFFICES ASSUME Init PROVE Inv
    OBVIOUS
  <1>1. Idle \in Process
    BY DEF Idle, Process, Steps, Locks
  <1>2. TypeOK
    BY <1>1, AccountsAssumption DEF Init, TypeOK, Account, Token, Locks
  <1>3. Sound(Idle, account, token, owner, dead)
    BY DEF Sound, Idle
  <1>4. \A q \in Processes : Sound(proc[q], account, token, owner, dead)
    BY <1>3 DEF Init
  <1>5. \A s \in Sids : Kept(s, store[s], account, owner, dead)
    BY DEF Init, Kept
  <1> QED BY <1>2, <1>4, <1>5 DEF Inv

(* A step of one process, in which versions, owners, dead sessions and the  *)
(* users of tokens stay.                                                    *)
LEMMA ProcessStep ==
  ASSUME Inv, TypeOK',
         NEW p \in Processes, NEW r \in Process,
         proc' = [proc EXCEPT ![p] = r],
         \A u \in Users : account'[u].version = account[u].version,
         \A t \in Tokens : token[t].user \in Users => token'[t].user \in Users,
         UNCHANGED <<owner, dead>>,
         Sound(r, account, token, owner, dead),
         \A s \in Sids : Kept(s, store'[s], account, owner, dead)
  PROVE  Inv'
  <1>1. \A q \in Processes : Sound(proc'[q], account, token, owner, dead)
    BY DEF Inv, TypeOK
  <1>2. \A q \in Processes : Sound(proc'[q], account', token', owner', dead')
    <2> SUFFICES ASSUME NEW q \in Processes
                 PROVE  Sound(proc'[q], account', token', owner', dead')
      OBVIOUS
    <2>1. Sound(proc'[q], account, token, owner, dead)
      BY <1>1
    <2> QED BY <2>1 DEF Sound
  <1>3. \A s \in Sids : Kept(s, store'[s], account', owner', dead')
    BY DEF Kept
  <1> QED BY <1>2, <1>3 DEF Inv

(* A step that gives the account u a new version: every session of u is     *)
(* dead from then on, and the versions requests and keys hold are earlier.  *)
LEMMA VersionStep ==
  ASSUME Inv, TypeOK',
         NEW p \in Processes, NEW r \in Process, NEW u \in Users,
         proc' = [proc EXCEPT ![p] = r],
         \A x \in Users \ {u} : account'[x].version = account[x].version,
         account'[u].version = account[u].version + 1,
         \A t \in Tokens : token'[t].user = token[t].user,
         dead' = dead \cup {s \in Sids : owner[s] = u},
         UNCHANGED <<owner, store>>,
         Sound(r, account, token, owner, dead)
  PROVE  Inv'
  <1>1. \A x \in Users : account[x].version \in Nat
    BY DEF Inv, TypeOK, Account
  <1>2. \A q \in Processes : Sound(proc'[q], account, token, owner, dead)
    BY DEF Inv, TypeOK
  <1>3. \A q \in Processes : Sound(proc'[q], account', token', owner', dead')
    <2> SUFFICES ASSUME NEW q \in Processes
                 PROVE  Sound(proc'[q], account', token', owner', dead')
      OBVIOUS
    <2>1. Sound(proc'[q], account, token, owner, dead)
      BY <1>2
    <2>2. proc'[q] \in Process
      BY DEF TypeOK
    <2>3. proc'[q].version \in Nat /\ proc'[q].token \in Tokens \cup {None}
          /\ proc'[q].sid \in Sids \cup {None}
      BY <2>2 DEF Process
    <2>4. proc'[q].at = "confirm" => token'[proc'[q].token].user \in Users
      BY <2>1 DEF Sound
    <2>5. proc'[q].sid # None =>
            /\ proc'[q].user \in Users /\ owner[proc'[q].sid] = proc'[q].user
            /\ proc'[q].version <= account'[proc'[q].user].version
            /\ proc'[q].sid \in dead' /\ ~proc'[q].logout
                 => proc'[q].version < account'[proc'[q].user].version
      <3> SUFFICES ASSUME proc'[q].sid # None
                   PROVE  /\ proc'[q].user \in Users /\ owner[proc'[q].sid] = proc'[q].user
                          /\ proc'[q].version <= account'[proc'[q].user].version
                          /\ proc'[q].sid \in dead' /\ ~proc'[q].logout
                               => proc'[q].version < account'[proc'[q].user].version
        OBVIOUS
      <3>1. /\ proc'[q].user \in Users /\ owner[proc'[q].sid] = proc'[q].user
            /\ proc'[q].version <= account[proc'[q].user].version
            /\ proc'[q].sid \in dead /\ ~proc'[q].logout
                 => proc'[q].version < account[proc'[q].user].version
        BY <2>1 DEF Sound
      <3>2. CASE proc'[q].user = u
        BY <3>1, <3>2, <2>3, <1>1
      <3>3. CASE proc'[q].user # u
        BY <3>1, <3>3, <2>3, <1>1
      <3> QED BY <3>2, <3>3
    <2> QED BY <2>1, <2>4, <2>5 DEF Sound
  <1>4. ASSUME NEW s \in Sids PROVE Kept(s, store'[s], account', owner', dead')
    <2>1. Kept(s, store[s], account, owner, dead)
      BY DEF Inv
    <2>2. store[s] \in Nat \cup {None}
      BY DEF Inv, TypeOK
    <2>3. CASE owner[s] = u
      BY <2>1, <2>2, <2>3, <1>1, AccountsAssumption DEF Kept
    <2>4. CASE owner[s] # u
      BY <2>1, <2>2, <2>4, <1>1, AccountsAssumption DEF Kept
    <2> QED BY <2>3, <2>4
  <1> QED BY <1>3, <1>4 DEF Inv

(* A step that only moves one request.                                      *)
LEMMA MoveStep ==
  ASSUME Inv, NEW p \in Processes, NEW r \in Process,
         proc' = [proc EXCEPT ![p] = r],
         UNCHANGED <<database, redis, ghosts>>,
         Sound(r, account, token, owner, dead)
  PROVE  Inv'
  <1>1. TypeOK'
    BY DEF Inv, TypeOK, database, redis, ghosts
  <1>2. UNCHANGED <<account, token, owner, dead, store>>
    BY DEF database, redis, ghosts
  <1> QED BY <1>1, <1>2, ProcessStep DEF Inv

(* What the invariant says of one request.                                  *)
LEMMA RequestFacts ==
  ASSUME Inv, NEW p \in Processes
  PROVE  /\ proc[p] \in Process
         /\ Sound(proc[p], account, token, owner, dead)
         /\ Idle \in Process
         /\ Sound(Idle, account, token, owner, dead)
  BY DEF Inv, TypeOK, Sound, Idle, Process, Steps, Locks

(* An UPDATE of one account that leaves its version.                        *)
LEMMA AccountChange ==
  ASSUME NEW u \in Users, NEW row \in Account, NEW acc \in [Users -> Account],
         row.version = acc[u].version
  PROVE  /\ [acc EXCEPT ![u] = row] \in [Users -> Account]
         /\ \A x \in Users : [acc EXCEPT ![u] = row][x].version = acc[x].version
  OBVIOUS

(* A counter and a lock may be written to an account.                       *)
LEMMA RowChange ==
  ASSUME NEW row \in Account, NEW n \in Nat, NEW lock \in Locks
  PROVE  /\ [row EXCEPT !.attempts = n, !.lock = lock] \in Account
         /\ [row EXCEPT !.attempts = n, !.lock = lock].version = row.version
  BY DEF Account

-----------------------------------------------------------------------------
(* Login.                                                                   *)

(* An account that is read is not one of a session: nothing is promised of  *)
(* a wrong attempt but its type.                                            *)
LEMMA LoginWrongReadInv ==
  ASSUME Inv, NEW p \in Processes, NEW u \in Users, LoginWrongRead(p, u)
  PROVE  Inv'
  <1> DEFINE r == [Idle EXCEPT !.at = "wrong", !.user = u]
  <1>1. r \in Process
    BY RequestFacts DEF Process, Steps, Idle
  <1>2. Sound(r, account, token, owner, dead)
    BY DEF Sound, Idle
  <1>3. proc' = [proc EXCEPT ![p] = r] /\ UNCHANGED <<database, redis, ghosts>>
    BY DEF LoginWrongRead, Begin
  <1> QED BY <1>1, <1>2, <1>3, MoveStep

(* The attempts and the lock of an account may change, its version stays.   *)
LEMMA LoginWrongInv ==
  ASSUME Inv, NEW p \in Processes, LoginWrong(p)
  PROVE  Inv'
  <1>1. proc' = [proc EXCEPT ![p] = Idle]
    BY DEF LoginWrong
  <1>2. account' \in [Users -> Account]
        /\ \A u \in Users : account'[u].version = account[u].version
    <2> DEFINE u == proc[p].user
               lock == IF account[u].attempts + 1 >= MaxFailed THEN "locked"
                       ELSE account[u].lock
               row == [account[u] EXCEPT !.attempts = @ + 1, !.lock = lock]
    <2>1. u \in Users
      BY RequestFacts DEF LoginWrong, At, Sound
    <2>2. account[u] \in Account
      BY <2>1 DEF Inv, TypeOK
    <2>3. lock \in Locks
      BY <2>2 DEF Account, Locks
    <2>4. row \in Account /\ row.version = account[u].version
      <3>1. account[u].attempts + 1 \in Nat
        BY <2>2 DEF Account
      <3> QED BY <2>2, <2>3, <3>1, RowChange
    <2>5. account' = [account EXCEPT ![u] = row]
      BY DEF LoginWrong
    <2> QED BY <2>1, <2>4, <2>5, AccountChange DEF Inv, TypeOK
  <1>3. UNCHANGED <<admins, token, lapses, store, index, expired, owner, dead>>
    BY DEF LoginWrong, redis, ghosts
  <1>4. TypeOK'
    BY <1>1, <1>2, <1>3, RequestFacts DEF Inv, TypeOK
  <1> QED BY <1>1, <1>2, <1>3, <1>4, RequestFacts, ProcessStep DEF Inv

(* The request of a login.                                                  *)
LEMMA LoginRequest ==
  ASSUME NEW u \in Users, NEW s \in Sids, NEW old \in Sids \cup {None},
         NEW version \in Nat, NEW lock \in Locks, NEW at \in Steps
  PROVE  [Idle EXCEPT !.user = u, !.sid = s, !.gone = old, !.then = "set",
            !.version = version, !.lock = lock, !.at = at] \in Process
  BY DEF Process, Idle

(* A session that is begun has no owner yet, so it is no dead one.          *)
LEMMA LoginReadInv ==
  ASSUME Inv, NEW p \in Processes, NEW u \in Users, NEW s \in Sids,
         NEW old \in Sids \cup {None}, LoginRead(p, u, s, old)
  PROVE  Inv'
  <1> DEFINE at == IF NeedsReset(u) THEN "reset" ELSE AfterLogin(old)
             r == [Idle EXCEPT !.user = u, !.sid = s, !.gone = old, !.then = "set",
                     !.version = account[u].version, !.lock = account[u].lock,
                     !.at = at]
  <1>1. account[u].version \in Nat /\ account[u].lock \in Locks \ {"locked"}
    BY DEF LoginRead, LoginAllowed, Inv, TypeOK, Account
  <1>2. r \in Process
    <2>1. at \in Steps
      BY DEF Steps, AfterLogin
    <2> QED BY <1>1, <2>1, LoginRequest
  <1>3. proc' = [proc EXCEPT ![p] = r]
    BY DEF LoginRead, Begin, Idle
  <1>4. owner[s] = None /\ owner' = [owner EXCEPT ![s] = u]
        /\ UNCHANGED <<account, admins, token, lapses, store, index, expired, dead>>
    BY DEF LoginRead, database, redis
  <1>5. TypeOK'
    BY <1>2, <1>3, <1>4 DEF Inv, TypeOK
  <1>6. s \notin dead /\ store[s] = None
    BY <1>4, AccountsAssumption DEF Inv, Kept
  <1>7. \A q \in Processes : Sound(proc'[q], account', token', owner', dead')
    <2> SUFFICES ASSUME NEW q \in Processes
                 PROVE  Sound(proc'[q], account, token, owner', dead)
      BY <1>4
    <2>1. CASE q = p
      <3>1. proc'[q] = r
        BY <1>3, <2>1 DEF Inv, TypeOK
      <3>2. owner'[s] = u
        BY <1>4 DEF Inv, TypeOK
      <3>3. Sound(r, account, token, owner', dead)
        BY <1>1, <1>6, <3>2, AccountsAssumption DEF Sound, Idle, AfterLogin
      <3> QED BY <3>1, <3>3
    <2>2. CASE q # p
      <3>1. proc'[q] = proc[q]
        BY <1>3, <2>2 DEF Inv, TypeOK
      <3>2. Sound(proc[q], account, token, owner, dead) /\ proc[q] \in Process
        BY RequestFacts
      <3>3. proc[q].sid # None => proc[q].sid # s /\ proc[q].sid \in Sids
        BY <1>4, <3>2, AccountsAssumption DEF Sound, Process
      <3>4. proc[q].sid # None => owner'[proc[q].sid] = owner[proc[q].sid]
        BY <1>4, <3>3 DEF Inv, TypeOK
      <3> QED BY <3>1, <3>2, <3>4 DEF Sound
    <2> QED BY <2>1, <2>2
  <1>8. \A x \in Sids : Kept(x, store'[x], account', owner', dead')
    BY <1>4, <1>6 DEF Inv, TypeOK, Kept
  <1> QED BY <1>5, <1>7, <1>8 DEF Inv

(* The reset of the counter goes on with the session of the login.          *)
LEMMA LoginResetInv ==
  ASSUME Inv, NEW p \in Processes, LoginReset(p)
  PROVE  Inv'
  <1> DEFINE r == [proc[p] EXCEPT !.at = AfterLogin(proc[p].gone)]
  <1>1. r \in Process
    BY RequestFacts DEF Process, Steps, AfterLogin
  <1>2. proc' = [proc EXCEPT ![p] = r]
    BY DEF LoginReset, Go
  <1>3. account' \in [Users -> Account]
        /\ \A u \in Users : account'[u].version = account[u].version
    <2> DEFINE u == proc[p].user
               row == [account[u] EXCEPT !.attempts = 0, !.lock = "none"]
    <2>1. u \in Users
      BY RequestFacts DEF LoginReset, At, Sound
    <2>2. row \in Account /\ row.version = account[u].version
      BY <2>1 DEF Inv, TypeOK, Account, Locks
    <2>3. account' = [account EXCEPT ![u] = row]
      BY DEF LoginReset
    <2> QED BY <2>1, <2>2, <2>3, AccountChange DEF Inv, TypeOK
  <1>4. UNCHANGED <<admins, token, lapses, store, index, expired, owner, dead>>
    BY DEF LoginReset, redis, ghosts
  <1>5. TypeOK'
    BY <1>1, <1>2, <1>3, <1>4 DEF Inv, TypeOK
  <1>6. Sound(r, account, token, owner, dead)
    BY RequestFacts DEF LoginReset, At, Sound, Process, AfterLogin
  <1> QED BY <1>1, <1>2, <1>3, <1>4, <1>5, <1>6, ProcessStep DEF Inv

-----------------------------------------------------------------------------
(* The session store.                                                       *)

(* The ways a request goes on keep its type.                                *)
LEMMA GoesOn ==
  ASSUME NEW r \in Process, NEW step \in Steps
  PROVE  [r EXCEPT !.at = step] \in Process
  BY DEF Process

LEMMA GoesOnFound ==
  ASSUME NEW r \in Process, NEW step \in Steps, NEW found \in BOOLEAN
  PROVE  [r EXCEPT !.at = step, !.found = found] \in Process
  BY DEF Process

LEMMA GoesOnWithIds ==
  ASSUME NEW r \in Process, NEW step \in Steps, NEW ids \in SUBSET Sids
  PROVE  [r EXCEPT !.at = step, !.ids = ids] \in Process
  BY DEF Process

LEMMA GoesOnWithSecret ==
  ASSUME NEW r \in Process, NEW step \in Steps, NEW secret \in Passwords
  PROVE  [r EXCEPT !.at = step, !.secret = secret] \in Process
  BY DEF Process

LEMMA GoesOnWithTarget ==
  ASSUME NEW r \in Process, NEW step \in Steps, NEW u \in Users,
         NEW then \in {"idle", "set", "get"}
  PROVE  [r EXCEPT !.at = step, !.target = u, !.then = then] \in Process
  BY DEF Process

LEMMA GoesThen ==
  ASSUME NEW r \in Process
  PROVE  [r EXCEPT !.at = r.then, !.then = "idle"] \in Process
  <1>1. r.then \in Steps
    BY DEF Process, Steps
  <1>2. ASSUME NEW step \in Steps
        PROVE  [r EXCEPT !.at = step, !.then = "idle"] \in Process
    BY DEF Process
  <1> QED BY <1>1, <1>2

(* A session is saved with the version of the request: on a dead session    *)
(* that is one which no longer admits.                                      *)
LEMMA PersistKeyInv ==
  ASSUME Inv, NEW p \in Processes, PersistKey(p)
  PROVE  Inv'
  <1> DEFINE r == [proc[p] EXCEPT !.at = "sadd"]
  <1>1. r \in Process
    BY RequestFacts DEF Process, Steps
  <1>2. proc' = [proc EXCEPT ![p] = r]
    BY DEF PersistKey, Go
  <1>3. store' = [store EXCEPT ![proc[p].sid] = proc[p].version]
        /\ UNCHANGED <<account, admins, token, lapses, index, expired, owner, dead>>
    BY DEF PersistKey, database, ghosts
  <1>4. proc[p].version \in Nat /\ proc[p].sid \in Sids \cup {None}
    BY RequestFacts DEF Process
  <1>5. TypeOK'
    BY <1>1, <1>2, <1>3, <1>4 DEF Inv, TypeOK
  <1>6. proc[p].at = "set" /\ ~proc[p].logout
    BY RequestFacts DEF PersistKey, At, Sound
  <1>7. Sound(r, account, token, owner, dead)
    BY <1>6, RequestFacts DEF Sound, Process
  <1>8. ASSUME NEW s \in Sids PROVE Kept(s, store'[s], account, owner, dead)
    <2>1. CASE s = proc[p].sid
      <3>1. store'[s] = proc[p].version
        BY <1>3, <2>1 DEF Inv, TypeOK
      <3>2. s # None
        BY AccountsAssumption
      <3>3. /\ owner[s] \in Users /\ proc[p].version <= account[owner[s]].version
            /\ s \in dead => proc[p].version < account[owner[s]].version
        BY <1>6, <2>1, <3>2, RequestFacts DEF Sound
      <3> QED BY <3>1, <3>3 DEF Kept
    <2>2. CASE s # proc[p].sid
      BY <1>3, <2>2 DEF Inv, TypeOK
    <2> QED BY <2>1, <2>2
  <1> QED BY <1>1, <1>2, <1>3, <1>5, <1>7, <1>8, ProcessStep

(* The index of a user may change in any way: the invariant does not rest   *)
(* on it, as the authentication does not.                                   *)
LEMMA IndexStep ==
  ASSUME Inv, NEW p \in Processes, NEW r \in Process,
         proc' = [proc EXCEPT ![p] = r],
         index' \in [Users -> SUBSET Sids],
         UNCHANGED <<database, store, expired, ghosts>>,
         Sound(r, account, token, owner, dead)
  PROVE  Inv'
  <1>1. UNCHANGED <<account, admins, token, lapses, owner, dead, store, expired>>
    BY DEF database, ghosts
  <1>2. TypeOK'
    BY <1>1 DEF Inv, TypeOK
  <1> QED BY <1>1, <1>2, ProcessStep DEF Inv

LEMMA PersistIndexInv ==
  ASSUME Inv, NEW p \in Processes, PersistIndex(p)
  PROVE  Inv'
  <1>1. proc[p].sid \in Sids \cup {None}
    BY RequestFacts DEF Process
  <1>2. proc[p].sid # None
    BY RequestFacts DEF PersistIndex, At, Sound
  <1>3. index' \in [Users -> SUBSET Sids]
    BY <1>1, <1>2 DEF PersistIndex, Inv, TypeOK
  <1>4. proc' = [proc EXCEPT ![p] = Idle] /\ UNCHANGED <<database, store, expired, ghosts>>
    BY DEF PersistIndex
  <1> QED BY <1>3, <1>4, RequestFacts, IndexStep

LEMMA RemoveReadInv ==
  ASSUME Inv, NEW p \in Processes, RemoveRead(p)
  PROVE  Inv'
  <1> DEFINE r == [proc[p] EXCEPT !.at = "del", !.found = Live(proc[p].gone)]
  <1>1. Live(proc[p].gone) \in BOOLEAN
    BY DEF Live
  <1>2. r \in Process
    <2>1. "del" \in Steps
      BY DEF Steps
    <2> QED BY <1>1, <2>1, RequestFacts, GoesOnFound
  <1>3. Sound(r, account, token, owner, dead)
    BY RequestFacts DEF RemoveRead, At, Sound, Process
  <1>4. proc' = [proc EXCEPT ![p] = r] /\ UNCHANGED <<database, redis, ghosts>>
    BY DEF RemoveRead
  <1> QED BY <1>2, <1>3, <1>4, MoveStep

(* A logout makes its session a dead one when no other request holds it:    *)
(* none is left to save it again.                                           *)
LEMMA RemoveKeyInv ==
  ASSUME Inv, NEW p \in Processes, RemoveKey(p)
  PROVE  Inv'
  <1> DEFINE s == proc[p].gone
             r == IF proc[p].found THEN [proc[p] EXCEPT !.at = "srem"]
                  ELSE IF proc[p].then = "idle" THEN Idle
                  ELSE [proc[p] EXCEPT !.at = proc[p].then, !.then = "idle"]
  <1>1. r \in Process
    <2>1. "srem" \in Steps
      BY DEF Steps
    <2> QED BY <2>1, RequestFacts, GoesOn, GoesThen
  <1>2. proc' = [proc EXCEPT ![p] = r]
    BY DEF RemoveKey, Go, Then
  <1>3. store' = [store EXCEPT ![s] = None]
        /\ UNCHANGED <<account, admins, token, lapses, index, expired, owner>>
    BY DEF RemoveKey, database
  <1>4. proc[p].at = "del"
    BY DEF RemoveKey, At
  <1>5. dead' = dead \/ /\ proc[p].logout /\ dead' = dead \cup {s}
                        /\ \A q \in Processes \ {p} : ~Holds(q, s)
    BY DEF RemoveKey
  <1>6. proc[p].logout => s \in Sids /\ s = proc[p].sid /\ proc[p].then = "idle"
    BY RequestFacts DEF Sound
  <1>7. TypeOK'
    BY <1>1, <1>2, <1>3, <1>5, <1>6 DEF Inv, TypeOK
  <1>8. Sound(r, account, token, owner, dead)
    <2>1. CASE r = Idle
      BY <2>1, RequestFacts
    <2>2. CASE r # Idle
      BY <1>4, <1>6, <2>2, RequestFacts DEF Sound, Process
    <2> QED BY <2>1, <2>2
  <1>9. \A x \in Sids : Kept(x, store'[x], account, owner, dead)
    BY <1>3 DEF Inv, TypeOK, Kept
  <1>10. CASE dead' = dead
    BY <1>1, <1>2, <1>3, <1>7, <1>8, <1>9, <1>10, ProcessStep
  <1>11. CASE proc[p].logout /\ dead' = dead \cup {s}
              /\ \A q \in Processes \ {p} : ~Holds(q, s)
    <2>1. s \in Sids /\ s # None /\ s = proc[p].sid /\ owner[s] \in Users
      BY <1>6, <1>11, RequestFacts, AccountsAssumption DEF Sound
    <2>2. \A x \in Sids : Kept(x, store'[x], account, owner, dead')
      BY <1>3, <1>9, <1>11, <2>1 DEF Inv, TypeOK, Kept
    <2>3. ASSUME NEW q \in Processes
          PROVE  Sound(proc'[q], account, token, owner, dead')
      <3>1. CASE q = p
        <4>1. proc'[q] = r /\ (r = Idle \/ r.logout)
          BY <1>2, <1>11, <3>1, RequestFacts DEF Inv, TypeOK, Process
        <4>2. CASE r = Idle
          <5>1. Sound(Idle, account, token, owner, dead')
            BY DEF Sound, Idle
          <5> QED BY <4>1, <4>2, <5>1
        <4>3. CASE r.logout
          BY <4>1, <4>3, <1>8 DEF Sound
        <4> QED BY <4>1, <4>2, <4>3
      <3>2. CASE q # p
        <4>1. proc'[q] = proc[q] /\ Sound(proc[q], account, token, owner, dead)
          BY <1>2, <3>2, RequestFacts DEF Inv, TypeOK
        <4>2. proc[q].sid # s
          BY <1>11, <2>1, <3>2, <4>1 DEF Holds, At, Sound
        <4> QED BY <1>11, <4>1, <4>2 DEF Sound
      <3> QED BY <3>1, <3>2
    <2> QED BY <1>3, <1>7, <2>2, <2>3 DEF Inv
  <1> QED BY <1>5, <1>10, <1>11

LEMMA RemoveIndexInv ==
  ASSUME Inv, NEW p \in Processes, RemoveIndex(p)
  PROVE  Inv'
  <1> DEFINE r == IF proc[p].then = "idle" THEN Idle
                  ELSE [proc[p] EXCEPT !.at = proc[p].then, !.then = "idle"]
  <1>1. r \in Process
    BY RequestFacts, GoesThen
  <1>2. proc' = [proc EXCEPT ![p] = r] /\ UNCHANGED <<database, store, expired, ghosts>>
    BY DEF RemoveIndex, Then
  <1>3. index' \in [Users -> SUBSET Sids]
    BY DEF RemoveIndex, Inv, TypeOK
  <1>4. Sound(r, account, token, owner, dead)
    BY RequestFacts DEF RemoveIndex, At, Sound, Process
  <1> QED BY <1>1, <1>2, <1>3, <1>4, IndexStep

LEMMA RevokeReadInv ==
  ASSUME Inv, NEW p \in Processes, RevokeRead(p)
  PROVE  Inv'
  <1> DEFINE r == [proc[p] EXCEPT !.at = "delSessions", !.ids = index[proc[p].target]]
  <1>1. index[proc[p].target] \in SUBSET Sids
    BY RequestFacts DEF RevokeRead, At, Sound, Inv, TypeOK
  <1>2. r \in Process
    <2>1. "delSessions" \in Steps
      BY DEF Steps
    <2> QED BY <1>1, <2>1, RequestFacts, GoesOnWithIds
  <1>3. Sound(r, account, token, owner, dead)
    BY RequestFacts DEF RevokeRead, At, Sound, Process
  <1>4. proc' = [proc EXCEPT ![p] = r] /\ UNCHANGED <<database, redis, ghosts>>
    BY DEF RevokeRead
  <1> QED BY <1>2, <1>3, <1>4, MoveStep

LEMMA RevokeKeysInv ==
  ASSUME Inv, NEW p \in Processes, RevokeKeys(p)
  PROVE  Inv'
  <1> DEFINE r == [proc[p] EXCEPT !.at = "delIndex"]
  <1>1. r \in Process
    BY RequestFacts DEF Process, Steps
  <1>2. proc' = [proc EXCEPT ![p] = r]
    BY DEF RevokeKeys, Go
  <1>3. store' = [s \in Sids |-> IF s \in proc[p].ids THEN None ELSE store[s]]
        /\ UNCHANGED <<account, admins, token, lapses, index, expired, owner, dead>>
    BY DEF RevokeKeys, database, ghosts
  <1>4. TypeOK'
    BY <1>1, <1>2, <1>3 DEF Inv, TypeOK
  <1>5. Sound(r, account, token, owner, dead)
    BY RequestFacts DEF RevokeKeys, At, Sound, Process
  <1>6. \A s \in Sids : Kept(s, store'[s], account, owner, dead)
    BY <1>3 DEF Inv, Kept
  <1> QED BY <1>1, <1>2, <1>3, <1>4, <1>5, <1>6, ProcessStep

LEMMA RevokeIndexInv ==
  ASSUME Inv, NEW p \in Processes, RevokeIndex(p)
  PROVE  Inv'
  <1> DEFINE r == IF proc[p].then = "idle" THEN Idle
                  ELSE [proc[p] EXCEPT !.at = proc[p].then, !.then = "idle"]
  <1>1. r \in Process
    BY RequestFacts, GoesThen
  <1>2. proc' = [proc EXCEPT ![p] = r] /\ UNCHANGED <<database, store, expired, ghosts>>
    BY DEF RevokeIndex, Then
  <1>3. index' \in [Users -> SUBSET Sids]
    BY DEF RevokeIndex, Inv, TypeOK
  <1>4. Sound(r, account, token, owner, dead)
    BY RequestFacts DEF RevokeIndex, At, Sound, Process
  <1> QED BY <1>1, <1>2, <1>3, <1>4, IndexStep

-----------------------------------------------------------------------------
(* Requests with a session.                                                 *)

(* A request that loads a live session takes its version.                   *)
LEMMA RequestOfSession ==
  ASSUME Inv, NEW s \in Sids, Live(s)
  PROVE  /\ Request(s) \in Process
         /\ owner[s] \in Users /\ store[s] <= account[owner[s]].version
         /\ s \in dead => store[s] < account[owner[s]].version
  <1>1. /\ store[s] \in Nat /\ owner[s] \in Users /\ store[s] <= account[owner[s]].version
        /\ s \in dead => store[s] < account[owner[s]].version
    BY DEF Inv, TypeOK, Kept, Live
  <1>2. ASSUME NEW u \in Users, NEW v \in Nat
        PROVE  [Idle EXCEPT !.user = u, !.sid = s, !.gone = s, !.version = v] \in Process
    BY DEF Process, Idle, Locks, Steps
  <1>3. Request(s) \in Process
    BY <1>1, <1>2 DEF Request
  <1> QED BY <1>1, <1>3

LEMMA LoadInv ==
  ASSUME Inv, NEW p \in Processes, NEW s \in Sids, Load(p, s)
  PROVE  Inv'
  <1> DEFINE step == IF s \in expired THEN "get" ELSE "auth"
             r == [Request(s) EXCEPT !.at = step]
  <1>1. step \in Steps /\ step \in {"auth", "get"}
    BY DEF Steps
  <1>2. r \in Process
    BY <1>1, RequestOfSession, GoesOn DEF Load
  <1>3. Sound(r, account, token, owner, dead)
    BY <1>1, RequestOfSession, AccountsAssumption DEF Load, Sound, Request, Idle
  <1>4. proc' = [proc EXCEPT ![p] = r] /\ UNCHANGED <<database, redis, ghosts>>
    BY DEF Load, Begin
  <1> QED BY <1>2, <1>3, <1>4, MoveStep

LEMMA LogoutInv ==
  ASSUME Inv, NEW p \in Processes, NEW s \in Sids, Logout(p, s)
  PROVE  Inv'
  <1> DEFINE r == [Request(s) EXCEPT !.at = "get", !.logout = TRUE]
  <1>1. r \in Process
    <2>1. ASSUME NEW base \in Process
          PROVE  [base EXCEPT !.at = "get", !.logout = TRUE] \in Process
      BY DEF Process, Steps
    <2> QED BY <2>1, RequestOfSession DEF Logout
  <1>2. Sound(r, account, token, owner, dead)
    BY RequestOfSession, AccountsAssumption DEF Logout, Sound, Request, Idle
  <1>3. proc' = [proc EXCEPT ![p] = r] /\ UNCHANGED <<database, redis, ghosts>>
    BY DEF Logout, Begin
  <1> QED BY <1>1, <1>2, <1>3, MoveStep

LEMMA AuthInv ==
  ASSUME Inv, NEW p \in Processes, Auth(p)
  PROVE  Inv'
  <1> DEFINE step == IF Admitted(proc[p].user, proc[p].version) THEN "serving" ELSE "get"
             r == [proc[p] EXCEPT !.at = step]
  <1>1. step \in Steps /\ step \in {"serving", "get"}
    BY DEF Steps
  <1>2. r \in Process
    BY <1>1, RequestFacts, GoesOn
  <1>3. Sound(r, account, token, owner, dead)
    BY <1>1, RequestFacts DEF Auth, At, Sound, Process
  <1>4. proc' = [proc EXCEPT ![p] = r] /\ UNCHANGED <<database, redis, ghosts>>
    BY DEF Auth, Go
  <1> QED BY <1>2, <1>3, <1>4, MoveStep

LEMMA EndResponseInv ==
  ASSUME Inv, NEW p \in Processes, EndResponse(p) \/ ErrorResponse(p)
  PROVE  Inv'
  <1> DEFINE r == [proc[p] EXCEPT !.at = "set"]
  <1>1. r \in Process
    BY RequestFacts, GoesOn DEF Steps
  <1>2. Sound(r, account, token, owner, dead)
    BY RequestFacts DEF EndResponse, ErrorResponse, At, Sound, Process
  <1>3. proc' = [proc EXCEPT ![p] = r] /\ UNCHANGED <<database, redis, ghosts>>
    BY DEF EndResponse, ErrorResponse, Go
  <1> QED BY <1>1, <1>2, <1>3, MoveStep

LEMMA FailInv ==
  ASSUME Inv, NEW p \in Processes, Fail(p)
  PROVE  Inv'
  BY RequestFacts, MoveStep DEF Fail

-----------------------------------------------------------------------------
(* Passwords.                                                               *)

LEMMA ChangeReadInv ==
  ASSUME Inv, NEW p \in Processes, NEW current \in Passwords, NEW secret \in Passwords,
         ChangeRead(p, current, secret)
  PROVE  Inv'
  <1> DEFINE r == [proc[p] EXCEPT !.at = "changeWrite", !.secret = secret]
  <1>1. r \in Process
    BY RequestFacts, GoesOnWithSecret DEF Steps
  <1>2. Sound(r, account, token, owner, dead)
    BY RequestFacts DEF ChangeRead, At, Sound, Process
  <1>3. proc' = [proc EXCEPT ![p] = r] /\ UNCHANGED <<database, redis, ghosts>>
    BY DEF ChangeRead
  <1> QED BY <1>1, <1>2, <1>3, MoveStep

(* A new password gives its account a new version, and no other.            *)
LEMMA PasswordChange ==
  ASSUME Inv, NEW u \in Users, NEW secret \in Passwords, SetPassword(u, secret)
  PROVE  /\ account' \in [Users -> Account]
         /\ \A x \in Users \ {u} : account'[x].version = account[x].version
         /\ account'[u].version = account[u].version + 1
  <1> DEFINE row == [account[u] EXCEPT !.password = secret, !.version = NewVersion(u)]
  <1>1. account \in [Users -> Account] /\ account[u] \in Account
    BY DEF Inv, TypeOK
  <1>2. NewVersion(u) \in Nat /\ NewVersion(u) = account[u].version + 1
    BY <1>1 DEF Account, NewVersion
  <1>3. row \in Account /\ row.version = NewVersion(u)
    <2>1. ASSUME NEW old \in Account, NEW v \in Nat
          PROVE  /\ [old EXCEPT !.password = secret, !.version = v] \in Account
                 /\ [old EXCEPT !.password = secret, !.version = v].version = v
      BY DEF Account
    <2> QED BY <1>1, <1>2, <2>1
  <1>4. account' = [account EXCEPT ![u] = row]
    BY DEF SetPassword
  <1> HIDE DEF row
  <1> QED BY <1>1, <1>2, <1>3, <1>4

LEMMA ChangeWriteInv ==
  ASSUME Inv, NEW p \in Processes, ChangeWrite(p)
  PROVE  Inv'
  <1> DEFINE u == proc[p].user
             r == [proc[p] EXCEPT !.at = "members", !.target = u, !.then = "get"]
  <1>1. u \in Users /\ proc[p].secret \in Passwords
    BY RequestFacts DEF ChangeWrite, At, Sound
  <1>2. r \in Process
    BY <1>1, RequestFacts, GoesOnWithTarget DEF Steps
  <1>3. Sound(r, account, token, owner, dead)
    BY <1>1, RequestFacts DEF ChangeWrite, At, Sound, Process
  <1>4. proc' = [proc EXCEPT ![p] = r]
    BY DEF ChangeWrite, Revoke
  <1>5. /\ SetPassword(u, proc[p].secret)
        /\ dead' = dead \cup {s \in Sids : owner[s] = u}
        /\ UNCHANGED <<admins, token, lapses, store, index, expired, owner>>
    BY DEF ChangeWrite, Outdate, redis
  <1>6. /\ account' \in [Users -> Account]
        /\ \A x \in Users \ {u} : account'[x].version = account[x].version
        /\ account'[u].version = account[u].version + 1
    BY <1>1, <1>5, PasswordChange
  <1>7. TypeOK'
    BY <1>2, <1>4, <1>5, <1>6 DEF Inv, TypeOK
  <1> QED BY <1>1, <1>2, <1>3, <1>4, <1>5, <1>6, <1>7, VersionStep

(* Only tokens change: a token keeps the user it is of.                     *)
LEMMA TokenStep ==
  ASSUME Inv, NEW p \in Processes, NEW r \in Process,
         proc' = [proc EXCEPT ![p] = r],
         token' \in [Tokens -> Token],
         \A t \in Tokens : token[t].user \in Users => token'[t].user \in Users,
         UNCHANGED <<account, admins, lapses, redis, ghosts>>,
         Sound(r, account, token, owner, dead)
  PROVE  Inv'
  <1>1. UNCHANGED <<account, admins, lapses, store, index, expired, owner, dead>>
    BY DEF redis, ghosts
  <1>2. TypeOK'
    BY <1>1 DEF Inv, TypeOK
  <1> QED BY <1>1, <1>2, ProcessStep DEF Inv

LEMMA ForgotPasswordInv ==
  ASSUME Inv, NEW p \in Processes, NEW u \in Users, NEW t \in Tokens,
         ForgotPassword(p, u, t)
  PROVE  Inv'
  <1> DEFINE r == [Idle EXCEPT !.at = "createToken", !.user = u, !.token = t]
  <1>1. r \in Process
    BY RequestFacts DEF Process, Steps, Idle
  <1>2. Sound(r, account, token, owner, dead)
    BY DEF Sound, Idle
  <1>3. /\ token' \in [Tokens -> Token]
        /\ \A x \in Tokens : token[x].user \in Users => token'[x].user \in Users
    <2>1. ASSUME NEW x \in Tokens
          PROVE  LET other == [token[x] EXCEPT !.used = TRUE]
                 IN  token[x] \in Token /\ other \in Token /\ other.user = token[x].user
      <3>1. token[x] \in Token
        BY DEF Inv, TypeOK
      <3>2. ASSUME NEW old \in Token
            PROVE  LET other == [old EXCEPT !.used = TRUE]
                   IN  other \in Token /\ other.user = old.user
        BY DEF Token
      <3> QED BY <3>1, <3>2
    <2>2. token' = [x \in Tokens |-> IF token[x].user = u
                                    THEN [token[x] EXCEPT !.used = TRUE] ELSE token[x]]
      BY DEF ForgotPassword
    <2> QED BY <2>1, <2>2
  <1>4. proc' = [proc EXCEPT ![p] = r] /\ UNCHANGED <<account, admins, lapses, redis, ghosts>>
    BY DEF ForgotPassword, Begin
  <1> QED BY <1>1, <1>2, <1>3, <1>4, TokenStep

LEMMA CreateTokenInv ==
  ASSUME Inv, NEW p \in Processes, CreateToken(p)
  PROVE  Inv'
  <1> DEFINE r == [proc[p] EXCEPT !.at = "mail"]
  <1>1. r \in Process
    BY RequestFacts, GoesOn DEF Steps
  <1>2. Sound(r, account, token, owner, dead)
    BY RequestFacts DEF CreateToken, At, Sound, Process
  <1>3. proc[p].user \in Users /\ proc[p].token \in Tokens
    BY RequestFacts DEF CreateToken, At, Sound
  <1>4. /\ token' \in [Tokens -> Token]
        /\ \A x \in Tokens : token[x].user \in Users => token'[x].user \in Users
    BY <1>3 DEF CreateToken, Inv, TypeOK, Token
  <1>5. proc' = [proc EXCEPT ![p] = r] /\ UNCHANGED <<account, admins, lapses, redis, ghosts>>
    BY DEF CreateToken, Go
  <1> QED BY <1>1, <1>2, <1>4, <1>5, TokenStep

LEMMA SendMailInv ==
  ASSUME Inv, NEW p \in Processes, SendMail(p)
  PROVE  Inv'
  <1>1. proc[p].token \in Tokens
    BY RequestFacts DEF SendMail, At, Sound
  <1>2. /\ token' \in [Tokens -> Token]
        /\ \A x \in Tokens : token[x].user \in Users => token'[x].user \in Users
    <2>1. PICK t \in Tokens : t = proc[p].token
      BY <1>1
    <2>2. token \in [Tokens -> Token] /\ token' = [token EXCEPT ![t].sent = TRUE]
      BY <2>1 DEF SendMail, Inv, TypeOK
    <2>3. token[t] \in Token
      BY <2>2
    <2>4. /\ [token[t] EXCEPT !.sent = TRUE] \in Token
          /\ [token[t] EXCEPT !.sent = TRUE].user = token[t].user
      BY <2>3 DEF Token
    <2> QED BY <2>2, <2>4
  <1>3. proc' = [proc EXCEPT ![p] = Idle]
        /\ UNCHANGED <<account, admins, lapses, redis, ghosts>>
    BY DEF SendMail
  <1> QED BY <1>2, <1>3, RequestFacts, TokenStep

(* A token that is read valid is of a user.                                 *)
LEMMA ConfirmReadInv ==
  ASSUME Inv, NEW p \in Processes, NEW t \in Tokens, NEW secret \in Passwords,
         ConfirmRead(p, t, secret)
  PROVE  Inv'
  <1> DEFINE r == [Idle EXCEPT !.at = "confirm", !.token = t, !.secret = secret]
  <1>1. r \in Process
    BY RequestFacts DEF Process, Steps, Idle
  <1>2. token[t].user \in Users
    BY DEF ConfirmRead, TokenValid, Inv, TypeOK, Token
  <1>3. Sound(r, account, token, owner, dead)
    BY <1>2 DEF Sound, Idle
  <1>4. proc' = [proc EXCEPT ![p] = r] /\ UNCHANGED <<database, redis, ghosts>>
    BY DEF ConfirmRead, Begin
  <1> QED BY <1>1, <1>3, <1>4, MoveStep

LEMMA ConfirmWriteInv ==
  ASSUME Inv, NEW p \in Processes, ConfirmWrite(p)
  PROVE  Inv'
  <1> DEFINE t == proc[p].token
             u == token[t].user
             r == [proc[p] EXCEPT !.at = "members", !.target = u, !.then = "idle"]
  <1>1. t \in Tokens /\ u \in Users /\ proc[p].secret \in Passwords
    BY RequestFacts DEF ConfirmWrite, At, Sound
  <1>2. r \in Process
    BY <1>1, RequestFacts, GoesOnWithTarget DEF Steps
  <1>3. Sound(r, account, token, owner, dead)
    BY <1>1, RequestFacts DEF ConfirmWrite, At, Sound, Process
  <1>4. proc' = [proc EXCEPT ![p] = r]
    BY DEF ConfirmWrite, Revoke
  <1>5. /\ SetPassword(u, proc[p].secret)
        /\ token' = [token EXCEPT ![t] = TokenSpent(t)]
        /\ dead' = dead \cup {s \in Sids : owner[s] = u}
        /\ UNCHANGED <<admins, lapses, store, index, expired, owner>>
    BY DEF ConfirmWrite, Outdate, redis
  <1>6. /\ account' \in [Users -> Account]
        /\ \A x \in Users \ {u} : account'[x].version = account[x].version
        /\ account'[u].version = account[u].version + 1
    BY <1>1, <1>5, PasswordChange
  <1>7. TokenSpent(t) \in Token /\ TokenSpent(t).user = u
    <2>1. token[t] \in Token /\ token[t].spent + 1 \in Nat
      BY <1>1 DEF Inv, TypeOK, Token
    <2>2. ASSUME NEW old \in Token, NEW n \in Nat
          PROVE  /\ [old EXCEPT !.used = TRUE, !.spent = n] \in Token
                 /\ [old EXCEPT !.used = TRUE, !.spent = n].user = old.user
      BY DEF Token
    <2> QED BY <2>1, <2>2 DEF TokenSpent
  <1>8. /\ token' \in [Tokens -> Token]
        /\ \A x \in Tokens : token'[x].user = token[x].user
    <2> HIDE DEF t, u
    <2>1. u = token[t].user
      BY DEF u
    <2> QED BY <1>1, <1>5, <1>7, <2>1 DEF Inv, TypeOK
  <1>9. TypeOK'
    BY <1>2, <1>4, <1>5, <1>6, <1>8 DEF Inv, TypeOK
  <1> QED BY <1>1, <1>2, <1>3, <1>4, <1>5, <1>6, <1>8, <1>9, VersionStep

-----------------------------------------------------------------------------
(* Administrators.                                                          *)

(* A target is fixed when the request is authorized.                        *)
LEMMA AuthorizeInv ==
  ASSUME Inv, NEW p \in Processes, NEW u \in Users,
         NEW step \in {"block", "unblock", "roles"}, Authorize(p, step, u)
  PROVE  Inv'
  <1> DEFINE r == [proc[p] EXCEPT !.at = step, !.target = u, !.then = "set"]
  <1>1. step \in Steps
    BY DEF Steps
  <1>2. r \in Process
    BY <1>1, RequestFacts, GoesOnWithTarget
  <1>3. Sound(r, account, token, owner, dead)
    BY RequestFacts DEF Authorize, At, Sound, Process
  <1>4. proc' = [proc EXCEPT ![p] = r] /\ UNCHANGED <<database, redis, ghosts>>
    BY DEF Authorize
  <1> QED BY <1>2, <1>3, <1>4, MoveStep

LEMMA BlockUserInv ==
  ASSUME Inv, NEW p \in Processes, BlockUser(p)
  PROVE  Inv'
  <1> DEFINE u == proc[p].target
             r == [proc[p] EXCEPT !.at = "members"]
             row == [account[u] EXCEPT !.blocked = TRUE, !.version = NewVersion(u)]
  <1>1. u \in Users
    BY RequestFacts DEF BlockUser, At, Sound
  <1>2. r \in Process
    BY RequestFacts, GoesOn DEF Steps
  <1>3. Sound(r, account, token, owner, dead)
    BY <1>1, RequestFacts DEF BlockUser, At, Sound, Process
  <1>4. proc' = [proc EXCEPT ![p] = r]
    BY DEF BlockUser, Go
  <1>5. /\ account' = [account EXCEPT ![u] = row]
        /\ dead' = dead \cup {s \in Sids : owner[s] = u}
        /\ UNCHANGED <<admins, token, lapses, store, index, expired, owner>>
    BY DEF BlockUser, Outdate, redis
  <1>6. account \in [Users -> Account] /\ account[u] \in Account
    BY <1>1 DEF Inv, TypeOK
  <1>7. row \in Account /\ row.version = account[u].version + 1
    <2>1. ASSUME NEW old \in Account, NEW v \in Nat
          PROVE  /\ [old EXCEPT !.blocked = TRUE, !.version = v] \in Account
                 /\ [old EXCEPT !.blocked = TRUE, !.version = v].version = v
      BY DEF Account
    <2>2. NewVersion(u) \in Nat /\ NewVersion(u) = account[u].version + 1
      BY <1>6 DEF Account, NewVersion
    <2> QED BY <1>6, <2>1, <2>2
  <1>8. /\ account' \in [Users -> Account]
        /\ \A x \in Users \ {u} : account'[x].version = account[x].version
        /\ account'[u].version = account[u].version + 1
    <2> HIDE DEF row, u
    <2> QED BY <1>1, <1>5, <1>6, <1>7
  <1>9. TypeOK'
    BY <1>2, <1>4, <1>5, <1>8 DEF Inv, TypeOK
  <1> QED BY <1>1, <1>2, <1>3, <1>4, <1>5, <1>8, <1>9, VersionStep

LEMMA UnblockUserInv ==
  ASSUME Inv, NEW p \in Processes, UnblockUser(p)
  PROVE  Inv'
  <1> DEFINE u == proc[p].target
             r == [proc[p] EXCEPT !.at = "set"]
             row == [account[u] EXCEPT !.blocked = FALSE, !.attempts = 0, !.lock = "none"]
  <1>1. u \in Users
    BY RequestFacts DEF UnblockUser, At, Sound
  <1>2. r \in Process
    BY RequestFacts, GoesOn DEF Steps
  <1>3. Sound(r, account, token, owner, dead)
    BY RequestFacts DEF UnblockUser, At, Sound, Process
  <1>4. proc' = [proc EXCEPT ![p] = r]
    BY DEF UnblockUser, Go
  <1>5. /\ account' = [account EXCEPT ![u] = row]
        /\ UNCHANGED <<admins, token, lapses, store, index, expired, owner, dead>>
    BY DEF UnblockUser, redis, ghosts
  <1>6. row \in Account /\ row.version = account[u].version
    <2>1. ASSUME NEW old \in Account
          PROVE  LET new == [old EXCEPT !.blocked = FALSE, !.attempts = 0, !.lock = "none"]
                 IN  new \in Account /\ new.version = old.version
      BY DEF Account, Locks
    <2>2. account[u] \in Account
      BY <1>1 DEF Inv, TypeOK
    <2> QED BY <2>1, <2>2
  <1>7. account' \in [Users -> Account]
        /\ \A x \in Users : account'[x].version = account[x].version
    BY <1>1, <1>5, <1>6, AccountChange DEF Inv, TypeOK
  <1>8. TypeOK'
    BY <1>2, <1>4, <1>5, <1>7 DEF Inv, TypeOK
  <1> QED BY <1>2, <1>3, <1>4, <1>5, <1>7, <1>8, ProcessStep DEF Inv

LEMMA SetAdminRolesInv ==
  ASSUME Inv, NEW p \in Processes, SetAdminRoles(p)
  PROVE  Inv'
  <1> DEFINE r == [proc[p] EXCEPT !.at = "set"]
  <1>1. r \in Process
    BY RequestFacts, GoesOn DEF Steps
  <1>2. Sound(r, account, token, owner, dead)
    BY RequestFacts DEF SetAdminRoles, At, Sound, Process
  <1>3. proc' = [proc EXCEPT ![p] = r]
    BY DEF SetAdminRoles, Go
  <1>4. UNCHANGED <<account, token, lapses, store, index, expired, owner, dead>>
    BY DEF SetAdminRoles, redis, ghosts
  <1>5. admins' \subseteq Users
    BY RequestFacts DEF SetAdminRoles, At, Sound, Inv, TypeOK
  <1>6. TypeOK'
    BY <1>1, <1>3, <1>4, <1>5 DEF Inv, TypeOK
  <1> QED BY <1>1, <1>2, <1>3, <1>4, <1>6, ProcessStep DEF Inv

-----------------------------------------------------------------------------
(* Time.                                                                    *)

(* A step of no request, after which no key is live that was not before.    *)
LEMMA TimeStep ==
  ASSUME Inv, TypeOK', UNCHANGED <<proc, owner, dead>>,
         \A u \in Users : account'[u].version = account[u].version,
         \A t \in Tokens : token[t].user \in Users => token'[t].user \in Users,
         \A s \in Sids : store'[s] \in {None, store[s]}
  PROVE  Inv'
  <1>1. ASSUME NEW q \in Processes
        PROVE  Sound(proc'[q], account', token', owner', dead')
    BY RequestFacts DEF Sound
  <1>2. ASSUME NEW s \in Sids PROVE Kept(s, store'[s], account', owner', dead')
    BY DEF Inv, Kept
  <1> QED BY <1>1, <1>2 DEF Inv

LEMMA LockLapsesInv ==
  ASSUME Inv, NEW u \in Users, LockLapses(u)
  PROVE  Inv'
  <1> DEFINE row == [account[u] EXCEPT !.lock = "lapsed"]
  <1>1. row \in Account /\ row.version = account[u].version
    BY DEF Inv, TypeOK, Account, Locks
  <1>2. account' = [account EXCEPT ![u] = row]
        /\ UNCHANGED <<admins, token, store, index, expired, owner, dead, proc>>
    BY DEF LockLapses, redis, ghosts
  <1>3. account' \in [Users -> Account]
        /\ \A x \in Users : account'[x].version = account[x].version
    BY <1>1, <1>2, AccountChange DEF Inv, TypeOK
  <1>4. lapses' \in [Users -> Nat]
    BY DEF LockLapses, Inv, TypeOK
  <1>5. TypeOK'
    BY <1>2, <1>3, <1>4 DEF Inv, TypeOK
  <1> QED BY <1>2, <1>3, <1>5, TimeStep

LEMMA TokenExpiresInv ==
  ASSUME Inv, NEW t \in Tokens, TokenExpires(t)
  PROVE  Inv'
  <1>1. /\ token' \in [Tokens -> Token]
        /\ \A x \in Tokens : token[x].user \in Users => token'[x].user \in Users
    BY DEF TokenExpires, Inv, TypeOK, Token
  <1>2. UNCHANGED <<account, admins, lapses, store, index, expired, owner, dead, proc>>
    BY DEF TokenExpires, redis, ghosts
  <1>3. TypeOK'
    BY <1>1, <1>2 DEF Inv, TypeOK
  <1> QED BY <1>1, <1>2, <1>3, TimeStep

LEMMA SessionTimeInv ==
  ASSUME Inv, NEW s \in Sids, AbsoluteTimeEnds(s) \/ SessionExpires(s)
  PROVE  Inv'
  <1>1. UNCHANGED <<account, admins, token, lapses, index, owner, dead, proc>>
    BY DEF AbsoluteTimeEnds, SessionExpires, database, ghosts
  <1>2. /\ store' \in [Sids -> Nat \cup {None}] /\ expired' \subseteq Sids
        /\ \A x \in Sids : store'[x] \in {None, store[x]}
    BY DEF AbsoluteTimeEnds, SessionExpires, Inv, TypeOK
  <1>3. TypeOK'
    BY <1>1, <1>2 DEF Inv, TypeOK
  <1> QED BY <1>1, <1>2, <1>3, TimeStep

LEMMA IndexExpiresInv ==
  ASSUME Inv, NEW u \in Users, IndexExpires(u)
  PROVE  Inv'
  <1>1. UNCHANGED <<account, admins, token, lapses, store, expired, owner, dead, proc>>
    BY DEF IndexExpires, database, ghosts
  <1>2. index' \in [Users -> SUBSET Sids]
    BY DEF IndexExpires, Inv, TypeOK
  <1>3. TypeOK'
    BY <1>1, <1>2 DEF Inv, TypeOK
  <1> QED BY <1>1, <1>3, TimeStep

-----------------------------------------------------------------------------
(* The theorems.                                                            *)

(* Every step keeps the invariant.                                          *)
LEMMA StepInv == Inv /\ [Next]_vars => Inv'
  <1> SUFFICES ASSUME Inv, [Next]_vars PROVE Inv'
    OBVIOUS
  <1>1. CASE UNCHANGED vars
    BY <1>1 DEF vars, Inv, TypeOK
  <1>2. CASE Next
    <2>1. ASSUME NEW p \in Processes,
                 \/ \E u \in Users : LoginWrongRead(p, u)
                 \/ \E u \in Users, s \in Sids, old \in Sids \cup {None} :
                       LoginRead(p, u, s, old)
                 \/ LoginWrong(p) \/ LoginReset(p)
          PROVE  Inv'
      BY <2>1, LoginWrongReadInv, LoginReadInv, LoginWrongInv, LoginResetInv
    <2>2. ASSUME NEW p \in Processes,
                 \/ PersistKey(p) \/ PersistIndex(p)
                 \/ RemoveRead(p) \/ RemoveKey(p) \/ RemoveIndex(p)
                 \/ RevokeRead(p) \/ RevokeKeys(p) \/ RevokeIndex(p)
          PROVE  Inv'
      BY <2>2, PersistKeyInv, PersistIndexInv, RemoveReadInv, RemoveKeyInv,
         RemoveIndexInv, RevokeReadInv, RevokeKeysInv, RevokeIndexInv
    <2>3. ASSUME NEW p \in Processes,
                 \/ \E s \in Sids : Load(p, s) \/ Logout(p, s)
                 \/ Auth(p) \/ EndResponse(p) \/ ErrorResponse(p) \/ Fail(p)
          PROVE  Inv'
      BY <2>3, LoadInv, LogoutInv, AuthInv, EndResponseInv, FailInv
    <2>4. ASSUME NEW p \in Processes,
                 \/ \E current, secret \in Passwords : ChangeRead(p, current, secret)
                 \/ ChangeWrite(p)
                 \/ \E u \in Users, t \in Tokens : ForgotPassword(p, u, t)
                 \/ CreateToken(p) \/ SendMail(p)
                 \/ \E t \in Tokens, secret \in Passwords : ConfirmRead(p, t, secret)
                 \/ ConfirmWrite(p)
          PROVE  Inv'
      BY <2>4, ChangeReadInv, ChangeWriteInv, ForgotPasswordInv, CreateTokenInv,
         SendMailInv, ConfirmReadInv, ConfirmWriteInv
    <2>5. ASSUME NEW p \in Processes,
                 \/ \E u \in Users, step \in {"block", "unblock", "roles"} :
                       Authorize(p, step, u)
                 \/ BlockUser(p) \/ UnblockUser(p) \/ SetAdminRoles(p)
          PROVE  Inv'
      BY <2>5, AuthorizeInv, BlockUserInv, UnblockUserInv, SetAdminRolesInv
    <2>6. ASSUME \/ \E u \in Users : LockLapses(u) \/ IndexExpires(u)
                 \/ \E t \in Tokens : TokenExpires(t)
                 \/ \E s \in Sids : AbsoluteTimeEnds(s) \/ SessionExpires(s)
          PROVE  Inv'
      BY <2>6, LockLapsesInv, IndexExpiresInv, TokenExpiresInv, SessionTimeInv
    <2> QED BY <1>2, <2>1, <2>2, <2>3, <2>4, <2>5, <2>6 DEF Next
  <1> QED BY <1>1, <1>2

(* The variables keep their types.                                          *)
THEOREM TypeCorrect == Spec => []TypeOK
  <1>1. Inv => TypeOK
    BY DEF Inv
  <1> QED BY <1>1, InitInv, StepInv, PTL DEF Spec

(* A request is admitted by no step but its own Auth.                       *)
LEMMA OnlyAuthAdmits ==
  ASSUME Inv, Next, NEW q \in Processes, At(q, "auth"), proc'[q].at = "serving"
  PROVE  Auth(q)
  <1>1. proc'[q] # proc[q] /\ proc[q].at = "auth"
    BY DEF At
  <1>2. ASSUME NEW p \in Processes, NEW r, proc' = [proc EXCEPT ![p] = r]
        PROVE  p = q /\ r.at = "serving"
    BY <1>1, <1>2 DEF Inv, TypeOK
  <1>3. ASSUME NEW p \in Processes, At(p, "idle"), NEW r, Begin(p, r)
        PROVE  FALSE
    BY <1>1, <1>2, <1>3 DEF Begin, At
  <1>4. ASSUME NEW p \in Processes, NEW step, step # "serving", Go(p, step)
        PROVE  FALSE
    <2>1. proc' = [proc EXCEPT ![p] = [proc[p] EXCEPT !.at = step]]
      BY <1>4 DEF Go
    <2>2. [proc[p] EXCEPT !.at = step].at = step
      BY RequestFacts DEF Process
    <2> QED BY <1>2, <1>4, <2>1, <2>2
  <1>5. ASSUME NEW p \in Processes, proc[p].at # "auth",
               \E r : proc' = [proc EXCEPT ![p] = r]
        PROVE  FALSE
    BY <1>1, <1>2, <1>5
  <1>6. ASSUME NEW p \in Processes, proc' = [proc EXCEPT ![p] = Idle]
        PROVE  FALSE
    <2>1. Idle.at # "serving"
      BY DEF Idle
    <2> QED BY <1>2, <1>6, <2>1
  <1>7. ASSUME NEW p \in Processes,
               \/ \E u \in Users : LoginWrongRead(p, u)
               \/ \E u \in Users, s \in Sids, old \in Sids \cup {None} :
                     LoginRead(p, u, s, old)
               \/ \E s \in Sids : Load(p, s) \/ Logout(p, s)
               \/ \E u \in Users, t \in Tokens : ForgotPassword(p, u, t)
               \/ \E t \in Tokens, secret \in Passwords : ConfirmRead(p, t, secret)
        PROVE  FALSE
    BY <1>3, <1>7 DEF LoginWrongRead, LoginRead, Load, Logout, ForgotPassword,
                      ConfirmRead, Begin
  <1>8. ASSUME NEW p \in Processes,
               \/ LoginReset(p) \/ PersistKey(p) \/ RevokeKeys(p) \/ EndResponse(p)
               \/ CreateToken(p) \/ BlockUser(p) \/ UnblockUser(p) \/ SetAdminRoles(p)
               \/ ErrorResponse(p)
        PROVE  FALSE
    <2>1. AfterLogin(proc[p].gone) # "serving"
      BY DEF AfterLogin
    <2> QED BY <1>4, <1>8, <2>1 DEF LoginReset, PersistKey, RevokeKeys, EndResponse,
              CreateToken, BlockUser, UnblockUser, SetAdminRoles, ErrorResponse
  <1>9. ASSUME NEW p \in Processes,
               \/ LoginWrong(p) \/ PersistIndex(p) \/ SendMail(p) \/ Fail(p)
        PROVE  FALSE
    BY <1>6, <1>9 DEF LoginWrong, PersistIndex, SendMail, Fail
  <1>10. ASSUME NEW p \in Processes,
                \/ RemoveRead(p) \/ RemoveKey(p) \/ RemoveIndex(p)
                \/ RevokeRead(p) \/ RevokeIndex(p)
                \/ \E current, secret \in Passwords : ChangeRead(p, current, secret)
                \/ ChangeWrite(p) \/ ConfirmWrite(p)
                \/ \E u \in Users, step \in {"block", "unblock", "roles"} :
                      Authorize(p, step, u)
         PROVE  FALSE
    <2>1. proc[p].at # "auth"
      BY <1>10 DEF RemoveRead, RemoveKey, RemoveIndex, RevokeRead, RevokeIndex,
           ChangeRead, ChangeWrite, ConfirmWrite, Authorize, At
    <2>2. \E r : proc' = [proc EXCEPT ![p] = r]
      BY <1>10 DEF RemoveRead, RemoveKey, RemoveIndex, RevokeRead, RevokeIndex,
           ChangeRead, ChangeWrite, ConfirmWrite, Authorize, Go, Then, Revoke
    <2> QED BY <1>5, <2>1, <2>2
  <1>11. ASSUME \/ \E u \in Users : LockLapses(u) \/ IndexExpires(u)
                \/ \E t \in Tokens : TokenExpires(t)
                \/ \E s \in Sids : AbsoluteTimeEnds(s) \/ SessionExpires(s)
         PROVE  FALSE
    BY <1>1, <1>11 DEF LockLapses, IndexExpires, TokenExpires, AbsoluteTimeEnds,
                       SessionExpires
  <1>12. ASSUME NEW p \in Processes, Auth(p) PROVE p = q
    <2>1. \E r : proc' = [proc EXCEPT ![p] = r]
      BY <1>12 DEF Auth, Go
    <2> QED BY <1>2, <2>1
  <1> QED BY <1>7, <1>8, <1>9, <1>10, <1>11, <1>12 DEF Next

(* Auth compares the version of the session with that of the account, and   *)
(* on a session that is dead the first is an earlier one.                   *)
LEMMA StepRefusesDead ==
  Inv /\ [Next]_vars =>
    [\A p \in Processes :
        At(p, "auth") /\ proc'[p].at = "serving" => proc[p].sid \notin dead]_vars
  <1> SUFFICES ASSUME Inv, Next, NEW q \in Processes,
                      At(q, "auth"), proc'[q].at = "serving", proc[q].sid \in dead
               PROVE  FALSE
    OBVIOUS
  <1>1. Auth(q)
    BY OnlyAuthAdmits
  <1>2. /\ proc[q].version \in Nat /\ proc[q].sid # None
        /\ proc[q].user \in Users
        /\ proc[q].version < account[proc[q].user].version
    BY RequestFacts DEF At, Sound, Process
  <1>3. ~Admitted(proc[q].user, proc[q].version)
    BY <1>2 DEF Admitted
  <1>4. proc' = [proc EXCEPT ![q] = [proc[q] EXCEPT !.at = "get"]]
    BY <1>1, <1>3 DEF Auth, Go
  <1>5. proc'[q].at = "get"
    BY <1>4, RequestFacts DEF Inv, TypeOK, Process
  <1> QED BY <1>5

(* No request is admitted on a session whose login read the account before  *)
(* the password was changed or reset or the account was blocked, whatever   *)
(* requests, logins and revocations overlap and wherever they fail, nor on   *)
(* one a logout ended (authMiddleware, RedisSessionStore).                  *)
THEOREM DeadStayRefused == Spec => DeadSessionsRefused
  <1>1. Inv /\ [Next]_vars =>
          [\A p \in Processes :
              At(p, "auth") /\ proc'[p].at = "serving" => proc[p].sid \notin dead]_vars
    BY StepRefusesDead
  <1> QED BY <1>1, InitInv, StepInv, PTL DEF Spec, DeadSessionsRefused

-----------------------------------------------------------------------------
(* Locks and administrators.                                                *)

(* Few steps write accounts, or what is counted of them.                    *)
LEMMA AccountWriters ==
  ASSUME Next, account' # account \/ lapses' # lapses
  PROVE  \/ \E p \in Processes : LoginWrong(p) \/ LoginReset(p) \/ UnblockUser(p)
         \/ \E p \in Processes : ChangeWrite(p) \/ ConfirmWrite(p) \/ BlockUser(p)
         \/ \E x \in Users : LockLapses(x)
  <1>1. account' # account \/ lapses' # lapses
    OBVIOUS
  <1>2. ASSUME NEW p \in Processes,
               \/ \E x \in Users : LoginWrongRead(p, x)
               \/ \E x \in Users, s \in Sids, old \in Sids \cup {None} : LoginRead(p, x, s, old)
               \/ PersistKey(p) \/ PersistIndex(p)
               \/ RemoveRead(p) \/ RemoveKey(p) \/ RemoveIndex(p)
               \/ RevokeRead(p) \/ RevokeKeys(p) \/ RevokeIndex(p)
        PROVE  FALSE
    BY <1>1, <1>2 DEF LoginWrongRead, LoginRead, PersistKey, PersistIndex, RemoveRead,
         RemoveKey, RemoveIndex, RevokeRead, RevokeKeys, RevokeIndex, database
  <1>3. ASSUME NEW p \in Processes,
               \/ \E s \in Sids : Load(p, s) \/ Logout(p, s)
               \/ Auth(p) \/ EndResponse(p)
               \/ \E current, secret \in Passwords : ChangeRead(p, current, secret)
               \/ \E x \in Users, t \in Tokens : ForgotPassword(p, x, t)
               \/ CreateToken(p) \/ SendMail(p)
               \/ \E t \in Tokens, secret \in Passwords : ConfirmRead(p, t, secret)
               \/ \E x \in Users, step \in {"block", "unblock", "roles"} : Authorize(p, step, x)
               \/ SetAdminRoles(p) \/ ErrorResponse(p) \/ Fail(p)
        PROVE  FALSE
    BY <1>1, <1>3 DEF Load, Logout, Auth, EndResponse, ChangeRead, ForgotPassword,
         CreateToken, SendMail, ConfirmRead, Authorize, SetAdminRoles, ErrorResponse,
         Fail, database
  <1>4. ASSUME \/ \E x \in Users : IndexExpires(x)
               \/ \E t \in Tokens : TokenExpires(t)
               \/ \E s \in Sids : AbsoluteTimeEnds(s) \/ SessionExpires(s)
        PROVE  FALSE
    BY <1>1, <1>4 DEF IndexExpires, TokenExpires, AbsoluteTimeEnds, SessionExpires, database
  <1> QED BY <1>2, <1>3, <1>4 DEF Next

(* Of those, only an unlocking administrator and a login that was allowed   *)
(* before the lock end it.                                                  *)
LEMMA StepKeepsLock ==
  Inv /\ [Next]_vars =>
    [\A u \in Users : account[u].lock = "locked" /\ account'[u].lock = "none" =>
        \E p \in Processes :
            /\ proc'[p] # proc[p]
            /\ \/ At(p, "unblock") /\ proc[p].target = u
               \/ At(p, "reset") /\ proc[p].user = u /\ proc[p].lock # "locked"]_vars
  <1> SUFFICES ASSUME Inv, Next, NEW u \in Users,
                      account[u].lock = "locked", account'[u].lock = "none"
               PROVE  \E p \in Processes :
                        /\ proc'[p] # proc[p]
                        /\ \/ At(p, "unblock") /\ proc[p].target = u
                           \/ At(p, "reset") /\ proc[p].user = u /\ proc[p].lock # "locked"
    OBVIOUS
  <1>1. account \in [Users -> Account] /\ proc \in [Processes -> Process]
    BY DEF Inv, TypeOK
  <1>2. ASSUME NEW p \in Processes, LoginWrong(p) PROVE FALSE
    <2>1. account' = [account EXCEPT ![proc[p].user] = [account[proc[p].user] EXCEPT
                        !.attempts = account[proc[p].user].attempts + 1,
                        !.lock = IF account[proc[p].user].attempts + 1 >= MaxFailed
                                 THEN "locked" ELSE account[proc[p].user].lock]]
      BY <1>2 DEF LoginWrong
    <2>2. account[u].lock = "locked" => account'[u].lock = "locked"
      BY <1>1, <2>1 DEF Account
    <2> QED BY <2>2
  <1>3. ASSUME NEW p \in Processes, LoginReset(p)
        PROVE  /\ proc'[p] # proc[p]
               /\ At(p, "reset") /\ proc[p].user = u /\ proc[p].lock # "locked"
    <2>1. proc[p].user = u
      BY <1>1, <1>3 DEF LoginReset
    <2>2. At(p, "reset") /\ proc[p].lock # "locked"
      BY <1>3, RequestFacts DEF LoginReset, At, Sound
    <2>3. proc'[p].at = AfterLogin(proc[p].gone)
      BY <1>1, <1>3 DEF LoginReset, Go, Process
    <2> QED BY <2>1, <2>2, <2>3 DEF At, AfterLogin
  <1>4. ASSUME NEW p \in Processes, UnblockUser(p)
        PROVE  proc'[p] # proc[p] /\ At(p, "unblock") /\ proc[p].target = u
    <2>1. proc[p].target = u
      BY <1>1, <1>4 DEF UnblockUser
    <2>2. At(p, "unblock") /\ proc'[p].at = "set"
      BY <1>1, <1>4 DEF UnblockUser, Go, Process
    <2> QED BY <2>1, <2>2 DEF At
  <1>5. ASSUME NEW x, NEW f,
               \/ account' = [account EXCEPT ![x].blocked = TRUE, ![x].version = f]
               \/ \E secret : account' = [account EXCEPT ![x].password = secret, ![x].version = f]
        PROVE  FALSE
    <2>1. account' = [account EXCEPT ![x] = account'[x]]
          /\ (x \in Users => account'[x].lock = account[x].lock)
      BY <1>1, <1>5 DEF Account
    <2> QED BY <1>1, <2>1
  <1>6. ASSUME NEW p \in Processes, ChangeWrite(p) \/ ConfirmWrite(p) \/ BlockUser(p)
        PROVE  FALSE
    BY <1>5, <1>6 DEF ChangeWrite, ConfirmWrite, BlockUser, SetPassword
  <1>7. ASSUME NEW x \in Users, LockLapses(x) PROVE FALSE
    <2>1. account' = [account EXCEPT ![x] = [account[x] EXCEPT !.lock = "lapsed"]]
      BY <1>7 DEF LockLapses
    <2>2. [account[x] EXCEPT !.lock = "lapsed"].lock = "lapsed"
      BY <1>1 DEF Account
    <2> QED BY <1>1, <2>1, <2>2
  <1> QED BY <1>2, <1>3, <1>4, <1>6, <1>7, AccountWriters

(* A lock is lifted before its time only by an administrator or by a login  *)
(* that read the account before it was locked (LoginService).               *)
THEOREM LocksAreKept == Spec => LockIsKept
  <1>1. Inv /\ [Next]_vars =>
          [\A u \in Users : account[u].lock = "locked" /\ account'[u].lock = "none" =>
              \E p \in Processes :
                  /\ proc'[p] # proc[p]
                  /\ \/ At(p, "unblock") /\ proc[p].target = u
                     \/ At(p, "reset") /\ proc[p].user = u /\ proc[p].lock # "locked"]_vars
    BY StepKeepsLock
  <1> QED BY <1>1, InitInv, StepInv, PTL DEF Spec, LockIsKept

(* Roles are written by setAdminRoles alone, which drops one user's at a    *)
(* time and never those of the administrator who asks.                      *)
LEMMA StepKeepsAdmins ==
  [Next]_vars => [admins # {} /\ admins' = {} =>
      \E p \in Processes : At(p, "roles") /\ proc[p].user \notin admins]_vars
  <1> SUFFICES ASSUME Next, admins # {}, admins' = {}
               PROVE  \E p \in Processes : At(p, "roles") /\ proc[p].user \notin admins
    OBVIOUS
  <1>1. admins' # admins
    OBVIOUS
  <1>2. ASSUME NEW p \in Processes,
               \/ \E x \in Users : LoginWrongRead(p, x)
               \/ \E x \in Users, s \in Sids, old \in Sids \cup {None} : LoginRead(p, x, s, old)
               \/ LoginWrong(p) \/ LoginReset(p) \/ PersistKey(p) \/ PersistIndex(p)
               \/ RemoveRead(p) \/ RemoveKey(p) \/ RemoveIndex(p)
               \/ RevokeRead(p) \/ RevokeKeys(p) \/ RevokeIndex(p)
        PROVE  FALSE
    BY <1>1, <1>2 DEF LoginWrongRead, LoginRead, LoginWrong, LoginReset, PersistKey,
         PersistIndex, RemoveRead, RemoveKey, RemoveIndex, RevokeRead, RevokeKeys,
         RevokeIndex, database
  <1>3. ASSUME NEW p \in Processes,
               \/ \E s \in Sids : Load(p, s) \/ Logout(p, s)
               \/ Auth(p) \/ EndResponse(p)
               \/ \E current, secret \in Passwords : ChangeRead(p, current, secret)
               \/ \E x \in Users, t \in Tokens : ForgotPassword(p, x, t)
               \/ ChangeWrite(p) \/ CreateToken(p) \/ SendMail(p) \/ ConfirmWrite(p)
               \/ \E t \in Tokens, secret \in Passwords : ConfirmRead(p, t, secret)
               \/ \E x \in Users, step \in {"block", "unblock", "roles"} : Authorize(p, step, x)
               \/ BlockUser(p) \/ UnblockUser(p) \/ ErrorResponse(p) \/ Fail(p)
        PROVE  FALSE
    BY <1>1, <1>3 DEF Load, Logout, Auth, EndResponse, ChangeRead, ForgotPassword,
         ChangeWrite, CreateToken, SendMail, ConfirmWrite, ConfirmRead, Authorize,
         BlockUser, UnblockUser, ErrorResponse, Fail, database
  <1>4. ASSUME \/ \E x \in Users : LockLapses(x) \/ IndexExpires(x)
               \/ \E t \in Tokens : TokenExpires(t)
               \/ \E s \in Sids : AbsoluteTimeEnds(s) \/ SessionExpires(s)
        PROVE  FALSE
    BY <1>1, <1>4 DEF LockLapses, IndexExpires, TokenExpires, AbsoluteTimeEnds,
         SessionExpires, database
  <1>5. PICK p \in Processes : SetAdminRoles(p)
    BY <1>2, <1>3, <1>4 DEF Next
  <1>6. At(p, "roles") /\ proc[p].user # proc[p].target /\ admins \ {proc[p].target} = {}
    BY <1>5 DEF SetAdminRoles, MayDropRoles
  <1> QED BY <1>6

(* The last role goes only by the hand of somebody who lost their own after *)
(* the request was authorized (setAdminRoles).                              *)
THEOREM AdminsStay == Spec => AdminsRemain
  <1>1. [Next]_vars => [admins # {} /\ admins' = {} =>
          \E p \in Processes : At(p, "roles") /\ proc[p].user \notin admins]_vars
    BY StepKeepsAdmins
  <1> QED BY <1>1, PTL DEF Spec, AdminsRemain

-----------------------------------------------------------------------------
(***************************************************************************)
(* Proofs about the limits of Accounts, for any number of requests at once: *)
(* how many wrong passwords an account takes, and how often a reset token   *)
(* is spent. Both count the requests that read before a limit was reached   *)
(* and have not written yet.                                                *)
(***************************************************************************)

Wrongs(u) == {p \in Processes : At(p, "wrong") /\ proc[p].user = u}
Confirms(t) == {p \in Processes : At(p, "confirm") /\ proc[p].token = t}
(* The number of requests at once, the bound of the counts.                *)
Limit == Cardinality(Processes)

LEMMA LimitType == Limit \in Nat
  BY AccountsAssumption, FS_CardinalityType DEF Limit

LEMMA Counts ==
  ASSUME NEW S \in SUBSET Processes
  PROVE  IsFiniteSet(S) /\ Cardinality(S) \in Nat /\ Cardinality(S) <= Limit
  BY AccountsAssumption, FS_Subset, FS_CardinalityType DEF Limit

(* A set of requests that only loses some.                                  *)
LEMMA CountsFewer ==
  ASSUME NEW S \in SUBSET Processes, NEW T \in SUBSET S
  PROVE  /\ Cardinality(T) <= Cardinality(S)
         /\ Cardinality(T) \in Nat /\ Cardinality(S) \in Nat
  BY Counts, FS_Subset

(* A set of requests that loses at least p.                                 *)
LEMMA CountsOneLess ==
  ASSUME NEW S \in SUBSET Processes, NEW p \in S, NEW T \in SUBSET (S \ {p})
  PROVE  /\ Cardinality(T) + 1 <= Cardinality(S)
         /\ Cardinality(T) \in Nat /\ Cardinality(S) \in Nat
  <1>1. IsFiniteSet(S) /\ Cardinality(S) \in Nat
    BY Counts
  <1>2. Cardinality(S \ {p}) = Cardinality(S) - 1
    BY <1>1, FS_RemoveElement
  <1>3. Cardinality(T) <= Cardinality(S \ {p}) /\ Cardinality(T) \in Nat
    <2>1. S \ {p} \in SUBSET Processes
      OBVIOUS
    <2> QED BY <2>1, CountsFewer
  <1> QED BY <1>1, <1>2, <1>3

-----------------------------------------------------------------------------
(* A request comes to compare nothing but by its own read.                  *)
LEMMA OnlyReadsArrive ==
  ASSUME Inv, Next, NEW q \in Processes,
         proc'[q] # proc[q], proc'[q].at \in {"wrong", "confirm"}
  PROVE  \/ \E u \in Users : LoginWrongRead(q, u)
         \/ \E t \in Tokens, secret \in Passwords : ConfirmRead(q, t, secret)
  <1> DEFINE Halted == {"wrong", "confirm"}
  <1>1. proc'[q] # proc[q] /\ proc'[q].at \in Halted
    OBVIOUS
  <1>2. ASSUME NEW p \in Processes, NEW r, proc' = [proc EXCEPT ![p] = r]
        PROVE  p = q /\ r.at \in Halted
    BY <1>1, <1>2 DEF Inv, TypeOK
  <1>3. ASSUME NEW p \in Processes, proc[p] \in Process, NEW step, step \notin Halted,
               Go(p, step)
        PROVE  FALSE
    <2>1. proc' = [proc EXCEPT ![p] = [proc[p] EXCEPT !.at = step]]
      BY <1>3 DEF Go
    <2>2. [proc[p] EXCEPT !.at = step].at = step
      BY <1>3 DEF Process
    <2> QED BY <1>2, <1>3, <2>1, <2>2
  <1>4. ASSUME NEW p \in Processes, proc' = [proc EXCEPT ![p] = Idle]
        PROVE  FALSE
    <2>1. Idle.at \notin Halted
      BY DEF Idle
    <2> QED BY <1>2, <1>4, <2>1
  <1>5. ASSUME NEW p \in Processes, Then(p, proc[p].then)
        PROVE  FALSE
    <2>1. proc[p] \in Process /\ proc[p].then \in {"idle", "set", "get"}
      BY RequestFacts DEF Process
    <2>2. CASE proc[p].then = "idle"
      BY <1>4, <1>5, <2>2 DEF Then
    <2>3. CASE proc[p].then # "idle"
      <3>1. proc' = [proc EXCEPT ![p] = [proc[p] EXCEPT !.at = proc[p].then, !.then = "idle"]]
        BY <1>5, <2>3 DEF Then
      <3>2. [proc[p] EXCEPT !.at = proc[p].then, !.then = "idle"].at = proc[p].then
        BY <2>1 DEF Process
      <3> QED BY <1>2, <2>1, <3>1, <3>2
    <2> QED BY <2>2, <2>3
  <1>6. ASSUME NEW p \in Processes,
               \/ \E u \in Users, s \in Sids, old \in Sids \cup {None} :
                     LoginRead(p, u, s, old)
               \/ \E s \in Sids : Load(p, s) \/ Logout(p, s)
               \/ \E u \in Users, t \in Tokens : ForgotPassword(p, u, t)
        PROVE  FALSE
    <2>1. ASSUME NEW base \in Process, NEW step, step \notin Halted,
                 \/ proc' = [proc EXCEPT ![p] = [base EXCEPT !.at = step]]
                 \/ proc' = [proc EXCEPT ![p] = [base EXCEPT !.at = step, !.logout = TRUE]]
          PROVE  FALSE
      <3>1. /\ [base EXCEPT !.at = step].at = step
            /\ [base EXCEPT !.at = step, !.logout = TRUE].at = step
        BY DEF Process
      <3> QED BY <1>2, <2>1, <3>1
    <2>2. ASSUME NEW u \in Users, NEW s \in Sids, NEW old \in Sids \cup {None},
                 LoginRead(p, u, s, old)
          PROVE  FALSE
      <3> DEFINE login == [Idle EXCEPT !.user = u, !.sid = s, !.gone = old, !.then = "set",
                              !.version = account[u].version, !.lock = account[u].lock]
                 step == IF NeedsReset(u) THEN "reset" ELSE AfterLogin(old)
      <3>1. login \in Process
        <4>1. account[u].version \in Nat /\ account[u].lock \in Locks
          BY DEF Inv, TypeOK, Account
        <4> QED BY <4>1 DEF Idle, Process, Steps
      <3>2. step \notin Halted
        BY DEF AfterLogin
      <3>3. proc' = [proc EXCEPT ![p] = [login EXCEPT !.at = step]]
        BY <2>2 DEF LoginRead, Begin
      <3> QED BY <2>1, <3>1, <3>2, <3>3
    <2>3. ASSUME NEW s \in Sids, Load(p, s) \/ Logout(p, s)
          PROVE  FALSE
      <3>1. Request(s) \in Process
        BY <2>3, RequestOfSession DEF Load, Logout
      <3>2. CASE Load(p, s)
        <4> DEFINE step == IF s \in expired THEN "get" ELSE "auth"
        <4>1. proc' = [proc EXCEPT ![p] = [Request(s) EXCEPT !.at = step]]
          BY <3>2 DEF Load, Begin
        <4>2. step \notin Halted
          OBVIOUS
        <4> HIDE DEF step, Halted
        <4> QED BY <2>1, <3>1, <4>1, <4>2
      <3>3. CASE Logout(p, s)
        <4>1. proc' = [proc EXCEPT ![p] = [Request(s) EXCEPT !.at = "get", !.logout = TRUE]]
          BY <3>3 DEF Logout, Begin
        <4>2. "get" \notin Halted
          OBVIOUS
        <4> HIDE DEF Halted
        <4> QED BY <2>1, <3>1, <4>1, <4>2
      <3> QED BY <2>3, <3>2, <3>3
    <2>4. ASSUME NEW u \in Users, NEW t \in Tokens, ForgotPassword(p, u, t)
          PROVE  FALSE
      <3>1. proc' = [proc EXCEPT ![p] =
                        [Idle EXCEPT !.at = "createToken", !.user = u, !.token = t]]
        BY <2>4 DEF ForgotPassword, Begin
      <3>2. [Idle EXCEPT !.at = "createToken", !.user = u, !.token = t].at \notin Halted
        BY DEF Idle
      <3> QED BY <1>2, <3>1, <3>2
    <2> QED BY <1>6, <2>2, <2>3, <2>4
  <1>7. ASSUME NEW p \in Processes,
               \/ LoginReset(p) \/ PersistKey(p) \/ RevokeKeys(p) \/ EndResponse(p)
               \/ CreateToken(p) \/ BlockUser(p) \/ UnblockUser(p) \/ SetAdminRoles(p)
               \/ ErrorResponse(p) \/ Auth(p)
        PROVE  FALSE
    <2>1. AfterLogin(proc[p].gone) \notin Halted
      BY DEF AfterLogin
    <2>2. proc[p] \in Process
      BY RequestFacts
    <2> QED BY <1>3, <1>7, <2>1, <2>2 DEF LoginReset, PersistKey, RevokeKeys, EndResponse,
              CreateToken, BlockUser, UnblockUser, SetAdminRoles, ErrorResponse, Auth
  <1>8. ASSUME NEW p \in Processes,
               \/ LoginWrong(p) \/ PersistIndex(p) \/ SendMail(p) \/ Fail(p)
        PROVE  FALSE
    BY <1>4, <1>8 DEF LoginWrong, PersistIndex, SendMail, Fail
  <1>9. ASSUME NEW p \in Processes, RemoveKey(p) \/ RemoveIndex(p) \/ RevokeIndex(p)
        PROVE  FALSE
    <2>1. proc[p] \in Process
      BY RequestFacts
    <2> QED BY <1>3, <1>5, <1>9, <2>1 DEF RemoveKey, RemoveIndex, RevokeIndex
  <1>10. ASSUME NEW p \in Processes,
                \/ RemoveRead(p) \/ RevokeRead(p)
                \/ \E current, secret \in Passwords : ChangeRead(p, current, secret)
                \/ ChangeWrite(p) \/ ConfirmWrite(p)
                \/ \E u \in Users, step \in {"block", "unblock", "roles"} :
                      Authorize(p, step, u)
         PROVE  FALSE
    <2>1. proc[p] \in Process
      BY RequestFacts
    <2>2. ASSUME NEW step, step \notin Halted, NEW v, NEW w,
                 \/ proc' = [proc EXCEPT ![p].at = step, ![p].found = v]
                 \/ proc' = [proc EXCEPT ![p].at = step, ![p].ids = v]
                 \/ proc' = [proc EXCEPT ![p].at = step, ![p].secret = v]
                 \/ proc' = [proc EXCEPT ![p].at = step, ![p].target = v, ![p].then = w]
          PROVE  FALSE
      <3>1. /\ [proc[p] EXCEPT !.at = step, !.found = v].at = step
            /\ [proc[p] EXCEPT !.at = step, !.ids = v].at = step
            /\ [proc[p] EXCEPT !.at = step, !.secret = v].at = step
            /\ [proc[p] EXCEPT !.at = step, !.target = v, !.then = w].at = step
        BY <2>1 DEF Process
      <3>2. \/ proc' = [proc EXCEPT ![p] = [proc[p] EXCEPT !.at = step, !.found = v]]
            \/ proc' = [proc EXCEPT ![p] = [proc[p] EXCEPT !.at = step, !.ids = v]]
            \/ proc' = [proc EXCEPT ![p] = [proc[p] EXCEPT !.at = step, !.secret = v]]
            \/ proc' = [proc EXCEPT ![p] = [proc[p] EXCEPT !.at = step, !.target = v, !.then = w]]
        BY <2>2 DEF Inv, TypeOK
      <3> QED BY <1>2, <2>2, <3>1, <3>2
    <2>3. CASE RemoveRead(p) \/ RevokeRead(p)
      BY <2>2, <2>3 DEF RemoveRead, RevokeRead
    <2>4. CASE \E current, secret \in Passwords : ChangeRead(p, current, secret)
      BY <2>2, <2>4 DEF ChangeRead
    <2>5. CASE \/ ChangeWrite(p) \/ ConfirmWrite(p)
               \/ \E u \in Users, step \in {"block", "unblock", "roles"} :
                     Authorize(p, step, u)
      <3>1. ASSUME NEW u, NEW then, Revoke(p, u, then) PROVE FALSE
        <4>1. proc' = [proc EXCEPT ![p].at = "members", ![p].target = u, ![p].then = then]
          BY <3>1 DEF Revoke
        <4>2. "members" \notin Halted
          OBVIOUS
        <4> QED BY <2>2, <4>1, <4>2
      <3>2. ASSUME NEW u \in Users, NEW step \in {"block", "unblock", "roles"},
                   Authorize(p, step, u)
            PROVE  FALSE
        <4>1. proc' = [proc EXCEPT ![p].at = step, ![p].target = u, ![p].then = "set"]
          BY <3>2 DEF Authorize
        <4>2. step \notin Halted
          OBVIOUS
        <4> QED BY <2>2, <4>1, <4>2
      <3> QED BY <2>5, <3>1, <3>2 DEF ChangeWrite, ConfirmWrite
    <2> QED BY <1>10, <2>3, <2>4, <2>5
  <1>11. ASSUME \/ \E u \in Users : LockLapses(u) \/ IndexExpires(u)
                \/ \E t \in Tokens : TokenExpires(t)
                \/ \E s \in Sids : AbsoluteTimeEnds(s) \/ SessionExpires(s)
         PROVE  FALSE
    BY <1>1, <1>11 DEF LockLapses, IndexExpires, TokenExpires, AbsoluteTimeEnds,
                       SessionExpires
  <1>12. ASSUME NEW p \in Processes,
                \/ \E u \in Users : LoginWrongRead(p, u)
                \/ \E t \in Tokens, secret \in Passwords : ConfirmRead(p, t, secret)
         PROVE  p = q
    BY <1>2, <1>12 DEF LoginWrongRead, ConfirmRead, Begin
  <1> QED BY <1>6, <1>7, <1>8, <1>9, <1>10, <1>11, <1>12 DEF Next

-----------------------------------------------------------------------------
(* Reset tokens.                                                            *)

(* Who writes a token, but for its confirmation: none of them spends it or  *)
(* makes it new again.                                                      *)
LEMMA TokenWriters ==
  ASSUME Inv, Next, NEW t \in Tokens,
         ~\E p \in Processes : ConfirmWrite(p) /\ proc[p].token = t
  PROVE  token'[t].spent = token[t].spent /\ (token[t].used => token'[t].used)
  <1>1. token \in [Tokens -> Token]
    BY DEF Inv, TypeOK
  <1>2. CASE UNCHANGED token
    BY <1>2
  <1>3. ASSUME NEW p \in Processes,
               \/ \E u \in Users : LoginWrongRead(p, u)
               \/ \E u \in Users, s \in Sids, old \in Sids \cup {None} : LoginRead(p, u, s, old)
               \/ LoginWrong(p) \/ LoginReset(p) \/ PersistKey(p) \/ PersistIndex(p)
               \/ RemoveRead(p) \/ RemoveKey(p) \/ RemoveIndex(p)
               \/ RevokeRead(p) \/ RevokeKeys(p) \/ RevokeIndex(p)
        PROVE  UNCHANGED token
    BY <1>3 DEF LoginWrongRead, LoginRead, LoginWrong, LoginReset, PersistKey,
         PersistIndex, RemoveRead, RemoveKey, RemoveIndex, RevokeRead, RevokeKeys,
         RevokeIndex, database
  <1>4. ASSUME NEW p \in Processes,
               \/ \E s \in Sids : Load(p, s) \/ Logout(p, s)
               \/ Auth(p) \/ EndResponse(p)
               \/ \E current, secret \in Passwords : ChangeRead(p, current, secret)
               \/ ChangeWrite(p)
               \/ \E x \in Tokens, secret \in Passwords : ConfirmRead(p, x, secret)
               \/ \E x \in Users, step \in {"block", "unblock", "roles"} : Authorize(p, step, x)
               \/ BlockUser(p) \/ UnblockUser(p) \/ SetAdminRoles(p)
               \/ ErrorResponse(p) \/ Fail(p)
        PROVE  UNCHANGED token
    BY <1>4 DEF Load, Logout, Auth, EndResponse, ChangeRead, ChangeWrite, ConfirmRead,
         Authorize, BlockUser, UnblockUser, SetAdminRoles, ErrorResponse, Fail, database
  <1>5. ASSUME \/ \E u \in Users : LockLapses(u) \/ IndexExpires(u)
               \/ \E s \in Sids : AbsoluteTimeEnds(s) \/ SessionExpires(s)
        PROVE  UNCHANGED token
    BY <1>5 DEF LockLapses, IndexExpires, AbsoluteTimeEnds, SessionExpires, database
  <1>6. ASSUME NEW p \in Processes, NEW u \in Users, NEW x \in Tokens,
               ForgotPassword(p, u, x)
        PROVE  token'[t].spent = token[t].spent /\ (token[t].used => token'[t].used)
    <2>1. token'[t] \in {token[t], [token[t] EXCEPT !.used = TRUE]}
      BY <1>6 DEF ForgotPassword
    <2> QED BY <1>1, <2>1 DEF Token
  <1>7. ASSUME NEW p \in Processes, CreateToken(p) \/ SendMail(p)
        PROVE  token'[t].spent = token[t].spent /\ (token[t].used => token'[t].used)
    <2>1. CASE CreateToken(p)
      <3>1. token'[t] \in {token[t], [token[t] EXCEPT !.user = proc[p].user]}
        BY <1>1, <2>1 DEF CreateToken
      <3> QED BY <1>1, <3>1 DEF Token
    <2>2. CASE SendMail(p)
      <3>1. token'[t] \in {token[t], [token[t] EXCEPT !.sent = TRUE]}
        BY <1>1, <2>2 DEF SendMail
      <3> QED BY <1>1, <3>1 DEF Token
    <2> QED BY <1>7, <2>1, <2>2
  <1>8. ASSUME NEW x \in Tokens, TokenExpires(x)
        PROVE  token'[t].spent = token[t].spent /\ (token[t].used => token'[t].used)
    <2>1. token'[t] \in {token[t], [token[t] EXCEPT !.expired = TRUE]}
      BY <1>1, <1>8 DEF TokenExpires
    <2> QED BY <1>1, <2>1 DEF Token
  <1>9. ASSUME NEW p \in Processes, ConfirmWrite(p)
        PROVE  token'[t].spent = token[t].spent /\ (token[t].used => token'[t].used)
    <2>1. proc[p].token # t
      BY <1>9
    <2>2. token'[t] = token[t]
      BY <1>1, <1>9, <2>1 DEF ConfirmWrite
    <2> QED BY <2>2
  <1> QED BY <1>2, <1>3, <1>4, <1>5, <1>6, <1>7, <1>8, <1>9 DEF Next

(* A token that is not used was not spent; and what was spent, with the     *)
(* requests that read it unused, are no more than run at once.              *)
SpentBound(t) ==
    /\ ~token[t].used => token[t].spent = 0
    /\ token[t].spent + Cardinality(Confirms(t)) <= Limit

(* Every step keeps the bound on what a token was spent.                   *)
LEMMA StepKeepsSpent ==
  ASSUME Inv, Next, NEW t \in Tokens, SpentBound(t)
  PROVE  SpentBound(t)'
  <1>1. /\ token \in [Tokens -> Token] /\ proc \in [Processes -> Process]
        /\ token[t].spent \in Nat /\ token[t].used \in BOOLEAN
    BY DEF Inv, TypeOK, Token
  <1>2. /\ Confirms(t) \in SUBSET Processes /\ Confirms(t)' \in SUBSET Processes
        /\ Limit' = Limit
    BY DEF Confirms, Limit
  <1>3. CASE \E p \in Processes : ConfirmWrite(p) /\ proc[p].token = t
    <2>1. PICK p \in Processes : ConfirmWrite(p) /\ proc[p].token = t
      BY <1>3
    <2>2. token'[t] = [token[t] EXCEPT !.used = TRUE, !.spent = token[t].spent + 1]
      BY <1>1, <2>1 DEF ConfirmWrite, TokenSpent
    <2>3. token'[t].used /\ token'[t].spent = token[t].spent + 1
      BY <1>1, <2>2 DEF Token
    <2>4. p \in Confirms(t)
      BY <2>1 DEF ConfirmWrite, Confirms
    <2>5. /\ proc'[p].at = "members" /\ \A q \in Processes \ {p} : proc'[q] = proc[q]
      BY <1>1, <2>1 DEF ConfirmWrite, Revoke, Process
    <2>6. Confirms(t)' \in SUBSET (Confirms(t) \ {p})
      BY <2>5 DEF Confirms, At
    <2>7. /\ Cardinality(Confirms(t)') + 1 <= Cardinality(Confirms(t))
          /\ Cardinality(Confirms(t)') \in Nat /\ Cardinality(Confirms(t)) \in Nat
      BY <1>2, <2>4, <2>6, CountsOneLess
    <2>8. token'[t].spent + Cardinality(Confirms(t)') <= Limit
      BY <1>1, <2>3, <2>7, LimitType DEF SpentBound
    <2> QED BY <1>2, <2>3, <2>8 DEF SpentBound
  <1>4. CASE /\ ~\E p \in Processes : ConfirmWrite(p) /\ proc[p].token = t
             /\ Confirms(t)' \subseteq Confirms(t)
    <2>1. token'[t].spent = token[t].spent /\ (token[t].used => token'[t].used)
      BY <1>4, TokenWriters
    <2>2. /\ Cardinality(Confirms(t)') <= Cardinality(Confirms(t))
          /\ Cardinality(Confirms(t)') \in Nat /\ Cardinality(Confirms(t)) \in Nat
      BY <1>2, <1>4, CountsFewer
    <2>3. token'[t].spent + Cardinality(Confirms(t)') <= Limit
      BY <1>1, <2>1, <2>2, LimitType DEF SpentBound
    <2> QED BY <1>2, <2>1, <2>3 DEF SpentBound
  <1>5. CASE ~(Confirms(t)' \subseteq Confirms(t))
    <2>1. PICK q \in Processes : q \in Confirms(t)' /\ q \notin Confirms(t)
      BY <1>5 DEF Confirms
    <2>2. proc'[q].at = "confirm" /\ proc'[q].token = t /\ proc'[q] # proc[q]
      BY <2>1 DEF Confirms, At
    <2>3. ~\E u \in Users : LoginWrongRead(q, u)
      <3>1. ASSUME NEW u \in Users, LoginWrongRead(q, u) PROVE FALSE
        <4>1. proc'[q] = [Idle EXCEPT !.at = "wrong", !.user = u]
          BY <1>1, <3>1 DEF LoginWrongRead, Begin
        <4> QED BY <2>2, <4>1 DEF Idle
      <3> QED BY <3>1
    <2>4. PICK x \in Tokens, secret \in Passwords : ConfirmRead(q, x, secret)
      BY <2>2, <2>3, OnlyReadsArrive
    <2>5. x = t
      <3>1. proc'[q] = [Idle EXCEPT !.at = "confirm", !.token = x, !.secret = secret]
        BY <1>1, <2>4 DEF ConfirmRead, Begin
      <3> QED BY <2>2, <3>1 DEF Idle
    <2>6. token' = token /\ ~token[t].used
      BY <2>4, <2>5 DEF ConfirmRead, TokenValid, database
    <2>7. Cardinality(Confirms(t)') \in Nat /\ Cardinality(Confirms(t)') <= Limit
      BY <1>2, Counts
    <2>8. token'[t].spent + Cardinality(Confirms(t)') <= Limit
      BY <1>1, <2>6, <2>7, LimitType DEF SpentBound
    <2> QED BY <1>2, <2>6, <2>8 DEF SpentBound
  <1> QED BY <1>3, <1>4, <1>5

(* A reset token changes the password at most once for each of the requests *)
(* that may run at the same time: who reads it after one of them committed  *)
(* finds it used (ResetPasswordService).                                    *)
THEOREM TokensSpentOnce == Spec => []TokenSpentOnce
  <1> DEFINE J == Inv /\ \A t \in Tokens : SpentBound(t)
  <1>1. Init => J
    <2> SUFFICES ASSUME Init, NEW t \in Tokens PROVE SpentBound(t)
      BY InitInv
    <2>1. token[t].spent = 0
      BY DEF Init
    <2>2. Confirms(t) = {}
      BY DEF Init, Confirms, At, Idle
    <2>3. Cardinality(Confirms(t)) = 0
      BY <2>2, FS_EmptySet
    <2> QED BY <2>1, <2>3, LimitType DEF SpentBound
  <1>2. J /\ [Next]_vars => J'
    <2> SUFFICES ASSUME J, [Next]_vars PROVE J'
      OBVIOUS
    <2>1. Inv'
      BY StepInv
    <2>2. CASE Next
      BY <2>1, <2>2, StepKeepsSpent
    <2>3. CASE UNCHANGED vars
      BY <2>1, <2>3 DEF vars, SpentBound, Confirms, Limit, At
    <2> QED BY <2>2, <2>3
  <1>3. J => TokenSpentOnce
    BY DEF SpentBound, Confirms, Limit, TokenSpentOnce
  <1> HIDE DEF J
  <1> QED BY <1>1, <1>2, <1>3, PTL DEF Spec

-----------------------------------------------------------------------------
(* Wrong passwords.                                                         *)

(* What a step does to the lockout of an account: nothing, but that fewer   *)
(* requests are about to count; one of them begins, while there is no lock; *)
(* one counts; it is reset; or the lock lapses.                             *)
Untouched(u) == /\ account'[u].attempts = account[u].attempts
                /\ account'[u].lock = account[u].lock
                /\ lapses'[u] = lapses[u]
Cleared(u) == /\ account'[u].attempts = 0 /\ account'[u].lock = "none"
              /\ lapses'[u] = lapses[u]

(* A step that changes other columns of a row, or other rows.               *)
LEMMA OtherColumns ==
  ASSUME Inv, NEW u \in Users, NEW x, NEW f, NEW g, UNCHANGED lapses,
         \/ account' = [account EXCEPT ![x].blocked = g, ![x].version = f]
         \/ account' = [account EXCEPT ![x].password = g, ![x].version = f]
  PROVE  Untouched(u)
  <1>1. account \in [Users -> Account]
    BY DEF Inv, TypeOK
  <1>2. account'[u] \in {account[u],
             [account[u] EXCEPT !.blocked = g, !.version = f],
             [account[u] EXCEPT !.password = g, !.version = f]}
    BY <1>1
  <1> QED BY <1>1, <1>2 DEF Account, Untouched

LEMMA LockoutCases ==
  ASSUME Inv, Next, NEW u \in Users
  PROVE  \/ Untouched(u) /\ Wrongs(u)' \subseteq Wrongs(u)
         \/ Untouched(u) /\ account[u].lock # "locked"
         \/ \E p \in Processes : LoginWrong(p) /\ proc[p].user = u
         \/ Cleared(u)
         \/ account[u].lock = "locked" /\ LockLapses(u)
  <1>1. /\ account \in [Users -> Account] /\ proc \in [Processes -> Process]
        /\ lapses \in [Users -> Nat]
    BY DEF Inv, TypeOK
  <1>2. CASE ~(Wrongs(u)' \subseteq Wrongs(u))
    <2>1. PICK q \in Processes : q \in Wrongs(u)' /\ q \notin Wrongs(u)
      BY <1>2 DEF Wrongs
    <2>2. proc'[q].at = "wrong" /\ proc'[q].user = u /\ proc'[q] # proc[q]
      BY <2>1 DEF Wrongs, At
    <2>3. ~\E t \in Tokens, secret \in Passwords : ConfirmRead(q, t, secret)
      <3>1. ASSUME NEW t \in Tokens, NEW secret \in Passwords, ConfirmRead(q, t, secret)
            PROVE  FALSE
        <4>1. proc'[q] = [Idle EXCEPT !.at = "confirm", !.token = t, !.secret = secret]
          BY <1>1, <3>1 DEF ConfirmRead, Begin
        <4> QED BY <2>2, <4>1 DEF Idle
      <3> QED BY <3>1
    <2>4. PICK x \in Users : LoginWrongRead(q, x)
      BY <2>2, <2>3, OnlyReadsArrive
    <2>5. x = u
      <3>1. proc'[q] = [Idle EXCEPT !.at = "wrong", !.user = x]
        BY <1>1, <2>4 DEF LoginWrongRead, Begin
      <3> QED BY <2>2, <3>1 DEF Idle
    <2>6. Untouched(u) /\ account[u].lock # "locked"
      BY <2>4, <2>5 DEF LoginWrongRead, LoginAllowed, database, Untouched
    <2> QED BY <2>6
  <1>3. CASE Wrongs(u)' \subseteq Wrongs(u) /\ UNCHANGED <<account, lapses>>
    BY <1>3 DEF Untouched
  <1>4. CASE Wrongs(u)' \subseteq Wrongs(u) /\ ~UNCHANGED <<account, lapses>>
    <2>1. ASSUME NEW p \in Processes, LoginWrong(p), proc[p].user # u
          PROVE  Untouched(u)
      BY <1>1, <2>1 DEF LoginWrong, Untouched
    <2>2. ASSUME NEW p \in Processes, LoginReset(p)
          PROVE  Untouched(u) \/ Cleared(u)
      <3>1. account'[u] \in {account[u], [account[u] EXCEPT !.attempts = 0, !.lock = "none"]}
        BY <1>1, <2>2 DEF LoginReset
      <3>2. UNCHANGED lapses
        BY <2>2 DEF LoginReset
      <3> QED BY <1>1, <3>1, <3>2 DEF Account, Untouched, Cleared
    <2>3. ASSUME NEW p \in Processes, UnblockUser(p)
          PROVE  Untouched(u) \/ Cleared(u)
      <3>1. account'[u] \in {account[u],
               [account[u] EXCEPT !.blocked = FALSE, !.attempts = 0, !.lock = "none"]}
        BY <1>1, <2>3 DEF UnblockUser
      <3>2. UNCHANGED lapses
        BY <2>3 DEF UnblockUser
      <3> QED BY <1>1, <3>1, <3>2 DEF Account, Untouched, Cleared
    <2>4. ASSUME NEW p \in Processes, ChangeWrite(p) \/ ConfirmWrite(p) \/ BlockUser(p)
          PROVE  Untouched(u)
      BY <2>4, OtherColumns DEF ChangeWrite, ConfirmWrite, BlockUser, SetPassword
    <2>5. ASSUME NEW x \in Users, LockLapses(x)
          PROVE  Untouched(u) \/ (account[u].lock = "locked" /\ LockLapses(u))
      <3>1. CASE x = u
        BY <2>5, <3>1 DEF LockLapses
      <3>2. CASE x # u
        BY <1>1, <2>5, <3>2 DEF LockLapses, Untouched
      <3> QED BY <3>1, <3>2
    <2> QED BY <1>4, <2>1, <2>2, <2>3, <2>4, <2>5, AccountWriters
  <1> QED BY <1>2, <1>3, <1>4

(* An account is locked, or was, exactly when the limit is reached; those   *)
(* about to count read it unlocked, which is once for each request and      *)
(* lapse of the lock.                                                       *)
LockoutBound(u) ==
    LET attempts == account[u].attempts
    IN  /\ account[u].lock # "none" <=> attempts >= MaxFailed
        /\ attempts + Cardinality(Wrongs(u)) <= MaxFailed - 1 + Limit * (1 + lapses[u])
        /\ account[u].lock # "locked" => attempts <= MaxFailed - 1 + Limit * lapses[u]

(* The products, which SMT need not multiply out.                           *)
LEMMA Products ==
  ASSUME NEW n \in Nat
  PROVE  /\ Limit * n \in Nat /\ Limit * (1 + n) \in Nat
         /\ Limit * (1 + n) = Limit * n + Limit
         /\ Limit * (1 + (n + 1)) = Limit * (n + 1) + Limit
         /\ Limit * (n + 1) = Limit * n + Limit
  BY LimitType

(* Every step keeps the bound on the attempts.                             *)
LEMMA StepKeepsLockout ==
  ASSUME Inv, Next, NEW u \in Users, LockoutBound(u)
  PROVE  LockoutBound(u)'
  <1>1. /\ account \in [Users -> Account] /\ proc \in [Processes -> Process]
        /\ account[u].attempts \in Nat /\ lapses \in [Users -> Nat]
        /\ lapses[u] \in Nat /\ account[u].lock \in Locks
    BY DEF Inv, TypeOK, Account
  <1>2. /\ Wrongs(u) \in SUBSET Processes /\ Wrongs(u)' \in SUBSET Processes
        /\ Limit' = Limit
    BY DEF Wrongs, Limit
  <1>3. MaxFailed \in Nat \ {0} /\ Limit \in Nat
    BY AccountsAssumption, LimitType
  <1>4. /\ Cardinality(Wrongs(u)) \in Nat /\ Cardinality(Wrongs(u)) <= Limit
        /\ Cardinality(Wrongs(u)') \in Nat /\ Cardinality(Wrongs(u)') <= Limit
    BY <1>2, Counts
  <1>5. PICK a \in Nat, w \in Nat, v \in Nat, m \in Nat, n \in Nat :
          /\ a = account[u].attempts /\ w = Cardinality(Wrongs(u))
          /\ v = Cardinality(Wrongs(u)')
          /\ m = Limit * lapses[u] /\ n = Limit * (1 + lapses[u])
          /\ n = m + Limit
    <2>1. /\ Limit * lapses[u] \in Nat /\ Limit * (1 + lapses[u]) \in Nat
          /\ Limit * (1 + lapses[u]) = Limit * lapses[u] + Limit
      BY <1>1, Products
    <2> QED BY <1>1, <1>4, <2>1, Zenon
  <1>6. /\ account[u].lock # "none" <=> a >= MaxFailed
        /\ a + w <= MaxFailed - 1 + n
        /\ account[u].lock # "locked" => a <= MaxFailed - 1 + m
    BY <1>5 DEF LockoutBound
  <1>7. CASE Untouched(u) /\ Wrongs(u)' \subseteq Wrongs(u)
    <2>1. v <= w
      BY <1>2, <1>5, <1>7, CountsFewer
    <2>2. a + v <= MaxFailed - 1 + n
      BY <1>3, <1>6, <2>1
    <2> QED BY <1>2, <1>5, <1>6, <1>7, <2>2 DEF LockoutBound, Untouched
  <1>8. CASE Untouched(u) /\ account[u].lock # "locked"
    <2>1. a + v <= MaxFailed - 1 + n
      BY <1>3, <1>4, <1>5, <1>6, <1>8
    <2> QED BY <1>2, <1>5, <1>6, <1>8, <2>1 DEF LockoutBound, Untouched
  <1>9. CASE \E p \in Processes : LoginWrong(p) /\ proc[p].user = u
    <2>1. PICK p \in Processes : LoginWrong(p) /\ proc[p].user = u
      BY <1>9
    <2>2. PICK b \in Nat, lock \in Locks :
            /\ b = a + 1
            /\ lock = IF a + 1 >= MaxFailed THEN "locked" ELSE account[u].lock
      BY <1>1, <1>5 DEF Locks
    <2>3. account'[u] = [account[u] EXCEPT !.attempts = b, !.lock = lock]
      BY <1>1, <1>5, <2>1, <2>2 DEF LoginWrong
    <2>4. account'[u].attempts = a + 1 /\ lapses' = lapses /\ account'[u].lock = lock
      <3>1. account'[u].attempts = b /\ account'[u].lock = lock
        BY <1>1, <2>3 DEF Account
      <3> QED BY <2>1, <2>2, <3>1 DEF LoginWrong
    <2>5. p \in Wrongs(u) /\ Wrongs(u)' \in SUBSET (Wrongs(u) \ {p})
      <3>1. proc' = [proc EXCEPT ![p] = Idle] /\ proc[p].at = "wrong"
        BY <2>1 DEF LoginWrong, At
      <3>2. proc'[p].at = "idle" /\ \A q \in Processes \ {p} : proc'[q] = proc[q]
        BY <1>1, <3>1 DEF Idle
      <3> QED BY <2>1, <3>1, <3>2 DEF Wrongs, At
    <2>6. v + 1 <= w
      BY <1>2, <1>5, <2>5, CountsOneLess
    <2>7. (a + 1) + v <= MaxFailed - 1 + n
      BY <1>3, <1>6, <2>6
    <2>8. account'[u].lock # "none" <=> a + 1 >= MaxFailed
      BY <1>3, <1>6, <2>2, <2>4
    <2>9. account'[u].lock # "locked" => a + 1 <= MaxFailed - 1 + m
      BY <1>3, <2>2, <2>4
    <2> QED BY <1>2, <1>5, <2>4, <2>7, <2>8, <2>9 DEF LockoutBound
  <1>10. CASE Cleared(u)
    <2>1. 0 + v <= MaxFailed - 1 + n /\ 0 <= MaxFailed - 1 + m /\ ~(0 >= MaxFailed)
      BY <1>3, <1>4, <1>5
    <2> QED BY <1>2, <1>5, <1>10, <2>1 DEF LockoutBound, Cleared
  <1>11. CASE account[u].lock = "locked" /\ LockLapses(u)
    <2>1. account'[u] = [account[u] EXCEPT !.lock = "lapsed"] /\ lapses'[u] = lapses[u] + 1
      BY <1>1, <1>11 DEF LockLapses
    <2>2. account'[u].attempts = a /\ account'[u].lock = "lapsed"
      BY <1>1, <1>5, <2>1 DEF Account
    <2>3. Wrongs(u)' = Wrongs(u)
      BY <1>11 DEF LockLapses, Wrongs, At
    <2>4. PICK k \in Nat, l \in Nat :
            /\ k = Limit * lapses'[u] /\ l = Limit * (1 + lapses'[u])
            /\ k = n /\ l = n + Limit
      BY <1>1, <1>5, <2>1, Products
    <2>5. a + v <= MaxFailed - 1 + l /\ a <= MaxFailed - 1 + k
      BY <1>3, <1>5, <1>6, <2>3, <2>4
    <2> QED BY <1>2, <1>5, <1>6, <1>11, <2>2, <2>4, <2>5 DEF LockoutBound
  <1> QED BY <1>7, <1>8, <1>9, <1>10, <1>11, LockoutCases

(* An account takes no more wrong passwords than the limit and, each time   *)
(* it is open, one for each request that may run at once; and it is locked, *)
(* or was, exactly when the limit is reached (LoginService).                *)
THEOREM GuessesAreBounded == Spec => []GuessesBounded
  <1> DEFINE J == Inv /\ \A u \in Users : LockoutBound(u)
  <1>1. Init => J
    <2> SUFFICES ASSUME Init, NEW u \in Users PROVE LockoutBound(u)
      BY InitInv
    <2>1. account[u].attempts = 0 /\ account[u].lock = "none" /\ lapses[u] = 0
      BY DEF Init
    <2>2. Wrongs(u) = {}
      BY DEF Init, Wrongs, At, Idle
    <2>3. Cardinality(Wrongs(u)) = 0
      BY <2>2, FS_EmptySet
    <2>4. Limit * (1 + 0) \in Nat /\ Limit * 0 \in Nat /\ MaxFailed \in Nat \ {0}
      BY Products, AccountsAssumption
    <2> QED BY <2>1, <2>3, <2>4 DEF LockoutBound
  <1>2. J /\ [Next]_vars => J'
    <2> SUFFICES ASSUME J, [Next]_vars PROVE J'
      OBVIOUS
    <2>1. Inv'
      BY StepInv
    <2>2. CASE Next
      BY <2>1, <2>2, StepKeepsLockout
    <2>3. CASE UNCHANGED vars
      BY <2>1, <2>3 DEF vars, LockoutBound, Wrongs, Limit, At
    <2> QED BY <2>2, <2>3
  <1>3. J => GuessesBounded
    <2> SUFFICES ASSUME J, NEW u \in Users
                 PROVE  /\ account[u].attempts <= MaxFailed - 1 + Limit * (1 + lapses[u])
                        /\ account[u].lock # "none" <=> account[u].attempts >= MaxFailed
      BY DEF GuessesBounded, Limit
    <2>1. Cardinality(Wrongs(u)) \in Nat
      BY Counts DEF Wrongs
    <2>2. account[u].attempts \in Nat /\ Limit * (1 + lapses[u]) \in Nat
      BY Products DEF Inv, TypeOK, Account
    <2> QED BY <2>1, <2>2, AccountsAssumption DEF LockoutBound
  <1> HIDE DEF J
  <1> QED BY <1>1, <1>2, <1>3, PTL DEF Spec

=============================================================================
