------------------------ MODULE UserSessions_proofs ------------------------
(***************************************************************************)
(* Proofs about UserSessions, for any users, workers, tokens and bounds.   *)
(*                                                                         *)
(* The argument: the number of account-wide revocations a user has seen    *)
(* (history[u].era) is the user's auth_epoch, and every credential, stored *)
(* or in flight, was born in the era that its epoch names.  A credential   *)
(* is accepted only if its epoch is the user's, hence only in its own era. *)
(***************************************************************************)
EXTENDS UserSessions, TLAPS

LEMMA InFlightIsRequest ==
    ASSUME TypeOK, NEW w \in Workers, requests[w].step # "idle"
    PROVE  requests[w] \in Requests
  BY DEF TypeOK, Idle

LEMMA WithoutRowsType ==
    ASSUME TypeOK, NEW u \in Users
    PROVE  /\ WithoutRowsOf(u) \in [Tokens -> RefreshRows \cup {NoRow}]
           /\ \A t \in Tokens : WithoutRowsOf(u)[t] # NoRow =>
                  WithoutRowsOf(u)[t] = rows[t] /\ rows[t].user # u
  BY DEF TypeOK, WithoutRowsOf

LEMMA BornNowType ==
    ASSUME TypeOK, NEW u \in Users
    PROVE  BornNow(u) \in Births
  BY DEF TypeOK, BornNow, Births, Accounts

LEMMA RequestTypes ==
    ASSUME NEW r \in Requests
    PROVE  RowOf(r) \in RefreshRows /\ ClaimsOf(r) \in Claims
  BY DEF Requests, RowOf, ClaimsOf, RefreshRows, Claims

-----------------------------------------------------------------------------
\* The variables keep their types: the tables hold rows and claims, and each
\* worker is idle or at a step of the handlers.
THEOREM TypeCorrect == Spec => []TypeOK
<1>1. Init => TypeOK
  BY BoundsAreNaturals DEF Init, TypeOK, Accounts, Idle, Roles, Statuses
<1>2. TypeOK /\ [Next]_vars => TypeOK'
  <2> SUFFICES ASSUME TypeOK, [Next]_vars PROVE TypeOK'
    OBVIOUS
  <2> USE BoundsAreNaturals
  <2>1. ASSUME NEW w \in Workers, NEW t \in Tokens, SelectRow(w, t) PROVE TypeOK'
    <3>1. rows[t] \in RefreshRows
      BY <2>1 DEF SelectRow, TypeOK
    <3>2. requests'[w] \in Requests
      BY <2>1, <3>1 DEF SelectRow, Goto, TypeOK, Requests, RefreshRows, Roles
    <3> QED
      BY <2>1, <3>2 DEF SelectRow, Goto, TypeOK
  <2>2. ASSUME NEW w \in Workers, RevokeReused(w) PROVE TypeOK'
    <3>1. requests[w] \in Requests
      BY <2>2, InFlightIsRequest DEF RevokeReused
    <3>2. requests[w].user \in Users
      BY <3>1 DEF Requests
    <3>3. history' \in [Users -> [era : Nat, factors : Nat, reuses : 0 .. MaxReuse]]
      BY <2>2, <3>2 DEF RevokeReused, TypeOK
    <3>4. requests' \in [Workers -> Requests \cup {Idle}]
      BY <2>2 DEF RevokeReused, Goto, TypeOK
    <3>5. rows' \in [Tokens -> RefreshRows \cup {NoRow}]
      BY <2>2, <3>2, WithoutRowsType DEF RevokeReused
    <3> QED
      BY <2>2, <3>3, <3>4, <3>5 DEF RevokeReused, TypeOK
  <2>3. ASSUME NEW w \in Workers, LoadUser(w) PROVE TypeOK'
    <3>1. requests[w] \in Requests
      BY <2>3, InFlightIsRequest DEF LoadUser
    <3>2. requests'[w] \in Requests
      BY <2>3, <3>1 DEF LoadUser, Goto, TypeOK, Requests, Accounts
    <3> QED
      BY <2>3, <3>2 DEF LoadUser, Goto, TypeOK
  <2>4. ASSUME NEW w \in Workers, BuildClaims(w) PROVE TypeOK'
    <3>1. requests[w] \in Requests
      BY <2>4, InFlightIsRequest DEF BuildClaims
    <3>2. users[requests[w].user].revision \in Nat
      BY <3>1 DEF TypeOK, Requests, Accounts
    <3>3. requests' = [requests EXCEPT ![w] = [requests[w] EXCEPT !.step = "assert",
                          !.revision = users[requests[w].user].revision]]
      BY <2>4 DEF BuildClaims, Goto
    <3>4. requests'[w] \in Requests
      BY <3>1, <3>2, <3>3 DEF TypeOK, Requests
    <3> QED
      BY <2>4, <3>3, <3>4 DEF BuildClaims, TypeOK
  <2>5. ASSUME NEW w \in Workers, AssertCurrent(w) PROVE TypeOK'
    <3>1. requests[w] \in Requests
      BY <2>5, InFlightIsRequest DEF AssertCurrent
    <3>2. requests'[w] \in Requests
      BY <2>5, <3>1 DEF AssertCurrent, Goto, TypeOK, Requests
    <3> QED
      BY <2>5, <3>2 DEF AssertCurrent, Goto, TypeOK
  <2>6. ASSUME NEW w \in Workers, MarkRotated(w) PROVE TypeOK'
    <3>1. requests[w] \in Requests
      BY <2>6, InFlightIsRequest DEF MarkRotated
    <3>2. requests'[w] \in Requests
      BY <2>6, <3>1 DEF MarkRotated, Goto, TypeOK, Requests
    <3> DEFINE t == requests[w].token
    <3>3. CASE rows[t] = NoRow
      BY <2>6, <3>2, <3>3 DEF MarkRotated, Goto, TypeOK
    <3>4. CASE rows[t] # NoRow /\ t \in Tokens
      <4>1. [rows[t] EXCEPT !.rotated = TRUE] \in RefreshRows
        <5>1. rows[t] \in RefreshRows
          BY <3>4 DEF TypeOK
        <5> QED
          BY <5>1 DEF RefreshRows
      <4>2. rows' = [rows EXCEPT ![t] = [rows[t] EXCEPT !.rotated = TRUE]]
        BY <2>6, <3>4 DEF MarkRotated
      <4>3. rows' \in [Tokens -> RefreshRows \cup {NoRow}]
        BY <3>4, <4>1, <4>2 DEF TypeOK
      <4> QED
        BY <2>6, <3>2, <4>3 DEF MarkRotated, Goto, TypeOK
    <3>5. CASE t \notin Tokens
      <4>1. rows' = rows
        BY <2>6, <3>5 DEF MarkRotated, TypeOK
      <4> QED
        BY <2>6, <3>2, <4>1 DEF MarkRotated, Goto, TypeOK
    <3> QED
      BY <3>3, <3>4, <3>5
  <2>7. ASSUME NEW w \in Workers, NEW n \in Tokens, StoreSession(w, n) PROVE TypeOK'
    <3>1. requests[w] \in Requests
      BY <2>7, InFlightIsRequest DEF StoreSession
    <3>2. requests[w].token \in Tokens \cup {"login"}
      BY <3>1 DEF Requests
    <3> QED
      BY <2>7, <3>1, <3>2, RequestTypes DEF StoreSession, Goto, TypeOK
  <2>8. ASSUME NEW w \in Workers, Reject(w) PROVE TypeOK'
    BY <2>8 DEF Reject, Goto, TypeOK
  <2>9. ASSUME NEW w \in Workers, Fail(w) PROVE TypeOK'
    BY <2>9 DEF Fail, Goto, TypeOK
  <2>10. ASSUME NEW w \in Workers, NEW u \in Users, VerifyPasskey(w, u) PROVE TypeOK'
    <3>1. requests'[w] \in Requests
      BY <2>10, BornNowType DEF VerifyPasskey, Goto, TypeOK, Requests, Accounts
    <3> QED
      BY <2>10, <3>1 DEF VerifyPasskey, Goto, TypeOK
  <2>11. ASSUME NEW u \in Users, NEW n \in Tokens, Signup(u, n) PROVE TypeOK'
    <3> DEFINE r == [user |-> u, role |-> "general", epoch |-> 0, revision |-> 0,
                     evidence |-> NoEvidence, born |-> BornNow(u)]
    <3>1. RowOf(r) \in RefreshRows /\ ClaimsOf(r) \in Claims
      BY BornNowType DEF RowOf, ClaimsOf, RefreshRows, Claims, Roles
    <3>2. users' \in [Users -> Accounts]
      BY <2>11 DEF Signup, TypeOK, Accounts, Statuses
    <3> QED
      BY <2>11, <3>1, <3>2 DEF Signup, TypeOK
  <2>12. ASSUME NEW u \in Users, NEW to \in Statuses, DecideAccess(u, to) PROVE TypeOK'
    <3>1. users' \in [Users -> Accounts]
      BY <2>12 DEF DecideAccess, TypeOK, Accounts
    <3> QED
      BY <2>12, <3>1, WithoutRowsType DEF DecideAccess, TypeOK
  <2>13. ASSUME NEW u \in Users, GrantAdminRole(u) PROVE TypeOK'
    <3>1. users' \in [Users -> Accounts]
      BY <2>13 DEF GrantAdminRole, TypeOK, Accounts, Roles, Statuses
    <3> QED
      BY <2>13, <3>1 DEF GrantAdminRole, TypeOK
  <2>14. ASSUME NEW u \in Users, RevokeEverywhere(u) PROVE TypeOK'
    <3>1. users' \in [Users -> Accounts]
      BY <2>14 DEF RevokeEverywhere, TypeOK, Accounts
    <3>2. history' \in [Users -> [era : Nat, factors : Nat, reuses : 0 .. MaxReuse]]
      BY <2>14 DEF RevokeEverywhere, TypeOK
    <3>3. rows' \in [Tokens -> RefreshRows \cup {NoRow}]
      BY <2>14, WithoutRowsType DEF RevokeEverywhere
    <3> QED
      BY <2>14, <3>1, <3>2, <3>3 DEF RevokeEverywhere, TypeOK
  <2>15. ASSUME NEW u \in Users, ChangeFactor(u) PROVE TypeOK'
    <3>1. users[u].revision + 1 \in 0 .. MaxRevision
      BY <2>15 DEF ChangeFactor, TypeOK, Accounts
    <3>2. users' \in [Users -> Accounts]
      BY <2>15, <3>1 DEF ChangeFactor, TypeOK, Accounts
    <3>3. history' \in [Users -> [era : Nat, factors : Nat, reuses : 0 .. MaxReuse]]
      BY <2>15 DEF ChangeFactor, TypeOK
    <3> QED
      BY <2>15, <3>2, <3>3, WithoutRowsType DEF ChangeFactor, TypeOK
  <2>16. ASSUME NEW t \in Tokens, Logout(t) PROVE TypeOK'
    BY <2>16 DEF Logout, TypeOK
  <2>17. ASSUME NEW t \in Tokens, ExpireRow(t) PROVE TypeOK'
    BY <2>17 DEF ExpireRow, TypeOK, RefreshRows
  <2>18. CASE UNCHANGED vars
    BY <2>18 DEF vars, TypeOK
  <2> QED
    BY <2>1, <2>2, <2>3, <2>4, <2>5, <2>6, <2>7, <2>8, <2>9, <2>10, <2>11, <2>12,
       <2>13, <2>14, <2>15, <2>16, <2>17, <2>18 DEF Next, RequestStep, UserStep
<1> QED
  BY <1>1, <1>2, PTL DEF Spec

-----------------------------------------------------------------------------
(* The inductive invariant.                                                *)

\* What a credential (a row, an access token or a request) shows of its birth,
\* against a table of users: it was born in the era its epoch names, that era
\* has begun, and while it lasts the user's role is the one at the birth.
BornWell(table, x) ==
    /\ x.born.era = x.epoch
    /\ x.epoch <= table[x.user].epoch
    /\ x.epoch = table[x.user].epoch => x.born.role = table[x.user].role

SessionInvariant ==
    /\ \A u \in Users : /\ history[u].era = users[u].epoch
                        /\ ~Exists(u) => /\ users[u].epoch = 0
                                         /\ users[u].role = "general"
    /\ \A t \in Tokens : rows[t] # NoRow => BornWell(users, rows[t])
    /\ \A c \in access : BornWell(users, c)
    /\ \A w \in Workers : requests[w] # Idle => BornWell(users, requests[w])

\* A step may start a new era of a user, and change its role only then.
UsersAdvance ==
    \A u \in Users : \/ users'[u].epoch > users[u].epoch
                     \/ /\ users'[u].epoch = users[u].epoch
                        /\ users'[u].role = users[u].role

LEMMA BornWellIsKept ==
    ASSUME TypeOK, TypeOK', UsersAdvance, NEW x, x.user \in Users, x.epoch \in Nat,
           BornWell(users, x)
    PROVE  BornWell(users', x)
<1> DEFINE u == x.user
<1>1. users[u].epoch \in Nat /\ users'[u].epoch \in Nat
  BY BoundsAreNaturals DEF TypeOK, Accounts
<1> HIDE DEF u
<1> QED
  BY <1>1 DEF BornWell, UsersAdvance, u

LEMMA BirthOfRequest ==
    ASSUME TypeOK, SessionInvariant, NEW u \in Users
    PROVE  /\ BornNow(u).era = users[u].epoch
           /\ BornNow(u).role = users[u].role
           /\ users[u].epoch \in Nat
  BY BoundsAreNaturals DEF SessionInvariant, BornNow, TypeOK, Accounts

\* Steps that keep every row, token and request, or drop or mark some, keep
\* the invariant as long as the counters advance together.
LEMMA CredentialsOnlyDropped ==
    ASSUME TypeOK, TypeOK', SessionInvariant, UsersAdvance,
           \A t \in Tokens : rows'[t] # NoRow =>
               /\ rows[t] # NoRow
               /\ rows'[t].user = rows[t].user
               /\ rows'[t].epoch = rows[t].epoch
               /\ rows'[t].born = rows[t].born,
           access' = access,
           \A w \in Workers : requests'[w] # Idle =>
               /\ requests[w] # Idle
               /\ requests'[w].user = requests[w].user
               /\ requests'[w].epoch = requests[w].epoch
               /\ requests'[w].born = requests[w].born,
           \A u \in Users : /\ history'[u].era = users'[u].epoch
                            /\ Exists(u)' \/ (/\ users'[u].epoch = 0
                                              /\ users'[u].role = "general")
    PROVE  SessionInvariant'
<1>1. ASSUME NEW t \in Tokens, rows'[t] # NoRow PROVE BornWell(users', rows'[t])
  <2>1. rows[t].user \in Users /\ rows[t].epoch \in Nat /\ BornWell(users, rows[t])
    BY <1>1 DEF TypeOK, RefreshRows, SessionInvariant
  <2>2. BornWell(users', rows[t])
    BY <2>1, BornWellIsKept
  <2> QED
    BY <1>1, <2>2 DEF BornWell
<1>2. ASSUME NEW c \in access PROVE BornWell(users', c)
  <2>1. c.user \in Users /\ c.epoch \in Nat /\ BornWell(users, c)
    BY <1>2 DEF TypeOK, Claims, SessionInvariant
  <2> QED
    BY <2>1, BornWellIsKept
<1>3. ASSUME NEW w \in Workers, requests'[w] # Idle PROVE BornWell(users', requests'[w])
  <2>1. requests[w] \in Requests /\ BornWell(users, requests[w])
    BY <1>3 DEF TypeOK, SessionInvariant
  <2>2. requests[w].user \in Users /\ requests[w].epoch \in Nat
    BY <2>1 DEF Requests
  <2>3. BornWell(users', requests[w])
    BY <2>1, <2>2, BornWellIsKept
  <2> QED
    BY <1>3, <2>3 DEF BornWell
<1> QED
  BY <1>1, <1>2, <1>3 DEF SessionInvariant, Exists

LEMMA SessionInvariantInitially == Init => SessionInvariant
  BY DEF Init, SessionInvariant, Exists, Idle

LEMMA SessionInvariantStep ==
    TypeOK /\ TypeOK' /\ SessionInvariant /\ [Next]_vars => SessionInvariant'
<1> SUFFICES ASSUME TypeOK, TypeOK', SessionInvariant, [Next]_vars
             PROVE  SessionInvariant'
  OBVIOUS
<1> USE BoundsAreNaturals
<1>0. ASSUME UNCHANGED users PROVE UsersAdvance
  BY <1>0 DEF UsersAdvance
<1>a. \A u \in Users : users[u].epoch \in Nat
  BY DEF TypeOK, Accounts
<1>1. ASSUME NEW w \in Workers, NEW t \in Tokens, SelectRow(w, t) PROVE SessionInvariant'
  <2>1. BornWell(users, rows[t])
    BY <1>1 DEF SelectRow, SessionInvariant
  <2>2. BornWell(users, requests'[w])
    BY <1>1, <2>1 DEF SelectRow, Goto, TypeOK, BornWell
  <2>3. \A v \in Workers : v # w => requests'[v] = requests[v]
    BY <1>1 DEF SelectRow, Goto, TypeOK
  <2> QED
    BY <1>1, <2>2, <2>3 DEF SelectRow, SessionInvariant, Exists
<1>2. ASSUME NEW w \in Workers, RevokeReused(w) PROVE SessionInvariant'
  <2> DEFINE v == requests[w].user
  <2>1. requests[w] \in Requests /\ v \in Users
    BY <1>2, InFlightIsRequest DEF RevokeReused, Requests
  <2>2. \A t \in Tokens : rows'[t] # NoRow => rows'[t] = rows[t]
    BY <1>2, <2>1, WithoutRowsType DEF RevokeReused
  <2>3. \A x \in Workers : requests'[x] # Idle => requests'[x] = requests[x]
    BY <1>2 DEF RevokeReused, Goto, TypeOK
  <2>4. \A u \in Users : history'[u].era = history[u].era
    BY <1>2, <2>1 DEF RevokeReused, TypeOK
  <2>5. users' = users /\ access' = access
    BY <1>2 DEF RevokeReused
  <2> QED
    BY <1>0, <2>2, <2>3, <2>4, <2>5, CredentialsOnlyDropped DEF SessionInvariant, Exists
<1>3. ASSUME NEW w \in Workers,
             LoadUser(w) \/ BuildClaims(w) \/ AssertCurrent(w) \/ MarkRotated(w)
             \/ Reject(w) \/ Fail(w)
      PROVE  SessionInvariant'
  <2>1. UNCHANGED <<users, access, history>>
    BY <1>3 DEF LoadUser, BuildClaims, AssertCurrent, MarkRotated, Reject, Fail
  <2>2. \A x \in Workers : requests'[x] # Idle =>
            /\ requests[x] # Idle
            /\ requests'[x].user = requests[x].user
            /\ requests'[x].epoch = requests[x].epoch
            /\ requests'[x].born = requests[x].born
    <3>1. \A x \in Workers : x # w => requests'[x] = requests[x]
      BY <1>3 DEF LoadUser, BuildClaims, AssertCurrent, MarkRotated, Reject, Fail, Goto, TypeOK
    <3>2. CASE Reject(w) \/ Fail(w)
      BY <3>1, <3>2 DEF Reject, Fail, Goto, TypeOK
    <3>3. CASE LoadUser(w)
      <4>1. requests[w] \in Requests /\ requests[w] # Idle
        BY <3>3, InFlightIsRequest DEF LoadUser, Idle
      <4> QED
        BY <3>1, <3>3, <4>1 DEF LoadUser, Goto, TypeOK, Requests
    <3>4. CASE BuildClaims(w)
      <4>1. requests[w] \in Requests /\ requests[w] # Idle
        BY <3>4, InFlightIsRequest DEF BuildClaims, Idle
      <4>2. requests'[w] = [requests[w] EXCEPT !.step = "assert",
                               !.revision = users[requests[w].user].revision]
        BY <3>4 DEF BuildClaims, Goto, TypeOK
      <4> QED
        BY <3>1, <4>1, <4>2 DEF Requests
    <3>5. CASE AssertCurrent(w)
      <4>1. requests[w] \in Requests /\ requests[w] # Idle
        BY <3>5, InFlightIsRequest DEF AssertCurrent, Idle
      <4> QED
        BY <3>1, <3>5, <4>1 DEF AssertCurrent, Goto, TypeOK, Requests
    <3>6. CASE MarkRotated(w)
      <4>1. requests[w] \in Requests /\ requests[w] # Idle
        BY <3>6, InFlightIsRequest DEF MarkRotated, Idle
      <4> QED
        BY <3>1, <3>6, <4>1 DEF MarkRotated, Goto, TypeOK, Requests
    <3> QED
      BY <1>3, <3>2, <3>3, <3>4, <3>5, <3>6
  <2>3. \A t \in Tokens : rows'[t] # NoRow =>
            /\ rows[t] # NoRow
            /\ rows'[t].user = rows[t].user
            /\ rows'[t].epoch = rows[t].epoch
            /\ rows'[t].born = rows[t].born
    <3>1. CASE ~MarkRotated(w)
      BY <1>3, <3>1 DEF LoadUser, BuildClaims, AssertCurrent, Reject, Fail
    <3>2. CASE MarkRotated(w)
      BY <3>2 DEF MarkRotated, TypeOK, RefreshRows
    <3> QED
      BY <3>1, <3>2
  <2> QED
    BY <1>0, <2>1, <2>2, <2>3, CredentialsOnlyDropped DEF SessionInvariant, Exists
<1>4. ASSUME NEW w \in Workers, NEW n \in Tokens, StoreSession(w, n) PROVE SessionInvariant'
  <2> DEFINE r == requests[w]
  <2>1. r \in Requests /\ r # Idle
    BY <1>4, InFlightIsRequest DEF StoreSession, Idle
  <2>2. BornWell(users, r)
    BY <2>1 DEF SessionInvariant
  <2>3. BornWell(users, RowOf(r)) /\ BornWell(users, ClaimsOf(r))
    BY <2>2 DEF BornWell, RowOf, ClaimsOf
  <2>4. rows' = [rows EXCEPT ![n] = RowOf(r)] /\ access' = access \cup {ClaimsOf(r)}
    BY <1>4 DEF StoreSession
  <2>5. \A x \in Workers : requests'[x] # Idle => requests'[x] = requests[x]
    BY <1>4 DEF StoreSession, Goto, TypeOK
  <2>6. UNCHANGED <<users, history>>
    BY <1>4 DEF StoreSession
  <2>7. \A t \in Tokens : rows'[t] # NoRow => BornWell(users, rows'[t])
    BY <2>3, <2>4 DEF SessionInvariant, TypeOK
  <2> HIDE DEF r
  <2> QED
    BY <2>3, <2>4, <2>5, <2>6, <2>7 DEF SessionInvariant, Exists
<1>5. ASSUME NEW w \in Workers, NEW u \in Users, VerifyPasskey(w, u) PROVE SessionInvariant'
  <2>1. BornWell(users, requests'[w])
    BY <1>5, BirthOfRequest DEF VerifyPasskey, Goto, TypeOK, BornWell
  <2>2. \A v \in Workers : v # w => requests'[v] = requests[v]
    BY <1>5 DEF VerifyPasskey, Goto, TypeOK
  <2> QED
    BY <1>5, <2>1, <2>2 DEF VerifyPasskey, SessionInvariant, Exists
<1>6. ASSUME NEW u \in Users, NEW n \in Tokens, Signup(u, n) PROVE SessionInvariant'
  <2> DEFINE r == [user |-> u, role |-> "general", epoch |-> 0, revision |-> 0,
                   evidence |-> NoEvidence, born |-> BornNow(u)]
  <2>1. users[u].epoch = 0 /\ users[u].role = "general"
    BY <1>6 DEF Signup, SessionInvariant
  <2>2. BornWell(users, RowOf(r)) /\ BornWell(users, ClaimsOf(r))
    BY <2>1, BirthOfRequest DEF BornWell, RowOf, ClaimsOf
  <2>3. \A v \in Users : users'[v].epoch = users[v].epoch /\ users'[v].role = users[v].role
    BY <1>6 DEF Signup, TypeOK, Accounts
  <2>4. \A x : x.user \in Users /\ BornWell(users, x) => BornWell(users', x)
    BY <2>3 DEF BornWell
  <2>5. rows' = [rows EXCEPT ![n] = RowOf(r)] /\ access' = access \cup {ClaimsOf(r)}
    BY <1>6 DEF Signup
  <2>6. RowOf(r).user = u /\ ClaimsOf(r).user = u
    BY DEF RowOf, ClaimsOf
  <2> HIDE DEF r
  <2>7. \A t \in Tokens : rows'[t] # NoRow => rows'[t].user \in Users /\ BornWell(users, rows'[t])
    BY <2>2, <2>5, <2>6 DEF SessionInvariant, TypeOK, RefreshRows
  <2>8. \A c \in access' : c.user \in Users /\ BornWell(users, c)
    BY <2>2, <2>5, <2>6 DEF SessionInvariant, TypeOK, Claims
  <2>9. \A w \in Workers : requests'[w] # Idle =>
            requests'[w].user \in Users /\ BornWell(users, requests'[w])
    BY <1>6 DEF Signup, SessionInvariant, TypeOK, Requests
  <2>10. \A v \in Users : /\ history'[v].era = users'[v].epoch
                          /\ ~Exists(v)' => users'[v].epoch = 0 /\ users'[v].role = "general"
    BY <1>6, <2>1, <2>3 DEF Signup, SessionInvariant, Exists, TypeOK
  <2> QED
    BY <2>4, <2>7, <2>8, <2>9, <2>10 DEF SessionInvariant
<1>7. ASSUME NEW u \in Users,
             (\E to \in Statuses : DecideAccess(u, to)) \/ GrantAdminRole(u)
             \/ RevokeEverywhere(u) \/ ChangeFactor(u)
      PROVE  SessionInvariant'
  <2>1. UNCHANGED <<access, requests>>
    BY <1>7 DEF DecideAccess, GrantAdminRole, RevokeEverywhere, ChangeFactor
  <2>2. \A t \in Tokens : rows'[t] # NoRow => rows'[t] = rows[t]
    <3>1. rows' = rows \/ rows' = WithoutRowsOf(u)
      <4>1. ASSUME NEW to \in Statuses, DecideAccess(u, to)
            PROVE  rows' = rows \/ rows' = WithoutRowsOf(u)
        BY <4>1 DEF DecideAccess
      <4> QED
        BY <1>7, <4>1 DEF GrantAdminRole, RevokeEverywhere, ChangeFactor
    <3> QED
      BY <3>1, WithoutRowsType
  <2>3. \A v \in Users : v # u => users'[v] = users[v] /\ history'[v] = history[v]
    BY <1>7 DEF DecideAccess, GrantAdminRole, RevokeEverywhere, ChangeFactor, TypeOK
  <2>4. /\ \/ /\ users'[u].epoch = users[u].epoch + 1
              /\ history'[u].era = history[u].era + 1
           \/ /\ users'[u].epoch = users[u].epoch
              /\ users'[u].role = users[u].role
              /\ history'[u].era = history[u].era
        /\ users'[u].status # "absent"
    <3>1. ASSUME NEW to \in Statuses, DecideAccess(u, to)
          PROVE  /\ users'[u].epoch = users[u].epoch + 1
                 /\ history'[u].era = history[u].era + 1
                 /\ users'[u].status # "absent"
      BY <3>1 DEF DecideAccess, Statuses, TypeOK, Accounts
    <3>2. CASE GrantAdminRole(u)
      BY <3>2 DEF GrantAdminRole, TypeOK, Accounts
    <3>3. CASE RevokeEverywhere(u)
      BY <3>3 DEF RevokeEverywhere, Exists, TypeOK, Accounts
    <3>4. CASE ChangeFactor(u)
      BY <3>4 DEF ChangeFactor, Exists, TypeOK, Accounts
    <3> QED
      BY <1>7, <3>1, <3>2, <3>3, <3>4
  <2>5. UsersAdvance
    BY <1>a, <2>3, <2>4 DEF UsersAdvance
  <2>6. \A v \in Users : /\ history'[v].era = users'[v].epoch
                         /\ Exists(v)' \/ (/\ users'[v].epoch = 0
                                           /\ users'[v].role = "general")
    BY <2>3, <2>4 DEF SessionInvariant, Exists
  <2> QED
    BY <2>1, <2>2, <2>5, <2>6, CredentialsOnlyDropped
<1>8. ASSUME NEW t \in Tokens, Logout(t) \/ ExpireRow(t) PROVE SessionInvariant'
  <2>1. \A x \in Tokens : rows'[x] # NoRow =>
            /\ rows[x] # NoRow
            /\ rows'[x].user = rows[x].user
            /\ rows'[x].epoch = rows[x].epoch
            /\ rows'[x].born = rows[x].born
    BY <1>8 DEF Logout, ExpireRow, TypeOK, RefreshRows
  <2>2. UNCHANGED <<users, access, requests, history>>
    BY <1>8 DEF Logout, ExpireRow
  <2> QED
    BY <1>0, <2>1, <2>2, CredentialsOnlyDropped DEF SessionInvariant, Exists
<1>9. CASE UNCHANGED vars
  BY <1>9 DEF vars, SessionInvariant, Exists
<1> QED
  BY <1>1, <1>2, <1>3, <1>4, <1>5, <1>6, <1>7, <1>8, <1>9 DEF Next, RequestStep, UserStep

\* In every reachable state the era a credential was born in is the one its
\* epoch names, and the role of its user has not changed since unless the
\* epoch has: auth_epoch advances with every revocation and every promotion.
THEOREM SessionInvariantHolds == Spec => []SessionInvariant
  BY TypeCorrect, SessionInvariantInitially, SessionInvariantStep, PTL DEF Spec

-----------------------------------------------------------------------------
(* The properties.                                                         *)

\* No refresh token and no access token of a login before an account-wide
\* revocation is accepted after it, whatever requests were in flight: refresh
\* stores the epoch it read, and every later check compares it.
THEOREM RevocationFinal == Spec => []RevocationIsFinal
<1>1. TypeOK /\ SessionInvariant => RevocationIsFinal
  <2> SUFFICES ASSUME TypeOK, SessionInvariant PROVE RevocationIsFinal
    OBVIOUS
  <2>1. ASSUME NEW t \in Tokens, Redeemable(t)
        PROVE  rows[t].born.era = history[rows[t].user].era
    <3>1. rows[t].user \in Users /\ BornWell(users, rows[t])
      BY <2>1 DEF Redeemable, TypeOK, RefreshRows, SessionInvariant
    <3> QED
      BY <2>1, <3>1 DEF Redeemable, BornWell, SessionInvariant
  <2>2. ASSUME NEW c \in access, Current(c) PROVE c.born.era = history[c.user].era
    <3>1. c.user \in Users /\ BornWell(users, c)
      BY DEF TypeOK, Claims, SessionInvariant
    <3> QED
      BY <2>2, <3>1 DEF Current, BornWell, SessionInvariant
  <2> QED
    BY <2>1, <2>2 DEF RevocationIsFinal
<1> QED
  BY <1>1, TypeCorrect, SessionInvariantHolds, PTL

\* An access token that is accepted names the role its user had at the login
\* the session descends from, although BuildClaims copies the present role
\* into it at every refresh.
THEOREM RoleFixed == Spec => []RoleIsFixedAtLogin
<1>1. TypeOK /\ SessionInvariant => RoleIsFixedAtLogin
  <2> SUFFICES ASSUME TypeOK, SessionInvariant, NEW c \in access, Current(c)
               PROVE  c.role = c.born.role
    BY DEF RoleIsFixedAtLogin
  <2>1. BornWell(users, c)
    BY DEF SessionInvariant
  <2> QED
    BY <2>1 DEF Current, BornWell
<1> QED
  BY <1>1, TypeCorrect, SessionInvariantHolds, PTL

-----------------------------------------------------------------------------
(* Factor changes.                                                         *)

\* The evidence of a credential is the revision its login saw, and claims
\* never name a revision the user has not reached.
EvidenceWell(x) == x.evidence # NoEvidence => x.evidence = x.born.factors

FactorInvariant ==
    /\ \A u \in Users : history[u].factors = users[u].revision
    /\ \A t \in Tokens : rows[t] # NoRow => EvidenceWell(rows[t])
    /\ \A c \in access : EvidenceWell(c) /\ c.revision <= users[c.user].revision
    /\ \A w \in Workers : requests[w] # Idle =>
           /\ EvidenceWell(requests[w])
           /\ requests[w].revision <= users[requests[w].user].revision

\* A step that raises a revision, if it touches one, and otherwise stores only
\* well-formed credentials keeps the invariant.
LEMMA FactorInvariantKept ==
    ASSUME TypeOK, TypeOK', FactorInvariant,
           \A u \in Users : /\ users'[u].revision >= users[u].revision
                            /\ history'[u].factors = users'[u].revision,
           \A t \in Tokens : rows'[t] # NoRow => EvidenceWell(rows'[t]),
           \A c \in access' : c \in access \/ (/\ EvidenceWell(c)
                                               /\ c.revision <= users'[c.user].revision),
           \A w \in Workers : requests'[w] # Idle =>
               \/ requests'[w] = requests[w]
               \/ /\ EvidenceWell(requests'[w])
                  /\ requests'[w].revision <= users'[requests'[w].user].revision
    PROVE  FactorInvariant'
<1>1. ASSUME NEW x, x.user \in Users, x.revision \in Nat,
             x.revision <= users[x.user].revision
      PROVE  x.revision <= users'[x.user].revision
  <2> DEFINE a == users[x.user].revision
             b == users'[x.user].revision
  <2>1. a \in Nat /\ b \in Nat /\ a <= b
    BY <1>1, BoundsAreNaturals DEF TypeOK, Accounts
  <2>2. x.revision <= a
    BY <1>1
  <2> HIDE DEF a, b
  <2>3. x.revision <= b
    BY <1>1, <2>1, <2>2
  <2> QED
    BY <2>3 DEF b
<1>2. ASSUME NEW c \in access' PROVE EvidenceWell(c) /\ c.revision <= users'[c.user].revision
  <2>1. CASE c \in access
    <3>1. c.user \in Users /\ c.revision \in Nat
      BY <2>1 DEF TypeOK, Claims
    <3>2. EvidenceWell(c) /\ c.revision <= users[c.user].revision
      BY <2>1 DEF FactorInvariant
    <3> QED
      BY <1>1, <3>1, <3>2
  <2> QED
    BY <1>2, <2>1
<1>3. ASSUME NEW w \in Workers, requests'[w] # Idle
      PROVE  /\ EvidenceWell(requests'[w])
             /\ requests'[w].revision <= users'[requests'[w].user].revision
  <2>1. CASE requests'[w] = requests[w]
    <3>1. requests[w] \in Requests
      BY <1>3, <2>1 DEF TypeOK
    <3>2. requests[w].user \in Users /\ requests[w].revision \in Nat
      BY <3>1 DEF Requests
    <3>3. EvidenceWell(requests[w]) /\ requests[w].revision <= users[requests[w].user].revision
      BY <1>3, <2>1 DEF FactorInvariant
    <3>4. requests[w].revision <= users'[requests[w].user].revision
      BY <1>1, <3>2, <3>3
    <3> QED
      BY <2>1, <3>3, <3>4
  <2> QED
    BY <1>3, <2>1
<1> QED
  BY <1>2, <1>3 DEF FactorInvariant

LEMMA FactorInvariantStep ==
    TypeOK /\ TypeOK' /\ FactorInvariant /\ [Next]_vars => FactorInvariant'
<1> SUFFICES ASSUME TypeOK, TypeOK', FactorInvariant, [Next]_vars
             PROVE  FactorInvariant'
  OBVIOUS
<1>a. \A u \in Users : /\ users[u].revision \in Nat
                       /\ history[u].factors = users[u].revision
  BY BoundsAreNaturals DEF TypeOK, Accounts, FactorInvariant
<1>b. ASSUME UNCHANGED <<users, history>>
      PROVE  \A u \in Users : /\ users'[u].revision >= users[u].revision
                              /\ history'[u].factors = users'[u].revision
  BY <1>a, <1>b
<1>c. ASSUME \A t \in Tokens : rows'[t] # NoRow =>
                 /\ rows[t] # NoRow
                 /\ rows'[t].evidence = rows[t].evidence
                 /\ rows'[t].born = rows[t].born
      PROVE  \A t \in Tokens : rows'[t] # NoRow => EvidenceWell(rows'[t])
  BY <1>c DEF FactorInvariant, EvidenceWell
<1>d. ASSUME NEW w \in Workers, UNCHANGED <<users, access, history>>,
             \A t \in Tokens : rows'[t] # NoRow =>
                 /\ rows[t] # NoRow
                 /\ rows'[t].evidence = rows[t].evidence
                 /\ rows'[t].born = rows[t].born,
             \A x \in Workers : x # w => requests'[x] = requests[x],
             requests'[w] # Idle =>
                 /\ EvidenceWell(requests'[w])
                 /\ requests'[w].revision <= users[requests'[w].user].revision
      PROVE  FactorInvariant'
  BY <1>b, <1>c, <1>d, FactorInvariantKept
<1>1. ASSUME NEW w \in Workers, NEW t \in Tokens, SelectRow(w, t) PROVE FactorInvariant'
  <2>1. rows[t] # NoRow /\ rows[t] \in RefreshRows
    BY <1>1 DEF SelectRow, TypeOK
  <2>2. rows[t].user \in Users /\ EvidenceWell(rows[t])
    BY <2>1 DEF RefreshRows, FactorInvariant
  <2>3. EvidenceWell(requests'[w])
        /\ requests'[w].revision <= users[requests'[w].user].revision
    BY <1>1, <1>a, <2>2 DEF SelectRow, Goto, TypeOK, EvidenceWell
  <2>4. \A x \in Workers : x # w => requests'[x] = requests[x]
    BY <1>1 DEF SelectRow, Goto, TypeOK
  <2> QED
    BY <1>1, <1>d, <2>3, <2>4 DEF SelectRow
<1>2. ASSUME NEW w \in Workers, RevokeReused(w) PROVE FactorInvariant'
  <2> DEFINE v == requests[w].user
  <2>1. requests[w] \in Requests /\ v \in Users
    BY <1>2, InFlightIsRequest DEF RevokeReused, Requests
  <2>2. \A t \in Tokens : rows'[t] # NoRow => rows'[t] = rows[t]
    BY <1>2, <2>1, WithoutRowsType DEF RevokeReused
  <2>3. \A x \in Workers : requests'[x] # Idle => requests'[x] = requests[x]
    BY <1>2 DEF RevokeReused, Goto, TypeOK
  <2>4. \A u \in Users : history'[u].factors = history[u].factors
    BY <1>2, <2>1 DEF RevokeReused, TypeOK
  <2>5. users' = users /\ access' = access
    BY <1>2 DEF RevokeReused
  <2>6. \A t \in Tokens : rows'[t] # NoRow => EvidenceWell(rows'[t])
    BY <2>2 DEF FactorInvariant
  <2> QED
    BY <1>a, <2>3, <2>4, <2>5, <2>6, FactorInvariantKept
<1>3. ASSUME NEW w \in Workers,
             LoadUser(w) \/ BuildClaims(w) \/ AssertCurrent(w) \/ MarkRotated(w)
             \/ Reject(w) \/ Fail(w)
      PROVE  FactorInvariant'
  <2>1. UNCHANGED <<users, access, history>>
    BY <1>3 DEF LoadUser, BuildClaims, AssertCurrent, MarkRotated, Reject, Fail
  <2>2. \A x \in Workers : x # w => requests'[x] = requests[x]
    BY <1>3 DEF LoadUser, BuildClaims, AssertCurrent, MarkRotated, Reject, Fail, Goto, TypeOK
  <2>3. \A t \in Tokens : rows'[t] # NoRow =>
            /\ rows[t] # NoRow
            /\ rows'[t].evidence = rows[t].evidence
            /\ rows'[t].born = rows[t].born
    <3>1. CASE ~MarkRotated(w)
      BY <1>3, <3>1 DEF LoadUser, BuildClaims, AssertCurrent, Reject, Fail
    <3>2. CASE MarkRotated(w)
      BY <3>2 DEF MarkRotated, TypeOK, RefreshRows
    <3> QED
      BY <3>1, <3>2
  <2>4. requests'[w] # Idle =>
            /\ EvidenceWell(requests'[w])
            /\ requests'[w].revision <= users[requests'[w].user].revision
    <3> DEFINE r == requests[w]
    <3>1. CASE Reject(w) \/ Fail(w)
      BY <3>1 DEF Reject, Fail, Goto, TypeOK
    <3>2. CASE ~(Reject(w) \/ Fail(w))
      <4>1. r.step # "idle"
        BY <1>3, <3>2 DEF LoadUser, BuildClaims, AssertCurrent, MarkRotated
      <4>2. r # Idle
        BY <4>1 DEF Idle
      <4>3. r \in Requests
        BY <4>2 DEF TypeOK
      <4>4. EvidenceWell(r) /\ r.revision <= users[r.user].revision
        BY <4>2 DEF FactorInvariant
      <4>5. r.user \in Users
        BY <4>3 DEF Requests
      <4>6. /\ requests'[w].user = r.user
            /\ requests'[w].evidence = r.evidence
            /\ requests'[w].born = r.born
            /\ requests'[w].revision \in {r.revision, users[r.user].revision}
        <5>1. CASE LoadUser(w)
          BY <4>3, <5>1 DEF LoadUser, Goto, TypeOK, Requests
        <5>2. CASE BuildClaims(w)
          <6>1. requests'[w] = [r EXCEPT !.step = "assert",
                                         !.revision = users[r.user].revision]
            BY <5>2 DEF BuildClaims, Goto, TypeOK
          <6> QED
            BY <4>3, <6>1 DEF Requests
        <5>3. CASE AssertCurrent(w)
          BY <4>3, <5>3 DEF AssertCurrent, Goto, TypeOK, Requests
        <5>4. CASE MarkRotated(w)
          BY <4>3, <5>4 DEF MarkRotated, Goto, TypeOK, Requests
        <5> QED
          BY <1>3, <3>2, <5>1, <5>2, <5>3, <5>4
      <4>7. users[r.user].revision <= users[r.user].revision
        BY <1>a, <4>5
      <4> HIDE DEF r
      <4> QED
        BY <4>4, <4>6, <4>7 DEF EvidenceWell
    <3> QED
      BY <3>1, <3>2
  <2> QED
    BY <1>d, <2>1, <2>2, <2>3, <2>4
<1>4. ASSUME NEW w \in Workers, NEW n \in Tokens, StoreSession(w, n) PROVE FactorInvariant'
  <2> DEFINE r == requests[w]
  <2>1. r \in Requests /\ r # Idle
    BY <1>4, InFlightIsRequest DEF StoreSession, Idle
  <2>2. EvidenceWell(r) /\ r.revision <= users[r.user].revision
    BY <2>1 DEF FactorInvariant
  <2>3. /\ EvidenceWell(RowOf(r))
        /\ EvidenceWell(ClaimsOf(r))
        /\ ClaimsOf(r).revision <= users[ClaimsOf(r).user].revision
    BY <2>2 DEF EvidenceWell, RowOf, ClaimsOf
  <2>4. rows' = [rows EXCEPT ![n] = RowOf(r)] /\ access' = access \cup {ClaimsOf(r)}
    BY <1>4 DEF StoreSession
  <2>5. \A x \in Workers : requests'[x] # Idle => requests'[x] = requests[x]
    BY <1>4 DEF StoreSession, Goto, TypeOK
  <2>6. UNCHANGED <<users, history>>
    BY <1>4 DEF StoreSession
  <2> HIDE DEF r
  <2>7. \A t \in Tokens : rows'[t] # NoRow => EvidenceWell(rows'[t])
    BY <2>3, <2>4 DEF FactorInvariant, TypeOK
  <2>8. \A c \in access' : c \in access \/ (/\ EvidenceWell(c)
                                            /\ c.revision <= users'[c.user].revision)
    BY <2>3, <2>4, <2>6
  <2> QED
    BY <1>b, <2>5, <2>6, <2>7, <2>8, FactorInvariantKept
<1>5. ASSUME NEW w \in Workers, NEW u \in Users, VerifyPasskey(w, u) PROVE FactorInvariant'
  <2>1. EvidenceWell(requests'[w])
        /\ requests'[w].revision <= users[requests'[w].user].revision
    BY <1>5, <1>a DEF VerifyPasskey, Goto, TypeOK, EvidenceWell, BornNow
  <2>2. \A x \in Workers : x # w => requests'[x] = requests[x]
    BY <1>5 DEF VerifyPasskey, Goto, TypeOK
  <2> QED
    BY <1>5, <1>d, <2>1, <2>2 DEF VerifyPasskey
<1>6. ASSUME NEW u \in Users, NEW n \in Tokens, Signup(u, n) PROVE FactorInvariant'
  <2> DEFINE r == [user |-> u, role |-> "general", epoch |-> 0, revision |-> 0,
                   evidence |-> NoEvidence, born |-> BornNow(u)]
  <2>1. \A v \in Users : users'[v].revision = users[v].revision
    BY <1>6 DEF Signup, TypeOK, Accounts
  <2>2. history' = history /\ requests' = requests
    BY <1>6 DEF Signup
  <2>3. /\ EvidenceWell(RowOf(r))
        /\ EvidenceWell(ClaimsOf(r))
        /\ ClaimsOf(r).revision <= users'[ClaimsOf(r).user].revision
    BY <1>a, <2>1 DEF EvidenceWell, RowOf, ClaimsOf
  <2>4. rows' = [rows EXCEPT ![n] = RowOf(r)] /\ access' = access \cup {ClaimsOf(r)}
    BY <1>6 DEF Signup
  <2> HIDE DEF r
  <2>5. \A t \in Tokens : rows'[t] # NoRow => EvidenceWell(rows'[t])
    BY <2>3, <2>4 DEF FactorInvariant, TypeOK
  <2>6. \A c \in access' : c \in access \/ (/\ EvidenceWell(c)
                                            /\ c.revision <= users'[c.user].revision)
    BY <2>3, <2>4
  <2>7. \A v \in Users : /\ users'[v].revision >= users[v].revision
                         /\ history'[v].factors = users'[v].revision
    BY <1>a, <2>1, <2>2
  <2> QED
    BY <2>2, <2>5, <2>6, <2>7, FactorInvariantKept
<1>7. ASSUME NEW u \in Users,
             (\E to \in Statuses : DecideAccess(u, to)) \/ GrantAdminRole(u)
             \/ RevokeEverywhere(u) \/ ChangeFactor(u)
      PROVE  FactorInvariant'
  <2>1. UNCHANGED <<access, requests>>
    BY <1>7 DEF DecideAccess, GrantAdminRole, RevokeEverywhere, ChangeFactor
  <2>2. \A t \in Tokens : rows'[t] # NoRow => rows'[t] = rows[t]
    <3>1. rows' = rows \/ rows' = WithoutRowsOf(u)
      <4>1. ASSUME NEW to \in Statuses, DecideAccess(u, to)
            PROVE  rows' = rows \/ rows' = WithoutRowsOf(u)
        BY <4>1 DEF DecideAccess
      <4> QED
        BY <1>7, <4>1 DEF GrantAdminRole, RevokeEverywhere, ChangeFactor
    <3> QED
      BY <3>1, WithoutRowsType
  <2>3. \A v \in Users : v # u => users'[v] = users[v] /\ history'[v] = history[v]
    BY <1>7 DEF DecideAccess, GrantAdminRole, RevokeEverywhere, ChangeFactor, TypeOK
  <2>4. \/ /\ users'[u].revision = users[u].revision + 1
           /\ history'[u].factors = history[u].factors + 1
        \/ /\ users'[u].revision = users[u].revision
           /\ history'[u].factors = history[u].factors
    <3>1. ASSUME NEW to \in Statuses, DecideAccess(u, to)
          PROVE  /\ users'[u].revision = users[u].revision
                 /\ history'[u].factors = history[u].factors
      BY <3>1 DEF DecideAccess, TypeOK, Accounts
    <3>2. CASE GrantAdminRole(u)
      BY <3>2 DEF GrantAdminRole, TypeOK, Accounts
    <3>3. CASE RevokeEverywhere(u)
      BY <3>3 DEF RevokeEverywhere, TypeOK, Accounts
    <3>4. CASE ChangeFactor(u)
      BY <3>4 DEF ChangeFactor, TypeOK, Accounts
    <3> QED
      BY <1>7, <3>1, <3>2, <3>3, <3>4
  <2>5. \A v \in Users : /\ users'[v].revision >= users[v].revision
                         /\ history'[v].factors = users'[v].revision
    BY <1>a, <2>3, <2>4
  <2>6. \A t \in Tokens : rows'[t] # NoRow => EvidenceWell(rows'[t])
    BY <2>2 DEF FactorInvariant
  <2> QED
    BY <2>1, <2>5, <2>6, FactorInvariantKept
<1>8. ASSUME NEW t \in Tokens, Logout(t) \/ ExpireRow(t) PROVE FactorInvariant'
  <2>1. \A x \in Tokens : rows'[x] # NoRow =>
            /\ rows[x] # NoRow
            /\ rows'[x].evidence = rows[x].evidence
            /\ rows'[x].born = rows[x].born
    BY <1>8 DEF Logout, ExpireRow, TypeOK, RefreshRows
  <2>2. UNCHANGED <<users, access, requests, history>>
    BY <1>8 DEF Logout, ExpireRow
  <2> QED
    BY <1>b, <1>c, <2>1, <2>2, FactorInvariantKept
<1>9. CASE UNCHANGED vars
  BY <1>9 DEF vars, FactorInvariant, EvidenceWell
<1> QED
  BY <1>1, <1>2, <1>3, <1>4, <1>5, <1>6, <1>7, <1>8, <1>9 DEF Next, RequestStep, UserStep

\* The evidence of a session is the revision its login saw and no claims are
\* ahead of their user's mfa_revision: BuildClaims reads the revision, and
\* only ChangeFactor and RevokeEverywhere move it, upwards.
THEOREM FactorInvariantHolds == Spec => []FactorInvariant
<1>1. Init => FactorInvariant
  BY DEF Init, FactorInvariant
<1> QED
  BY <1>1, TypeCorrect, FactorInvariantStep, PTL DEF Spec

\* A session begun by a passkey login, whose rows carry the revision that
\* login saw as evidence, is not accepted after a factor change.
THEOREM PasskeySessionsEnd == Spec => []FactorChangeEndsPasskeySessions
<1>2. TypeOK /\ FactorInvariant => FactorChangeEndsPasskeySessions
  <2> SUFFICES ASSUME TypeOK, FactorInvariant PROVE FactorChangeEndsPasskeySessions
    OBVIOUS
  <2>1. ASSUME NEW t \in Tokens, Redeemable(t), rows[t].evidence # NoEvidence
        PROVE  rows[t].born.factors = history[rows[t].user].factors
    <3>1. rows[t].user \in Users /\ EvidenceWell(rows[t])
      BY <2>1 DEF Redeemable, TypeOK, RefreshRows, FactorInvariant
    <3> QED
      BY <2>1, <3>1 DEF Redeemable, EvidenceHolds, EvidenceWell, FactorInvariant
  <2>2. ASSUME NEW c \in access, Current(c), c.evidence # NoEvidence
        PROVE  c.born.factors = history[c.user].factors
    <3>1. c.user \in Users /\ EvidenceWell(c)
      BY DEF TypeOK, Claims, FactorInvariant
    <3> QED
      BY <2>2, <3>1 DEF Current, EvidenceHolds, EvidenceWell, FactorInvariant
  <2> QED
    BY <2>1, <2>2 DEF FactorChangeEndsPasskeySessions
<1> QED
  BY <1>2, FactorInvariantHolds, TypeCorrect, PTL

-----------------------------------------------------------------------------
(* The handlers implement SessionAuthority.                                *)

\* A row belongs to a minted token.
MintedInvariant == \A t \in Tokens : rows[t] # NoRow => t \in minted

LEMMA MintedInvariantStep ==
    TypeOK /\ TypeOK' /\ MintedInvariant /\ [Next]_vars => MintedInvariant'
<1> SUFFICES ASSUME TypeOK, TypeOK', MintedInvariant, [Next]_vars
             PROVE  MintedInvariant'
  OBVIOUS
<1>1. ASSUME minted' = minted, \A t \in Tokens : rows'[t] # NoRow => rows[t] # NoRow
      PROVE  MintedInvariant'
  BY <1>1 DEF MintedInvariant
<1>2. ASSUME NEW u \in Users, minted' = minted, rows' = rows \/ rows' = WithoutRowsOf(u)
      PROVE  MintedInvariant'
  BY <1>1, <1>2, WithoutRowsType
<1>3. ASSUME NEW w \in Workers, RequestStep(w) PROVE MintedInvariant'
  <2>1. ASSUME NEW n \in Tokens, StoreSession(w, n) PROVE MintedInvariant'
    BY <2>1 DEF StoreSession, MintedInvariant, TypeOK
  <2>2. CASE RevokeReused(w)
    <3>1. requests[w].user \in Users
      BY <2>2, InFlightIsRequest DEF RevokeReused, Requests
    <3> QED
      BY <1>2, <2>2, <3>1 DEF RevokeReused
  <2>3. CASE MarkRotated(w)
    BY <1>1, <2>3 DEF MarkRotated, TypeOK
  <2> QED
    BY <1>1, <1>3, <2>1, <2>2, <2>3 DEF RequestStep, SelectRow, LoadUser, BuildClaims,
       AssertCurrent, Reject, Fail, VerifyPasskey
<1>4. ASSUME NEW u \in Users, UserStep(u) PROVE MintedInvariant'
  <2>1. ASSUME NEW n \in Tokens, Signup(u, n) PROVE MintedInvariant'
    BY <2>1 DEF Signup, MintedInvariant, TypeOK
  <2>2. ASSUME NEW to \in Statuses, DecideAccess(u, to) PROVE MintedInvariant'
    BY <1>2, <2>2 DEF DecideAccess
  <2> QED
    BY <1>2, <1>4, <2>1, <2>2 DEF UserStep, GrantAdminRole, RevokeEverywhere, ChangeFactor
<1>5. ASSUME NEW t \in Tokens, Logout(t) \/ ExpireRow(t) PROVE MintedInvariant'
  BY <1>1, <1>5 DEF Logout, ExpireRow, TypeOK
<1> QED
  BY <1>1, <1>3, <1>4, <1>5 DEF Next, vars

LEMMA Minted == Spec => []MintedInvariant
<1>1. Init => MintedInvariant
  BY DEF Init, MintedInvariant
<1> QED
  BY <1>1, TypeCorrect, MintedInvariantStep, PTL DEF Spec

\* What is honoured is of its user's present era.
HonouredIsPresent ==
    \A s \in HonouredSessions : /\ s[1] \in Users
                                /\ s = <<s[1], history[s[1]].era>>
                                /\ Exists(s[1])

LEMMA HonouredPresent == TypeOK /\ SessionInvariant => HonouredIsPresent
<1> SUFFICES ASSUME TypeOK, SessionInvariant, NEW s \in HonouredSessions
             PROVE  /\ s[1] \in Users
                    /\ s = <<s[1], history[s[1]].era>>
                    /\ Exists(s[1])
  BY DEF HonouredIsPresent
<1>1. ASSUME NEW t \in Tokens, Redeemable(t), s = <<rows[t].user, rows[t].born.era>>
      PROVE  /\ s[1] \in Users
             /\ s = <<s[1], history[s[1]].era>>
             /\ Exists(s[1])
  <2>1. rows[t].user \in Users /\ BornWell(users, rows[t])
    BY <1>1 DEF Redeemable, TypeOK, RefreshRows, SessionInvariant
  <2> QED
    BY <1>1, <2>1 DEF Redeemable, BornWell, SessionInvariant, Open, Exists
<1>2. ASSUME NEW c \in access, Current(c), s = <<c.user, c.born.era>>
      PROVE  /\ s[1] \in Users
             /\ s = <<s[1], history[s[1]].era>>
             /\ Exists(s[1])
  <2>1. c.user \in Users /\ BornWell(users, c)
    BY DEF TypeOK, Claims, SessionInvariant
  <2> QED
    BY <1>2, <2>1 DEF Current, BornWell, SessionInvariant, Open, Exists
<1> QED
  BY <1>1, <1>2 DEF HonouredSessions

\* The facts about two successive states that the refinement rests on.
StepFacts ==
    /\ TypeOK /\ TypeOK'
    /\ SessionInvariant
    /\ FactorInvariant
    /\ MintedInvariant
    /\ HonouredIsPresent /\ HonouredIsPresent'

\* A step that neither makes nor revives a credential, and revokes nothing.
LEMMA StepWithdraws ==
    ASSUME StepFacts,
           \A t \in Tokens : Redeemable(t)' =>
               /\ Redeemable(t)
               /\ rows'[t].user = rows[t].user
               /\ rows'[t].born = rows[t].born,
           \A c \in access' : Current(c)' => c \in access /\ Current(c),
           \A u \in Users : history'[u].era = history[u].era
    PROVE  Authority!Withdraw
<1>1. HonouredSessions' \subseteq HonouredSessions
  BY DEF HonouredSessions
<1> QED
  BY <1>1 DEF Authority!Withdraw

\* A step that makes credentials of one user and drops none.
LEMMA StepAdmits ==
    ASSUME StepFacts, NEW u \in Users,
           HonouredSessions \subseteq HonouredSessions',
           \A s \in HonouredSessions' : s \in HonouredSessions \/ s[1] = u,
           \A v \in Users : history'[v].era = history[v].era
    PROVE  Authority!Withdraw \/ Authority!Admit(u)
<1> DEFINE new == <<u, history[u].era>>
<1>1. \A s \in HonouredSessions' : s \in HonouredSessions \/ s = new
  <2> SUFFICES ASSUME NEW s \in HonouredSessions', s[1] = u PROVE s = new
    OBVIOUS
  <2>1. s = <<s[1], history'[s[1]].era>>
    BY DEF StepFacts, HonouredIsPresent
  <2> QED
    BY <2>1
<1>2. CASE new \in HonouredSessions'
  <2>1. HonouredSessions' = HonouredSessions \cup {new}
    BY <1>1, <1>2
  <2> QED
    BY <2>1 DEF Authority!Admit
<1>3. CASE new \notin HonouredSessions'
  <2>1. HonouredSessions' \subseteq HonouredSessions
    BY <1>1, <1>3
  <2> QED
    BY <2>1 DEF Authority!Withdraw
<1> QED
  BY <1>2, <1>3

\* A step that starts a new era of one user, whose rows and tokens all have
\* an epoch the user has left behind.
LEMMA StepRevokes ==
    ASSUME StepFacts, NEW u \in Users,
           users'[u].epoch = users[u].epoch + 1,
           \A v \in Users : v # u => users'[v] = users[v],
           \A t \in Tokens : rows'[t] = rows[t]
                             \/ (rows'[t] = NoRow /\ rows[t].user = u),
           access' = access,
           history'[u].era = history[u].era + 1,
           \A v \in Users : v # u => history'[v].era = history[v].era
    PROVE  Authority!Revoke(u)
<1>1. \A v \in Users : users[v].epoch \in Nat
  BY BoundsAreNaturals DEF StepFacts, TypeOK, Accounts
<1>2. ASSUME NEW t \in Tokens, rows[t] # NoRow, rows[t].user = u PROVE ~Redeemable(t)'
  <2>1. rows[t].epoch <= users[u].epoch /\ rows[t].epoch \in Nat
    BY <1>2 DEF StepFacts, SessionInvariant, BornWell, TypeOK, RefreshRows
  <2>2. rows[t].epoch # users'[u].epoch
    BY <1>1, <2>1
  <2> QED
    BY <1>2, <2>2 DEF Redeemable
<1>3. ASSUME NEW c \in access, c.user = u PROVE ~Current(c)'
  <2>1. c.epoch <= users[u].epoch /\ c.epoch \in Nat
    BY <1>3 DEF StepFacts, SessionInvariant, BornWell, TypeOK, Claims
  <2>2. c.epoch # users'[u].epoch
    BY <1>1, <2>1
  <2> QED
    BY <1>3, <2>2 DEF Current
<1>4. ASSUME NEW t \in Tokens, rows[t] # NoRow, rows[t].user # u
      PROVE  rows'[t] = rows[t] /\ (Redeemable(t)' <=> Redeemable(t))
  <2>1. rows[t].user \in Users
    BY <1>4 DEF StepFacts, TypeOK, RefreshRows
  <2> QED
    BY <1>4, <2>1 DEF Redeemable, Open, EvidenceHolds
<1>5. ASSUME NEW c \in access, c.user # u PROVE Current(c)' <=> Current(c)
  <2>1. c.user \in Users
    BY DEF StepFacts, TypeOK, Claims
  <2> QED
    BY <1>5, <2>1 DEF Current, Open, EvidenceHolds
<1>6. HonouredSessions' = {s \in HonouredSessions : s[1] # u}
  <2>1. ASSUME NEW s \in HonouredSessions' PROVE s \in HonouredSessions /\ s[1] # u
    <3>1. ASSUME NEW t \in Tokens, Redeemable(t)',
                 s = <<rows'[t].user, rows'[t].born.era>>
          PROVE  s \in HonouredSessions /\ s[1] # u
      BY <1>2, <1>4, <3>1 DEF Redeemable, HonouredSessions
    <3>2. ASSUME NEW c \in access, Current(c)', s = <<c.user, c.born.era>>
          PROVE  s \in HonouredSessions /\ s[1] # u
      BY <1>3, <1>5, <3>2 DEF HonouredSessions
    <3> QED
      BY <3>1, <3>2 DEF HonouredSessions
  <2>2. ASSUME NEW s \in HonouredSessions, s[1] # u PROVE s \in HonouredSessions'
    <3>1. ASSUME NEW t \in Tokens, Redeemable(t), s = <<rows[t].user, rows[t].born.era>>
          PROVE  s \in HonouredSessions'
      BY <1>4, <2>2, <3>1 DEF Redeemable, HonouredSessions
    <3>2. ASSUME NEW c \in access, Current(c), s = <<c.user, c.born.era>>
          PROVE  s \in HonouredSessions'
      BY <1>5, <2>2, <3>2 DEF HonouredSessions
    <3> QED
      BY <3>1, <3>2 DEF HonouredSessions
  <2> QED
    BY <2>1, <2>2
<1>7. [v \in Users |-> history'[v].era]
        = [[v \in Users |-> history[v].era] EXCEPT ![u] = @ + 1]
  BY DEF StepFacts, TypeOK
<1> QED
  BY <1>6, <1>7 DEF Authority!Revoke

LEMMA SessionsStep == StepFacts /\ [Next]_vars => [Authority!Next]_<<
    [u \in Users |-> history[u].era], HonouredSessions>>
<1> SUFFICES ASSUME StepFacts, Next PROVE Authority!Next
  <2>1. CASE UNCHANGED vars
    BY <2>1 DEF vars, HonouredSessions, Redeemable, Current, Open, EvidenceHolds
  <2> QED
    BY <2>1
<1> USE DEF StepFacts
<1>a. ASSUME UNCHANGED users, UNCHANGED access,
             \A u \in Users : history'[u].era = history[u].era,
             \A t \in Tokens : rows'[t] # NoRow =>
                 /\ rows[t] # NoRow
                 /\ ~rows'[t].rotated => ~rows[t].rotated
                 /\ ~rows'[t].expired => ~rows[t].expired
                 /\ rows'[t].user = rows[t].user
                 /\ rows'[t].epoch = rows[t].epoch
                 /\ rows'[t].evidence = rows[t].evidence
                 /\ rows'[t].born = rows[t].born
      PROVE  Authority!Next
  <2>1. \A t \in Tokens : Redeemable(t)' =>
            /\ Redeemable(t)
            /\ rows'[t].user = rows[t].user
            /\ rows'[t].born = rows[t].born
    BY <1>a DEF Redeemable, Open, EvidenceHolds
  <2>2. \A c \in access' : Current(c)' => c \in access /\ Current(c)
    BY <1>a DEF Current, Open, EvidenceHolds
  <2> QED
    BY <1>a, <2>1, <2>2, StepWithdraws DEF Authority!Next
<1>1. ASSUME NEW w \in Workers, RequestStep(w) PROVE Authority!Next
  <2>1. CASE RevokeReused(w)
    <3>1. requests[w].user \in Users
      BY <2>1, InFlightIsRequest DEF RevokeReused, Requests
    <3>2. \A t \in Tokens : rows'[t] # NoRow => rows'[t] = rows[t]
      BY <2>1, <3>1, WithoutRowsType DEF RevokeReused
    <3>3. \A u \in Users : history'[u].era = history[u].era
      BY <2>1, <3>1 DEF RevokeReused, TypeOK
    <3> QED
      BY <1>a, <2>1, <3>2, <3>3 DEF RevokeReused
  <2>2. CASE MarkRotated(w)
    <3>1. \A t \in Tokens : rows'[t] # NoRow =>
              /\ rows[t] # NoRow
              /\ ~rows'[t].rotated => ~rows[t].rotated
              /\ ~rows'[t].expired => ~rows[t].expired
              /\ rows'[t].user = rows[t].user
              /\ rows'[t].epoch = rows[t].epoch
              /\ rows'[t].evidence = rows[t].evidence
              /\ rows'[t].born = rows[t].born
      BY <2>2 DEF MarkRotated, TypeOK, RefreshRows
    <3> QED
      BY <1>a, <2>2, <3>1 DEF MarkRotated
  <2>3. ASSUME NEW n \in Tokens, StoreSession(w, n) PROVE Authority!Next
    <3> DEFINE r == requests[w]
    <3>1. r \in Requests
      BY <2>3, InFlightIsRequest DEF StoreSession
    <3>2. /\ rows' = [rows EXCEPT ![n] = RowOf(r)]
          /\ access' = access \cup {ClaimsOf(r)}
          /\ UNCHANGED <<users, history>>
          /\ rows[n] = NoRow
      BY <2>3 DEF StoreSession, MintedInvariant
    <3>3. r.user \in Users /\ RowOf(r).user = r.user /\ ClaimsOf(r).user = r.user
      BY <3>1 DEF Requests, RowOf, ClaimsOf
    <3> HIDE DEF r
    <3>4. ASSUME NEW t \in Tokens, t # n
          PROVE  rows'[t] = rows[t] /\ (Redeemable(t)' <=> Redeemable(t))
      BY <3>2, <3>4 DEF Redeemable, Open, EvidenceHolds, TypeOK
    <3>5. ASSUME NEW c \in access PROVE Current(c)' <=> Current(c)
      BY <3>2 DEF Current, Open, EvidenceHolds
    <3>6. rows'[n] = RowOf(r) /\ ~Redeemable(n)
      BY <3>2 DEF TypeOK, Redeemable
    <3>7. HonouredSessions \subseteq HonouredSessions'
      BY <3>2, <3>4, <3>5, <3>6 DEF HonouredSessions
    <3>8. \A s \in HonouredSessions' : s \in HonouredSessions \/ s[1] = r.user
      BY <3>2, <3>3, <3>4, <3>5, <3>6 DEF HonouredSessions
    <3>9. \A v \in Users : history'[v].era = history[v].era
      BY <3>2
    <3> QED
      BY <3>3, <3>7, <3>8, <3>9, StepAdmits DEF Authority!Next
  <2>4. CASE UNCHANGED <<users, rows, access, history>>
    BY <1>a, <2>4
  <2> QED
    BY <1>1, <2>1, <2>2, <2>3, <2>4 DEF RequestStep, SelectRow, LoadUser, BuildClaims,
       AssertCurrent, Reject, Fail, VerifyPasskey
<1>2. ASSUME NEW u \in Users, UserStep(u) PROVE Authority!Next
  <2>1. ASSUME NEW n \in Tokens, Signup(u, n) PROVE Authority!Next
    <3> DEFINE r == [user |-> u, role |-> "general", epoch |-> 0, revision |-> 0,
                     evidence |-> NoEvidence, born |-> BornNow(u)]
    <3>1. /\ rows' = [rows EXCEPT ![n] = RowOf(r)]
          /\ access' = access \cup {ClaimsOf(r)}
          /\ UNCHANGED history
          /\ rows[n] = NoRow
          /\ ~Exists(u)
          /\ \A v \in Users : v # u => users'[v] = users[v]
      BY <2>1 DEF Signup, MintedInvariant, TypeOK
    <3>2. RowOf(r).user = u /\ ClaimsOf(r).user = u
      BY DEF RowOf, ClaimsOf
    <3> HIDE DEF r
    <3>3. ASSUME NEW t \in Tokens, t # n, rows[t] # NoRow, rows[t].user # u
          PROVE  rows'[t] = rows[t] /\ (Redeemable(t)' <=> Redeemable(t))
      <4>1. rows[t].user \in Users
        BY <3>3 DEF TypeOK, RefreshRows
      <4> QED
        BY <3>1, <3>3, <4>1 DEF Redeemable, Open, EvidenceHolds, TypeOK
    <3>4. ASSUME NEW c \in access, c.user # u PROVE Current(c)' <=> Current(c)
      <4>1. c.user \in Users
        BY DEF TypeOK, Claims
      <4> QED
        BY <3>1, <3>4, <4>1 DEF Current, Open, EvidenceHolds
    <3>5. \A t \in Tokens : t # n => rows'[t] = rows[t]
      BY <3>1 DEF TypeOK
    <3>6. rows'[n] = RowOf(r) /\ ~Redeemable(n)
      BY <3>1 DEF TypeOK, Redeemable
    <3>7. HonouredSessions \subseteq HonouredSessions'
      <4>1. ASSUME NEW t \in Tokens, Redeemable(t)
            PROVE  /\ Redeemable(t)'
                   /\ rows'[t] = rows[t]
        BY <3>1, <3>3, <3>6, <4>1 DEF Redeemable, Open, Exists
      <4>2. ASSUME NEW c \in access, Current(c) PROVE Current(c)' /\ c \in access'
        BY <3>1, <3>4, <4>2 DEF Current, Open, Exists
      <4> QED
        BY <4>1, <4>2 DEF HonouredSessions
    <3>8. ASSUME NEW s \in HonouredSessions', s[1] # u PROVE s \in HonouredSessions
      <4>1. ASSUME NEW t \in Tokens, Redeemable(t)',
                   s = <<rows'[t].user, rows'[t].born.era>>
            PROVE  s \in HonouredSessions
        BY <3>2, <3>3, <3>5, <3>6, <3>8, <4>1 DEF Redeemable, HonouredSessions
      <4>2. ASSUME NEW c \in access', Current(c)', s = <<c.user, c.born.era>>
            PROVE  s \in HonouredSessions
        BY <3>1, <3>2, <3>4, <3>8, <4>2 DEF HonouredSessions
      <4> QED
        BY <4>1, <4>2 DEF HonouredSessions
    <3>9. \A v \in Users : history'[v].era = history[v].era
      BY <3>1
    <3> QED
      BY <3>7, <3>8, <3>9, StepAdmits DEF Authority!Next
  <2>2. ASSUME users'[u].epoch = users[u].epoch + 1,
               \A v \in Users : v # u => users'[v] = users[v],
               rows' = rows \/ rows' = WithoutRowsOf(u),
               access' = access,
               history'[u].era = history[u].era + 1,
               \A v \in Users : v # u => history'[v].era = history[v].era
        PROVE  Authority!Next
    <3>1. \A t \in Tokens : rows'[t] = rows[t] \/ (rows'[t] = NoRow /\ rows[t].user = u)
      BY <2>2 DEF WithoutRowsOf, TypeOK
    <3> QED
      BY <2>2, <3>1, StepRevokes DEF Authority!Next
  <2>3. ASSUME NEW to \in Statuses, DecideAccess(u, to) PROVE Authority!Next
    BY <2>2, <2>3 DEF DecideAccess, TypeOK, Accounts
  <2>4. CASE GrantAdminRole(u)
    BY <2>2, <2>4 DEF GrantAdminRole, TypeOK, Accounts
  <2>5. CASE RevokeEverywhere(u)
    BY <2>2, <2>5 DEF RevokeEverywhere, TypeOK, Accounts
  <2>6. CASE ChangeFactor(u)
    <3>1. /\ \A v \in Users : v # u => users'[v] = users[v]
          /\ users'[u].revision = users[u].revision + 1
          /\ users'[u].status = users[u].status
          /\ users'[u].epoch = users[u].epoch
          /\ users'[u].role = users[u].role
          /\ rows' = WithoutRowsOf(u)
          /\ access' = access
      BY <2>6 DEF ChangeFactor, TypeOK, Accounts
    <3>2. ASSUME NEW t \in Tokens, Redeemable(t)'
          PROVE  rows'[t] = rows[t] /\ Redeemable(t)
      <4>1. rows'[t] = rows[t] /\ rows[t] # NoRow /\ rows[t].user # u
        BY <3>1, <3>2, WithoutRowsType DEF Redeemable
      <4>2. rows[t].user \in Users
        BY <4>1 DEF TypeOK, RefreshRows
      <4> QED
        BY <3>1, <3>2, <4>1, <4>2 DEF Redeemable, Open, EvidenceHolds
    <3>3. ASSUME NEW c \in access, Current(c)' PROVE Current(c)
      <4>1. c.user \in Users /\ c.revision \in Nat /\ c.revision <= users[c.user].revision
        BY DEF TypeOK, Claims, FactorInvariant
      <4>2. users[u].revision \in Nat
        BY BoundsAreNaturals DEF TypeOK, Accounts
      <4>3. c.user # u
        BY <3>1, <3>3, <4>1, <4>2 DEF Current
      <4> QED
        BY <3>1, <3>3, <4>1, <4>3 DEF Current, Open, EvidenceHolds
    <3>4. \A v \in Users : history'[v].era = history[v].era
      BY <2>6 DEF ChangeFactor, TypeOK
    <3> QED
      BY <3>1, <3>2, <3>3, <3>4, StepWithdraws DEF Authority!Next
  <2> QED
    BY <1>2, <2>1, <2>3, <2>4, <2>5, <2>6 DEF UserStep
<1>3. ASSUME NEW t \in Tokens, Logout(t) \/ ExpireRow(t) PROVE Authority!Next
  <2>1. \A x \in Tokens : rows'[x] # NoRow =>
            /\ rows[x] # NoRow
            /\ ~rows'[x].rotated => ~rows[x].rotated
            /\ ~rows'[x].expired => ~rows[x].expired
            /\ rows'[x].user = rows[x].user
            /\ rows'[x].epoch = rows[x].epoch
            /\ rows'[x].evidence = rows[x].evidence
            /\ rows'[x].born = rows[x].born
    BY <1>3 DEF Logout, ExpireRow, TypeOK, RefreshRows
  <2> QED
    BY <1>3, <1>a, <2>1 DEF Logout, ExpireRow
<1> QED
  BY <1>1, <1>2, <1>3 DEF Next

\* The handlers implement SessionAuthority for any number of users, tokens and
\* requests in flight: a step admits a session of its user's present era,
\* withdraws some, or revokes exactly those of one user.
THEOREM SessionsImplementAuthority == Spec => ImplementsSessionAuthority
<1>1. Init => Authority!Init
  BY DEF Init, Authority!Init, HonouredSessions, Redeemable
<1>2. Spec => [](TypeOK /\ SessionInvariant /\ FactorInvariant /\ MintedInvariant
                 /\ HonouredIsPresent)
  BY TypeCorrect, SessionInvariantHolds, FactorInvariantHolds, Minted, HonouredPresent, PTL
<1>3. TypeOK /\ SessionInvariant /\ FactorInvariant /\ MintedInvariant /\ HonouredIsPresent
      /\ TypeOK' /\ HonouredIsPresent' => StepFacts
  BY DEF StepFacts
<1> QED
  BY <1>1, <1>2, <1>3, SessionsStep, PTL DEF Spec, ImplementsSessionAuthority, Authority!Spec
=============================================================================
