--------------------------- MODULE AccountsProofs ---------------------------
(***************************************************************************)
(* Proofs about the accounts, for any number of accounts, projects and     *)
(* concurrent requests: the guard on super admins; that a reset, a change  *)
(* of password or a removal signs everyone out; that an account on a       *)
(* temporary password from the dashboard has to change it; and that        *)
(* memberships are one per account and project and end with either.        *)
(***************************************************************************)
EXTENDS Accounts, FiniteSetTheorems, TLAPS

ActorPCs == {"session", "handler", "create", "reset", "role", "guard", "demote",
             "delete", "remove", "manage", "grant", "hash", "flag", "evict",
             "open", "mint", "command", "command evict"}
TargetPCs == {"create", "reset", "role", "guard", "demote", "delete", "remove", "grant"}

\* A request that has come to a statement carries what the statement uses.
Ready(q) ==
  /\ q.pc \in ActorPCs => q.actor \in Users
  /\ q.pc \in TargetPCs => q.target \in Users
  /\ q.pc \in {"create", "role", "demote"} => q.want \in Roles
  /\ q.pc \in {"manage", "grant"} => q.project \in Projects
  /\ q.pc = "grant" => q.level \in Levels
  /\ q.pc = "create" /\ q.project # None => q.level \in Levels
  /\ q.pc = "create" => q.want # "super_admin"

Wiring == \A r \in Requests : Ready(req[r])

----------------------------------------------------------------------------
(* Types.                                                                  *)

\* The ranks are in order.
LEMMA Ranks == Rank("member") = 1 /\ Rank("admin") = 2 /\ Rank("super_admin") = 3
BY DEF Rank

\* A row as Register and CreateMember make it is an account.
LEMMA NewRowType ==
  ASSUME NEW role \in Roles \cup {"absent"}
  PROVE  /\ NewRow(role) \in AccountType
         /\ [NewRow(role) EXCEPT !.must = TRUE, !.from = "dashboard"] \in AccountType
BY DEF NewRow, AccountType, Roles

\* A request that was never made, and one that was answered.
LEMMA RestType == Idle \in RequestType /\ Done \in RequestType /\ Done.pc = "done" /\ Idle.pc = "idle"
<1>1. NewRow("absent") \in AccountType
  BY NewRowType
<1>2. Idle \in RequestType /\ Idle.pc = "idle"
  BY <1>1 DEF Idle, RequestType, PCs
<1>3. Done \in RequestType /\ Done.pc = "done"
  BY <1>2 DEF Done, RequestType, PCs
<1> QED BY <1>2, <1>3

\* Answering leaves nothing to be ready for.
LEMMA AnswerTypes ==
  ASSUME TypeOK, Wiring, NEW r \in Requests, Answer(r)
  PROVE  /\ req' \in [Requests -> RequestType]
         /\ lock' \in [by: Requests \cup {None}, rows: SUBSET Users]
         /\ Wiring'
<1>1. req' = [req EXCEPT ![r] = Done] /\ req \in [Requests -> RequestType]
  BY DEF Answer, TypeOK
<1>2. req' \in [Requests -> RequestType]
  BY <1>1, RestType
<1>3. \A q \in Requests : req'[q] = IF q = r THEN Done ELSE req[q]
  BY <1>1
<1>4. Ready(Done)
  BY RestType DEF Ready, ActorPCs, TargetPCs
<1>5. Wiring'
  BY <1>3, <1>4 DEF Wiring
<1>6. lock' \in [by: Requests \cup {None}, rows: SUBSET Users]
  BY DEF Answer, TypeOK
<1> QED BY <1>2, <1>5, <1>6

\* A request that moves on.
LEMMA MoveTypes ==
  ASSUME TypeOK, Wiring, NEW r \in Requests, NEW q,
         q \in RequestType, Ready(q), req' = [req EXCEPT ![r] = q]
  PROVE  req' \in [Requests -> RequestType] /\ Wiring'
<1>1. req' \in [Requests -> RequestType]
  BY DEF TypeOK
<1>2. \A p \in Requests : req'[p] = IF p = r THEN q ELSE req[p]
  BY DEF TypeOK
<1>3. Wiring'
  BY <1>2 DEF Wiring
<1> QED BY <1>1, <1>3

\* What a request at a statement has.
LEMMA AtStatement ==
  ASSUME TypeOK, Wiring, NEW r \in Requests
  PROVE  /\ req[r] \in RequestType
         /\ Ready(req[r])
BY DEF TypeOK, Wiring

\* The steps that read and decide: only the request changes.
LEMMA ReadTypes ==
  ASSUME TypeOK, Wiring, NEW r \in Requests,
         \/ Begin(r) \/ LoadActor(r) \/ FirstRun(r) \/ ChangePassword(r) \/ CreateToken(r)
         \/ \E u \in Users : \/ ResetMemberPassword(r, u) \/ DeleteMember(r, u)
                             \/ Login(r, u) \/ ResetPassword(r, u)
         \/ \E u \in Users, role \in Roles : ChangeRole(r, u, role)
         \/ \E p \in Projects : RequireManage(r, p)
         \/ \E u \in Users, level \in Levels : SetProjectAccess(r, u, level)
         \/ \E u \in Users, role \in Roles, level \in Levels, p \in Projects \cup {None} :
              CreateMember(r, u, role, p, level)
  PROVE  TypeOK' /\ Wiring'
<1> DEFINE Good == req' \in [Requests -> RequestType] /\ Wiring'
<1>0. req[r] \in RequestType /\ Ready(req[r]) /\ req \in [Requests -> RequestType]
  BY AtStatement DEF TypeOK
<1> DEFINE Q == req[r]
<1>1. ASSUME Begin(r) PROVE Good
  <2> PICK s \in sessions : req' = [req EXCEPT ![r].pc = "session", ![r].actor = s.user]
    BY <1>1 DEF Begin
  <2> DEFINE q == [Q EXCEPT !.pc = "session", !.actor = s.user]
  <2>1. req' = [req EXCEPT ![r] = q]
    BY <1>0
  <2>2. s.user \in Users
    BY DEF TypeOK, SessionType
  <2>3. q \in RequestType /\ Ready(q)
    <3>1. q \in RequestType
      BY <1>0, <2>2 DEF RequestType, PCs
    <3>2. q.pc = "session" /\ q.actor \in Users
      BY <1>0, <2>2 DEF RequestType
    <3> QED BY <3>1, <3>2 DEF Ready, TargetPCs
  <2> QED BY <2>1, <2>3, MoveTypes
<1>2. ASSUME LoadActor(r) PROVE Good
  <2> DEFINE q == [Q EXCEPT !.pc = "handler", !.row = account[Q.actor]]
  <2>1. req' = [req EXCEPT ![r] = q]
    BY <1>0, <1>2 DEF LoadActor
  <2>2. Q.actor \in Users /\ account[Q.actor] \in AccountType
    BY <1>0, <1>2 DEF LoadActor, At, Ready, ActorPCs, TypeOK
  <2>3. q \in RequestType
    BY <1>0, <2>2 DEF RequestType, PCs
  <2>4. q.pc = "handler" /\ q.actor \in Users
    BY <1>0, <2>2 DEF RequestType
  <2>5. Ready(q)
    BY <2>4 DEF Ready, TargetPCs
  <2> QED BY <2>1, <2>3, <2>5, MoveTypes
<1>3. ASSUME NEW pc \in {"login", "register"}, req' = [req EXCEPT ![r].pc = pc]
      PROVE  Good
  <2> DEFINE q == [Q EXCEPT !.pc = pc]
  <2>1. req' = [req EXCEPT ![r] = q]
    BY <1>0, <1>3
  <2>2. q \in RequestType /\ Ready(q)
    <3>1. q \in RequestType
      BY <1>0 DEF RequestType, PCs
    <3>2. q.pc \in {"login", "register"}
      BY <1>0 DEF RequestType
    <3> QED BY <3>1, <3>2 DEF Ready, TargetPCs, ActorPCs
  <2> QED BY <2>1, <2>2, MoveTypes
<1>4. ASSUME NEW pc \in {"hash", "mint"}, Q.pc = "handler",
             req' = [req EXCEPT ![r].pc = pc]
      PROVE  Good
  <2> DEFINE q == [Q EXCEPT !.pc = pc]
  <2>1. req' = [req EXCEPT ![r] = q]
    BY <1>0, <1>4
  <2>2. Q.actor \in Users
    BY <1>0, <1>4 DEF Ready, ActorPCs
  <2>3. q \in RequestType /\ Ready(q)
    BY <1>0, <2>2 DEF RequestType, PCs, Ready, TargetPCs
  <2> QED BY <2>1, <2>3, MoveTypes
<1>5. ASSUME NEW u \in Users, NEW pc \in {"reset", "guard", "delete"}, Q.pc = "handler",
             req' = [req EXCEPT ![r].pc = pc, ![r].target = u]
      PROVE  Good
  <2> DEFINE q == [Q EXCEPT !.pc = pc, !.target = u]
  <2>1. req' = [req EXCEPT ![r] = q]
    BY <1>0, <1>5
  <2>2. Q.actor \in Users
    BY <1>0, <1>5 DEF Ready, ActorPCs
  <2>3. q \in RequestType /\ Ready(q)
    BY <1>0, <2>2 DEF RequestType, PCs, Ready
  <2> QED BY <2>1, <2>3, MoveTypes
<1>6. ASSUME NEW u \in Users, NEW pc \in {"open", "command"},
             req' = [req EXCEPT ![r].pc = pc, ![r].actor = u]
      PROVE  Good
  <2> DEFINE q == [Q EXCEPT !.pc = pc, !.actor = u]
  <2>1. req' = [req EXCEPT ![r] = q]
    BY <1>0, <1>6
  <2>2. q \in RequestType /\ Ready(q)
    BY <1>0 DEF RequestType, PCs, Ready, TargetPCs
  <2> QED BY <2>1, <2>2, MoveTypes
<1>7. ASSUME NEW u \in Users, NEW role \in Roles, ChangeRole(r, u, role) PROVE Good
  <2> DEFINE pc == IF account[u].role = "super_admin" THEN "guard" ELSE "role"
             q == [Q EXCEPT !.pc = pc, !.target = u, !.want = role]
  <2>1. req' = [req EXCEPT ![r] = q]
    BY <1>0, <1>7 DEF ChangeRole
  <2>2. Q.actor \in Users
    BY <1>0, <1>7 DEF ChangeRole, Admitted, At, Ready, ActorPCs
  <2>3. pc \in {"guard", "role"}
    OBVIOUS
  <2>4. q \in RequestType /\ Ready(q)
    <3> HIDE DEF pc
    <3> QED BY <1>0, <2>2, <2>3 DEF RequestType, PCs, Ready
  <2> QED BY <2>1, <2>4, MoveTypes
<1>8. ASSUME NEW p \in Projects, RequireManage(r, p) PROVE Good
  <2> DEFINE q == [Q EXCEPT !.pc = "manage", !.project = p]
  <2>1. req' = [req EXCEPT ![r] = q]
    BY <1>0, <1>8 DEF RequireManage
  <2>2. Q.actor \in Users
    BY <1>0, <1>8 DEF RequireManage, Admitted, At, Ready, ActorPCs
  <2>3. q \in RequestType /\ Ready(q)
    BY <1>0, <2>2 DEF RequestType, PCs, Ready, TargetPCs
  <2> QED BY <2>1, <2>3, MoveTypes
<1>9. ASSUME NEW u \in Users, NEW level \in Levels, SetProjectAccess(r, u, level)
      PROVE  Good
  <2> DEFINE q == [Q EXCEPT !.pc = "grant", !.target = u, !.level = level]
  <2>1. req' = [req EXCEPT ![r] = q]
    BY <1>0, <1>9 DEF SetProjectAccess
  <2>2. Q.actor \in Users /\ Q.project \in Projects
    BY <1>0, <1>9 DEF SetProjectAccess, At, Ready, ActorPCs
  <2>3. q \in RequestType /\ Ready(q)
    BY <1>0, <2>2 DEF RequestType, PCs, Ready
  <2> QED BY <2>1, <2>3, MoveTypes
<1>10. ASSUME NEW u \in Users, NEW role \in Roles, NEW level \in Levels,
              NEW p \in Projects \cup {None}, CreateMember(r, u, role, p, level)
       PROVE  Good
  <2> DEFINE lev == IF p = None THEN "none" ELSE level
             q == [Q EXCEPT !.pc = "create", !.target = u, !.want = role,
                            !.project = p, !.level = lev]
  <2>1. req' = [req EXCEPT ![r] = q]
    BY <1>0, <1>10 DEF CreateMember
  <2>2. Q.actor \in Users
    BY <1>0, <1>10 DEF CreateMember, Admitted, At, Ready, ActorPCs
  <2>3. role # "super_admin"
    <3>1. Q.row.role \in {"super_admin", "admin"} /\ Rank(Q.row.role) > Rank(role)
      BY <1>10 DEF CreateMember, Outranks
    <3> QED BY <3>1, Ranks
  <2>4. lev \in Levels \cup {"none"} /\ (p # None => lev \in Levels)
    OBVIOUS
  <2>5. q \in RequestType /\ Ready(q)
    <3> HIDE DEF lev
    <3>1. q \in RequestType
      BY <1>0, <2>4 DEF RequestType, PCs
    <3>2. /\ q.pc = "create" /\ q.actor \in Users /\ q.target = u
          /\ q.want = role /\ q.project = p /\ q.level = lev
      BY <1>0, <2>2 DEF RequestType
    <3> QED BY <2>3, <2>4, <3>1, <3>2 DEF Ready
  <2> QED BY <2>1, <2>5, MoveTypes
<1>11. CASE \/ Begin(r) \/ LoadActor(r)
  BY <1>11, <1>1, <1>2 DEF Begin, LoadActor, TypeOK
<1>12. CASE FirstRun(r)
  <2>1. \E pc \in {"login", "register"} : req' = [req EXCEPT ![r].pc = pc]
    BY <1>12 DEF FirstRun, Goto
  <2> QED BY <1>12, <2>1, <1>3 DEF FirstRun, TypeOK
<1>13. CASE ChangePassword(r) \/ CreateToken(r)
  <2>1. Q.pc = "handler" /\ \E pc \in {"hash", "mint"} : req' = [req EXCEPT ![r].pc = pc]
    BY <1>13 DEF ChangePassword, CreateToken, Admitted, At, Goto
  <2> QED BY <1>13, <2>1, <1>4 DEF ChangePassword, CreateToken, TypeOK
<1>14. ASSUME NEW u \in Users, ResetMemberPassword(r, u) \/ DeleteMember(r, u)
       PROVE  TypeOK' /\ Wiring'
  <2>1. Q.pc = "handler" /\ \E pc \in {"reset", "guard", "delete"} :
           req' = [req EXCEPT ![r].pc = pc, ![r].target = u]
    BY <1>14 DEF ResetMemberPassword, DeleteMember, Admitted, At
  <2>2. Good
    BY <2>1, <1>5
  <2> QED BY <1>14, <2>2 DEF ResetMemberPassword, DeleteMember, TypeOK
<1>15. ASSUME NEW u \in Users, Login(r, u) \/ ResetPassword(r, u)
       PROVE  TypeOK' /\ Wiring'
  <2>1. \E pc \in {"open", "command"} : req' = [req EXCEPT ![r].pc = pc, ![r].actor = u]
    BY <1>15 DEF Login, ResetPassword
  <2> QED BY <1>15, <2>1, <1>6 DEF Login, ResetPassword, TypeOK
<1>16. ASSUME NEW u \in Users, NEW role \in Roles, ChangeRole(r, u, role)
       PROVE  TypeOK' /\ Wiring'
  BY <1>16, <1>7 DEF ChangeRole, TypeOK
<1>17. ASSUME NEW p \in Projects, RequireManage(r, p)
       PROVE  TypeOK' /\ Wiring'
  BY <1>17, <1>8 DEF RequireManage, TypeOK
<1>18. ASSUME NEW u \in Users, NEW level \in Levels, SetProjectAccess(r, u, level)
       PROVE  TypeOK' /\ Wiring'
  BY <1>18, <1>9 DEF SetProjectAccess, TypeOK
<1>19. ASSUME NEW u \in Users, NEW role \in Roles, NEW level \in Levels,
              NEW p \in Projects \cup {None}, CreateMember(r, u, role, p, level)
       PROVE  TypeOK' /\ Wiring'
  BY <1>19, <1>10 DEF CreateMember, TypeOK
<1> QED BY <1>11, <1>12, <1>13, <1>14, <1>15, <1>16, <1>17, <1>18, <1>19

\* The steps that write and go on, and the guard.
LEMMA WriteTypes ==
  ASSUME TypeOK, Wiring, NEW r \in Requests,
         \/ \E u \in Users : Register(r, u)
         \/ UpdatePasswordHash(r) \/ ClearMustChange(r) \/ DropSessions(r)
         \/ CommandHash(r) \/ Guard(r)
  PROVE  TypeOK' /\ Wiring'
<1> DEFINE Good == req' \in [Requests -> RequestType] /\ Wiring'
           Q == req[r]
<1>0. Q \in RequestType /\ Ready(Q) /\ req \in [Requests -> RequestType]
  BY AtStatement DEF TypeOK
<1>1. ASSUME NEW u \in Users, Register(r, u) PROVE TypeOK' /\ Wiring'
  <2> DEFINE q == [Q EXCEPT !.pc = "open", !.actor = u]
  <2>1. req' = [req EXCEPT ![r] = q]
    BY <1>0, <1>1 DEF Register
  <2>2. q \in RequestType /\ Ready(q)
    <3>1. q \in RequestType
      BY <1>0 DEF RequestType, PCs
    <3>2. q.pc = "open" /\ q.actor = u
      BY <1>0 DEF RequestType
    <3> QED BY <3>1, <3>2 DEF Ready, TargetPCs
  <2>3. Good
    BY <2>1, <2>2, MoveTypes
  <2>4. account' \in [Users -> AccountType]
    BY <1>1, NewRowType DEF Register, TypeOK, Roles
  <2> QED BY <1>1, <2>3, <2>4 DEF Register, TypeOK
<1>2. ASSUME NEW pc \in {"flag", "command evict"}, NEW n \in Nat, Q.pc \in ActorPCs,
             req' = [req EXCEPT ![r].pc = pc, ![r].wrote = n]
      PROVE  Good
  <2> DEFINE q == [Q EXCEPT !.pc = pc, !.wrote = n]
  <2>1. req' = [req EXCEPT ![r] = q]
    BY <1>0, <1>2
  <2>2. Q.actor \in Users
    BY <1>0, <1>2 DEF Ready
  <2>3. q \in RequestType /\ Ready(q)
    BY <1>0, <2>2 DEF RequestType, PCs, Ready, TargetPCs
  <2> QED BY <2>1, <2>3, MoveTypes
<1>3. ASSUME NEW pc \in {"evict", "open"}, Q.pc \in ActorPCs, req' = [req EXCEPT ![r].pc = pc]
      PROVE  Good
  <2> DEFINE q == [Q EXCEPT !.pc = pc]
  <2>1. req' = [req EXCEPT ![r] = q]
    BY <1>0, <1>3
  <2>2. Q.actor \in Users
    BY <1>0, <1>3 DEF Ready
  <2>3. q \in RequestType /\ Ready(q)
    BY <1>0, <2>2 DEF RequestType, PCs, Ready, TargetPCs
  <2> QED BY <2>1, <2>3, MoveTypes
<1>4. ASSUME UpdatePasswordHash(r) \/ CommandHash(r) PROVE TypeOK' /\ Wiring'
  <2>1. Q.pc \in ActorPCs /\ Q.actor \in Users
    BY <1>0, <1>4 DEF UpdatePasswordHash, CommandHash, At, Ready, ActorPCs
  <2>2. account[Q.actor] \in AccountType /\ account[Q.actor].pw + 1 \in Nat
    BY <2>1 DEF TypeOK, AccountType
  <2>3. \E pc \in {"flag", "command evict"} :
          req' = [req EXCEPT ![r].pc = pc, ![r].wrote = account[Q.actor].pw + 1]
    BY <1>4 DEF UpdatePasswordHash, CommandHash
  <2>4. Good
    BY <2>1, <2>2, <2>3, <1>2
  <2>5. account' \in [Users -> AccountType]
    <3> DEFINE a(f) == [account[Q.actor] EXCEPT !.pw = account[Q.actor].pw + 1, !.from = f]
    <3>1. a("owner") \in AccountType /\ a("command") \in AccountType
      BY <2>2 DEF AccountType
    <3>2. \/ account' = [account EXCEPT ![Q.actor] = a("owner")]
          \/ account' = [account EXCEPT ![Q.actor] = a("command")]
      BY <1>4 DEF UpdatePasswordHash, CommandHash
    <3> HIDE DEF a
    <3> QED BY <2>1, <3>1, <3>2 DEF TypeOK
  <2> QED BY <1>4, <2>4, <2>5 DEF UpdatePasswordHash, CommandHash, TypeOK
<1>5. ASSUME ClearMustChange(r) PROVE TypeOK' /\ Wiring'
  <2>1. Q.pc \in ActorPCs /\ Q.actor \in Users
    BY <1>0, <1>5 DEF ClearMustChange, At, Ready, ActorPCs
  <2>2. Good
    BY <1>5, <2>1, <1>3 DEF ClearMustChange, Goto
  <2>3. account' \in [Users -> AccountType]
    <3> DEFINE a == [account[Q.actor] EXCEPT !.must = FALSE]
    <3>0. account[Q.actor] \in AccountType
      BY <2>1 DEF TypeOK
    <3>1. a \in AccountType
      BY <3>0 DEF AccountType
    <3>2. account' = [account EXCEPT ![Q.actor] = a] \/ account' = account
      BY <1>5 DEF ClearMustChange
    <3> HIDE DEF a
    <3> QED BY <2>1, <3>1, <3>2 DEF TypeOK
  <2> QED BY <1>5, <2>2, <2>3 DEF ClearMustChange, TypeOK
<1>6. ASSUME DropSessions(r) PROVE TypeOK' /\ Wiring'
  <2>1. Q.pc \in ActorPCs /\ Q.actor \in Users
    BY <1>0, <1>6 DEF DropSessions, At, Ready, ActorPCs
  <2>2. Good
    BY <1>6, <2>1, <1>3 DEF DropSessions, Goto
  <2>3. Later(past.evicted[Q.actor], Q.wrote) \in Nat
    BY <1>0, <2>1 DEF Later, TypeOK, RequestType
  <2>4. past' \in [promoted: BOOLEAN, evicted: [Users -> Nat], retired: [Users -> Nat],
                    strays: SUBSET MemberType]
    BY <1>6, <2>1, <2>3 DEF DropSessions, TypeOK
  <2>5. sessions' \subseteq SessionType
    BY <1>6 DEF DropSessions, TypeOK
  <2> QED BY <1>6, <2>2, <2>4, <2>5 DEF DropSessions, TypeOK
<1>7. ASSUME Guard(r) PROVE TypeOK' /\ Wiring'
  <2> DEFINE pc == IF Q.want = "none" THEN "remove" ELSE "demote"
             q == [Q EXCEPT !.pc = pc]
  <2>1. req' = [req EXCEPT ![r] = q]
    BY <1>0, <1>7 DEF Guard, Goto
  <2>2. Q.actor \in Users /\ Q.target \in Users
    BY <1>0, <1>7 DEF Guard, At, Ready, ActorPCs, TargetPCs
  <2>3. pc \in {"remove", "demote"} /\ (pc = "demote" => Q.want \in Roles)
    BY <1>0 DEF RequestType
  <2>4. q \in RequestType /\ Ready(q)
    <3> HIDE DEF pc
    <3>1. q \in RequestType
      BY <1>0, <2>3 DEF RequestType, PCs
    <3>2. /\ q.pc = pc /\ q.actor = Q.actor /\ q.target = Q.target /\ q.want = Q.want
      BY <1>0 DEF RequestType
    <3> QED BY <2>2, <2>3, <3>1, <3>2 DEF Ready
  <2>5. Good
    BY <2>1, <2>4, MoveTypes
  <2> QED BY <1>7, <2>5 DEF Guard, TypeOK, SuperAdmins
<1> QED BY <1>1, <1>4, <1>5, <1>6, <1>7

\* The steps that write and answer.
LEMMA AnswerStepTypes ==
  ASSUME TypeOK, Wiring, NEW r \in Requests,
         \/ Fail(r) \/ InsertMember(r) \/ ResetTo(r) \/ UpdateRole(r) \/ DeleteAccount(r)
         \/ SetMembership(r) \/ (\E u \in Users : RemoveProjectAccess(r, u))
         \/ CreateSession(r) \/ CommandDropSessions(r) \/ StoreToken(r) \/ RevokeToken(r)
  PROVE  TypeOK' /\ Wiring'
<1> DEFINE Q == req[r]
           PastType == [promoted: BOOLEAN, evicted: [Users -> Nat], retired: [Users -> Nat],
                        strays: SUBSET MemberType]
<1>0. Q \in RequestType /\ Ready(Q)
  BY AtStatement
<1>1. Answer(r)
  BY DEF Fail, InsertMember, ResetTo, UpdateRole, DeleteAccount, SetMembership,
         RemoveProjectAccess, CreateSession, CommandDropSessions, StoreToken, RevokeToken
<1>2. /\ req' \in [Requests -> RequestType]
      /\ lock' \in [by: Requests \cup {None}, rows: SUBSET Users]
      /\ Wiring'
  BY <1>1, AnswerTypes
<1>3. CASE Fail(r)
  BY <1>2, <1>3 DEF Fail, TypeOK
<1>4. CASE InsertMember(r)
  <2>1. Q.target \in Users /\ Q.want \in Roles /\ (Q.project # None => Q.level \in Levels)
    BY <1>0, <1>4 DEF InsertMember, At, Ready, TargetPCs
  <2>2. account' \in [Users -> AccountType]
    BY <1>4, <2>1, NewRowType DEF InsertMember, TypeOK
  <2>3. Granted(Q) \subseteq MemberType
    BY <1>0, <2>1 DEF Granted, MemberType, RequestType
  <2>4. members' \subseteq MemberType
    BY <1>4, <2>3 DEF InsertMember, TypeOK
  <2> QED BY <1>2, <1>4, <2>2, <2>4 DEF InsertMember, TypeOK
<1>5. CASE ResetTo(r)
  <2>1. Q.target \in Users
    BY <1>0, <1>5 DEF ResetTo, At, Ready, TargetPCs
  <2>2. account[Q.target] \in AccountType /\ account[Q.target].pw + 1 \in Nat
    BY <2>1 DEF TypeOK, AccountType
  <2>3. ResetRow(Q.target) \in AccountType
    BY <2>2 DEF ResetRow, AccountType, Changing
  <2>4. account' \in [Users -> AccountType]
    BY <1>5, <2>1, <2>3 DEF ResetTo, TypeOK
  <2>5. past' \in PastType
    BY <1>5, <2>1, <2>2 DEF ResetTo, TypeOK
  <2>6. sessions' \subseteq SessionType /\ tokens' \subseteq TokenType
    BY <1>5 DEF ResetTo, TypeOK
  <2> QED BY <1>2, <1>5, <2>4, <2>5, <2>6 DEF ResetTo, TypeOK
<1>6. CASE UpdateRole(r)
  <2>1. Q.target \in Users /\ Q.want \in Roles
    BY <1>0, <1>6 DEF UpdateRole, Ready, TargetPCs
  <2>2. account' \in [Users -> AccountType]
    BY <1>6, <2>1 DEF UpdateRole, TypeOK, AccountType
  <2>3. past' \in PastType
    BY <1>6 DEF UpdateRole, TypeOK
  <2> QED BY <1>2, <1>6, <2>2, <2>3 DEF UpdateRole, TypeOK
<1>7. CASE DeleteAccount(r)
  <2>1. Q.target \in Users
    BY <1>0, <1>7 DEF DeleteAccount, Ready, TargetPCs
  <2>2. account[Q.target] \in AccountType /\ account[Q.target].pw + 1 \in Nat
    BY <2>1 DEF TypeOK, AccountType
  <2>3. [account[Q.target] EXCEPT !.role = "gone", !.pw = account[Q.target].pw + 1] \in AccountType
    BY <2>2 DEF AccountType
  <2>4. account' \in [Users -> AccountType]
    BY <1>7, <2>1, <2>3 DEF DeleteAccount, TypeOK
  <2>5. past' \in PastType
    BY <1>7, <2>1, <2>2 DEF DeleteAccount, TypeOK
  <2>6. sessions' \subseteq SessionType /\ tokens' \subseteq TokenType /\ members' \subseteq MemberType
    BY <1>7 DEF DeleteAccount, TypeOK
  <2> QED BY <1>2, <2>4, <2>5, <2>6 DEF TypeOK
<1>8. CASE SetMembership(r)
  <2> DEFINE row == [user |-> Q.target, project |-> Q.project, level |-> Q.level]
  <2>1. row \in MemberType
    BY <1>0, <1>8 DEF SetMembership, At, Ready, TargetPCs, MemberType
  <2>2. members' \subseteq MemberType
    BY <1>8, <2>1 DEF SetMembership, TypeOK
  <2>3. past' \in PastType
    BY <1>8, <2>1 DEF SetMembership, TypeOK
  <2> QED BY <1>2, <1>8, <2>2, <2>3 DEF SetMembership, TypeOK
<1>9. CASE \E u \in Users : RemoveProjectAccess(r, u)
  BY <1>2, <1>9 DEF RemoveProjectAccess, TypeOK
<1>10. CASE CreateSession(r)
  <2>1. Q.actor \in Users
    BY <1>0, <1>10 DEF CreateSession, At, Ready, ActorPCs
  <2>2. [user |-> Q.actor, since |-> account[Q.actor].pw] \in SessionType
    BY <2>1 DEF TypeOK, AccountType, SessionType
  <2> QED BY <1>2, <1>10, <2>2 DEF CreateSession, TypeOK
<1>11. CASE CommandDropSessions(r)
  <2>1. Q.actor \in Users
    BY <1>0, <1>11 DEF CommandDropSessions, At, Ready, ActorPCs
  <2>2. Later(past.evicted[Q.actor], Q.wrote) \in Nat
    BY <1>0, <2>1 DEF Later, TypeOK, RequestType
  <2>3. past' \in PastType
    BY <1>11, <2>1, <2>2 DEF CommandDropSessions, TypeOK
  <2>4. sessions' \subseteq SessionType
    BY <1>11 DEF CommandDropSessions, TypeOK
  <2> QED BY <1>2, <1>11, <2>3, <2>4 DEF CommandDropSessions, TypeOK
<1>12. CASE StoreToken(r)
  <2>1. Q.actor \in Users
    BY <1>0, <1>12 DEF StoreToken, At, Ready, ActorPCs
  <2>2. [id |-> r, user |-> Q.actor, since |-> account[Q.actor].pw] \in TokenType
    BY <2>1 DEF TypeOK, AccountType, TokenType
  <2> QED BY <1>2, <1>12, <2>2 DEF StoreToken, TypeOK
<1>13. CASE RevokeToken(r)
  BY <1>2, <1>13 DEF RevokeToken, TypeOK
<1> QED BY <1>3, <1>4, <1>5, <1>6, <1>7, <1>8, <1>9, <1>10, <1>11, <1>12, <1>13

\* Next, sorted by what a step does to its request.
LEMMA StepKinds ==
  ASSUME NEW r \in Requests, Step(r)
  PROVE  \/ \/ Begin(r) \/ LoadActor(r) \/ FirstRun(r) \/ ChangePassword(r) \/ CreateToken(r)
            \/ \E u \in Users : \/ ResetMemberPassword(r, u) \/ DeleteMember(r, u)
                                \/ Login(r, u) \/ ResetPassword(r, u)
            \/ \E u \in Users, role \in Roles : ChangeRole(r, u, role)
            \/ \E p \in Projects : RequireManage(r, p)
            \/ \E u \in Users, level \in Levels : SetProjectAccess(r, u, level)
            \/ \E u \in Users, role \in Roles, level \in Levels, p \in Projects \cup {None} :
                 CreateMember(r, u, role, p, level)
         \/ \/ \E u \in Users : Register(r, u)
            \/ UpdatePasswordHash(r) \/ ClearMustChange(r) \/ DropSessions(r)
            \/ CommandHash(r) \/ Guard(r)
         \/ \/ Fail(r) \/ InsertMember(r) \/ ResetTo(r) \/ UpdateRole(r) \/ DeleteAccount(r)
            \/ SetMembership(r) \/ (\E u \in Users : RemoveProjectAccess(r, u))
            \/ CreateSession(r) \/ CommandDropSessions(r) \/ StoreToken(r) \/ RevokeToken(r)
BY Zenon DEF Step, MemberSteps, AccessSteps, AuthSteps, TokenSteps

\* Types and wiring are inductive together.
LEMMA TypesStep ==
  ASSUME TypeOK, Wiring, [Next]_vars
  PROVE  TypeOK' /\ Wiring'
<1>1. ASSUME NEW r \in Requests, Step(r) PROVE TypeOK' /\ Wiring'
  BY <1>1, StepKinds, ReadTypes, WriteTypes, AnswerStepTypes
<1>2. ASSUME NEW s \in sessions, EndSession(s) PROVE TypeOK' /\ Wiring'
  BY <1>2 DEF EndSession, TypeOK, Wiring
<1>3. CASE UNCHANGED vars
  BY <1>3 DEF vars, TypeOK, Wiring
<1> QED BY <1>1, <1>2, <1>3 DEF Next

\* The first state has its types.
LEMMA TypesInit == Init => TypeOK /\ Wiring
<1> SUFFICES ASSUME Init PROVE TypeOK /\ Wiring
  OBVIOUS
<1>1. PICK roles \in [Users -> Roles \cup {"absent"}] :
        /\ account = [u \in Users |-> NewRow(roles[u])]
        /\ sessions = {[user |-> u, since |-> 0] : u \in {v \in Users : roles[v] # "absent"}}
        /\ members \in SUBSET [user: {u \in Users : roles[u] \in {"admin", "member"}},
                               project: Projects, level: {"maintainer"}]
  BY DEF Init
<1>2. account \in [Users -> AccountType]
  BY <1>1, NewRowType
<1>3. sessions \subseteq SessionType
  BY <1>1 DEF SessionType
<1>4. members \subseteq MemberType
  BY <1>1 DEF MemberType, Levels
<1>5. req \in [Requests -> RequestType] /\ Wiring
  BY RestType DEF Init, Wiring, Ready, ActorPCs, TargetPCs
<1>6. tokens \subseteq TokenType
  BY DEF Init
<1>7. lock \in [by: Requests \cup {None}, rows: SUBSET Users]
  BY DEF Init
<1>8. past \in [promoted: BOOLEAN, evicted: [Users -> Nat], retired: [Users -> Nat],
                strays: SUBSET MemberType]
  BY DEF Init
<1> QED BY <1>2, <1>3, <1>4, <1>5, <1>6, <1>7, <1>8 DEF TypeOK

\* Every row and every request keeps its type, and a request that has come to a
\* statement of its handler carries the ids and the role the statement uses.
THEOREM AccountTypes == Spec => [](TypeOK /\ Wiring)
<1>1. TypeOK /\ Wiring /\ [Next]_vars => (TypeOK /\ Wiring)'
  BY TypesStep
<1> QED BY <1>1, TypesInit, PTL DEF Spec

----------------------------------------------------------------------------
(* The lock.                                                               *)

\* Whoever is about to write under the guard holds the lock, and the rows it
\* locked, two at least, are super admins still.
Locking ==
  /\ lock.by = None => lock.rows = {}
  /\ lock.by # None => /\ req[lock.by].pc \in {"demote", "remove"}
                       /\ lock.rows \subseteq SuperAdmins
                       /\ Cardinality(lock.rows) > 1
  /\ \A r \in Requests : req[r].pc \in {"demote", "remove"} => lock.by = r

\* Two super admins at least, one of them not the target.
LEMMA AnotherOne ==
  ASSUME NEW S, IsFiniteSet(S), Cardinality(S) > 1, NEW t
  PROVE  \E v \in S : v # t
<1> SUFFICES ASSUME \A v \in S : v = t PROVE FALSE
  OBVIOUS
<1>1. S \subseteq {t}
  OBVIOUS
<1>2. IsFiniteSet({t}) /\ Cardinality({t}) = 1
  BY FS_Singleton
<1>3. Cardinality(S) <= 1
  BY <1>1, <1>2, FS_Subset
<1>4. Cardinality(S) \in Nat
  BY FS_CardinalityType
<1> QED BY <1>3, <1>4

\* The only steps that change anybody's role.
LEMMA RoleSteps ==
  ASSUME TypeOK, Wiring, NEW r \in Requests, Step(r)
  PROVE  \/ \A u \in Users : account'[u].role = account[u].role
         \/ InsertMember(r) \/ UpdateRole(r) \/ DeleteAccount(r)
         \/ \E u \in Users : Register(r, u)
<1> DEFINE Same == \A u \in Users : account'[u].role = account[u].role
<1>0. req[r] \in RequestType /\ Ready(req[r]) /\ account \in [Users -> AccountType]
  BY AtStatement DEF TypeOK
<1>1. ASSUME \/ Begin(r) \/ LoadActor(r) \/ FirstRun(r) \/ ChangePassword(r) \/ CreateToken(r)
             \/ \E u \in Users : \/ ResetMemberPassword(r, u) \/ DeleteMember(r, u)
                                 \/ Login(r, u) \/ ResetPassword(r, u)
             \/ \E u \in Users, role \in Roles : ChangeRole(r, u, role)
             \/ \E p \in Projects : RequireManage(r, p)
             \/ \E u \in Users, level \in Levels : SetProjectAccess(r, u, level)
             \/ \E u \in Users, role \in Roles, level \in Levels, p \in Projects \cup {None} :
                  CreateMember(r, u, role, p, level)
      PROVE  Same
  <2>1. UNCHANGED account
    BY <1>1 DEF Begin, LoadActor, FirstRun, ChangePassword, CreateToken, ResetMemberPassword,
       DeleteMember, Login, ResetPassword, ChangeRole, RequireManage, SetProjectAccess, CreateMember
  <2> QED BY <2>1
<1>2. ASSUME UpdatePasswordHash(r) \/ CommandHash(r) PROVE Same
  <2>1. \E f \in {"owner", "command"} : account' = [account EXCEPT ![req[r].actor] =
          [account[req[r].actor] EXCEPT !.pw = account[req[r].actor].pw + 1, !.from = f]]
    BY <1>2 DEF UpdatePasswordHash, CommandHash
  <2> QED BY <2>1, <1>0 DEF AccountType
<1>3. ASSUME ClearMustChange(r) PROVE Same
  BY <1>0, <1>3 DEF ClearMustChange, AccountType
<1>4. ASSUME DropSessions(r) \/ Guard(r) \/ Fail(r) \/ SetMembership(r)
             \/ (\E u \in Users : RemoveProjectAccess(r, u))
             \/ CreateSession(r) \/ CommandDropSessions(r) \/ StoreToken(r) \/ RevokeToken(r)
      PROVE  Same
  <2>1. UNCHANGED account
    BY <1>4 DEF DropSessions, Guard, Fail, SetMembership, RemoveProjectAccess, CreateSession,
       CommandDropSessions, StoreToken, RevokeToken
  <2> QED BY <2>1
<1>5. ASSUME ResetTo(r) PROVE Same
  <2>1. account' = [account EXCEPT ![req[r].target] = ResetRow(req[r].target)]
    BY <1>5 DEF ResetTo
  <2>2. req[r].target \in Users
    BY <1>0, <1>5 DEF ResetTo, At, Ready, TargetPCs
  <2>3. ResetRow(req[r].target).role = account[req[r].target].role
    BY <1>0, <2>2 DEF ResetRow, AccountType
  <2> QED BY <1>0, <2>1, <2>3
<1> QED BY StepKinds, <1>1, <1>2, <1>3, <1>4, <1>5

\* A super admin's row that somebody else locked keeps its role.
LEMMA LockedRowsKept ==
  ASSUME TypeOK, Wiring, Locking, NEW r \in Requests, Step(r),
         lock.by # None, lock.by # r
  PROVE  lock.rows \subseteq SuperAdmins'
<1>0. /\ lock.rows \subseteq Users
      /\ \A u \in lock.rows : account[u].role = "super_admin"
      /\ account \in [Users -> AccountType]
  BY DEF Locking, SuperAdmins, TypeOK
<1> SUFFICES ASSUME NEW u \in lock.rows PROVE account'[u].role = "super_admin"
  BY <1>0 DEF SuperAdmins
<1>1. CASE InsertMember(r)
  <2>1. account[req[r].target].role = "absent"
    BY <1>1 DEF InsertMember
  <2>2. u # req[r].target
    BY <1>0, <2>1
  <2> QED BY <1>0, <1>1, <2>2 DEF InsertMember
<1>2. CASE UpdateRole(r)
  <2>1. u # req[r].target
    BY <1>2 DEF UpdateRole, Unlocked
  <2> QED BY <1>0, <1>2, <2>1 DEF UpdateRole
<1>3. CASE DeleteAccount(r)
  <2>1. u # req[r].target
    BY <1>3 DEF DeleteAccount, Unlocked
  <2> QED BY <1>0, <1>3, <2>1 DEF DeleteAccount
<1>4. ASSUME NEW v \in Users, Register(r, v) PROVE account'[u].role = "super_admin"
  <2>1. u # v
    BY <1>0, <1>4 DEF Register
  <2> QED BY <1>0, <1>4, <2>1 DEF Register
<1> QED BY <1>0, <1>1, <1>2, <1>3, <1>4, RoleSteps

\* Who may come to a guarded write, and who leaves the lock.
LEMMA LockMoves ==
  ASSUME TypeOK, Wiring, NEW r \in Requests, Step(r)
  PROVE  \/ Answer(r)
         \/ Guard(r)
         \/ /\ UNCHANGED lock
            /\ req[r].pc \notin {"demote", "remove"}
            /\ req'[r].pc \notin {"demote", "remove"}
            /\ \A q \in Requests : q # r => req'[q] = req[q]
<1>0. req \in [Requests -> RequestType] /\ req[r] \in RequestType
  BY DEF TypeOK
<1> DEFINE Away == /\ UNCHANGED lock
                   /\ req[r].pc \notin {"demote", "remove"}
                   /\ req'[r].pc \notin {"demote", "remove"}
                   /\ \A q \in Requests : q # r => req'[q] = req[q]
<1>1. ASSUME Begin(r) \/ LoadActor(r) PROVE Away
  BY <1>0, <1>1 DEF Begin, LoadActor, At, RequestType
<1>2. ASSUME FirstRun(r) \/ ChangePassword(r) \/ CreateToken(r) \/ ClearMustChange(r)
             \/ DropSessions(r)
      PROVE  Away
  BY <1>0, <1>2 DEF FirstRun, ChangePassword, CreateToken, ClearMustChange, DropSessions,
     Admitted, At, Goto, RequestType
<1>3. ASSUME NEW u \in Users,
             \/ ResetMemberPassword(r, u) \/ DeleteMember(r, u)
             \/ Login(r, u) \/ ResetPassword(r, u) \/ Register(r, u)
      PROVE  Away
  <2>1. CASE ResetMemberPassword(r, u)
    BY <1>0, <2>1 DEF ResetMemberPassword, Admitted, At, RequestType
  <2>2. CASE DeleteMember(r, u)
    BY <1>0, <2>2 DEF DeleteMember, Admitted, At, RequestType
  <2>3. CASE Login(r, u) \/ ResetPassword(r, u) \/ Register(r, u)
    BY <1>0, <2>3 DEF Login, ResetPassword, Register, At, RequestType
  <2> QED BY <1>3, <2>1, <2>2, <2>3
<1>4. ASSUME NEW u \in Users, NEW role \in Roles, ChangeRole(r, u, role) PROVE Away
  BY <1>0, <1>4 DEF ChangeRole, Admitted, At, RequestType
<1>5. ASSUME NEW p \in Projects, RequireManage(r, p) PROVE Away
  BY <1>0, <1>5 DEF RequireManage, Admitted, At, RequestType
<1>6. ASSUME NEW u \in Users, NEW level \in Levels, SetProjectAccess(r, u, level) PROVE Away
  BY <1>0, <1>6 DEF SetProjectAccess, At, RequestType
<1>7. ASSUME NEW u \in Users, NEW role \in Roles, NEW level \in Levels,
             NEW p \in Projects \cup {None}, CreateMember(r, u, role, p, level)
      PROVE  Away
  BY <1>0, <1>7 DEF CreateMember, Admitted, At, RequestType
<1>8. ASSUME UpdatePasswordHash(r) \/ CommandHash(r) PROVE Away
  <2>1. /\ req[r].pc \in {"hash", "command"}
        /\ UNCHANGED lock
        /\ \E pc \in {"flag", "command evict"} :
             req' = [req EXCEPT ![r].pc = pc, ![r].wrote = account[req[r].actor].pw + 1]
    BY <1>8 DEF UpdatePasswordHash, CommandHash, At
  <2>2. req'[r].pc \in {"flag", "command evict"}
    BY <1>0, <2>1 DEF RequestType
  <2>3. \A q \in Requests : q # r => req'[q] = req[q]
    BY <1>0, <2>1
  <2> QED BY <2>1, <2>2, <2>3
<1>9. ASSUME \/ Fail(r) \/ InsertMember(r) \/ ResetTo(r) \/ UpdateRole(r) \/ DeleteAccount(r)
             \/ SetMembership(r) \/ (\E u \in Users : RemoveProjectAccess(r, u))
             \/ CreateSession(r) \/ CommandDropSessions(r) \/ StoreToken(r) \/ RevokeToken(r)
      PROVE  Answer(r)
  BY <1>9 DEF Fail, InsertMember, ResetTo, UpdateRole, DeleteAccount, SetMembership,
     RemoveProjectAccess, CreateSession, CommandDropSessions, StoreToken, RevokeToken
<1> QED BY StepKinds, <1>1, <1>2, <1>3, <1>4, <1>5, <1>6, <1>7, <1>8, <1>9

\* No step breaks the lock.
LEMMA LockingStep ==
  ASSUME TypeOK, Wiring, Locking, [Next]_vars
  PROVE  Locking'
<1>1. ASSUME NEW r \in Requests, Step(r) PROVE Locking'
  <2>0. /\ req \in [Requests -> RequestType] /\ lock.by \in Requests \cup {None}
        /\ None \notin Requests
    BY AccountsAssumption DEF TypeOK
  <2>1. CASE Answer(r)
    <3>1. \A q \in Requests : req'[q] = IF q = r THEN Done ELSE req[q]
      BY <2>0, <2>1 DEF Answer
    <3>2. CASE lock.by = r
      <4>1. lock' = [by |-> None, rows |-> {}]
        BY <2>1, <3>2 DEF Answer
      <4>2. \A q \in Requests : req'[q].pc \notin {"demote", "remove"}
        BY <3>1, <3>2, RestType DEF Locking
      <4> QED BY <4>1, <4>2 DEF Locking
    <3>3. CASE lock.by # r
      <4>1. UNCHANGED lock
        BY <2>1, <3>3 DEF Answer
      <4>2. lock.by # None => lock.rows \subseteq SuperAdmins'
        BY <1>1, <3>3, LockedRowsKept
      <4>3. lock.by # None => req'[lock.by].pc = req[lock.by].pc
        BY <2>0, <3>1, <3>3
      <4>4. \A q \in Requests : req'[q].pc \in {"demote", "remove"} => lock.by = q
        BY <3>1, RestType DEF Locking
      <4> QED BY <4>1, <4>2, <4>3, <4>4 DEF Locking
    <3> QED BY <3>2, <3>3
  <2>2. CASE Guard(r)
    <3>1. lock.by = None
      <4> SUFFICES ASSUME lock.by # None PROVE FALSE
        OBVIOUS
      <4>1. lock.rows \subseteq SuperAdmins /\ Cardinality(lock.rows) > 1
        BY DEF Locking
      <4>2. lock.rows = {}
        BY <2>2, <4>1 DEF Guard
      <4> QED BY <4>1, <4>2, FS_EmptySet
    <3>2. lock' = [by |-> r, rows |-> SuperAdmins] /\ UNCHANGED account
          /\ Cardinality(SuperAdmins) > 1
      BY <2>2 DEF Guard
    <3>3. \A q \in Requests : q # r => req'[q] = req[q]
      BY <2>0, <2>2 DEF Guard, Goto
    <3>4. req'[r].pc \in {"demote", "remove"}
      BY <2>0, <2>2 DEF Guard, Goto, RequestType
    <3>5. \A q \in Requests : q # r => req[q].pc \notin {"demote", "remove"}
      BY <2>0, <3>1 DEF Locking
    <3>6. SuperAdmins' = SuperAdmins
      BY <3>2 DEF SuperAdmins
    <3> QED BY <2>0, <3>2, <3>3, <3>4, <3>5, <3>6 DEF Locking
  <2>3. CASE /\ UNCHANGED lock
             /\ req[r].pc \notin {"demote", "remove"}
             /\ req'[r].pc \notin {"demote", "remove"}
             /\ \A q \in Requests : q # r => req'[q] = req[q]
    <3>1. lock.by # r
      BY <2>0, <2>3 DEF Locking
    <3>2. lock.by # None => lock.rows \subseteq SuperAdmins'
      BY <1>1, <3>1, LockedRowsKept
    <3> QED BY <2>0, <2>3, <3>1, <3>2 DEF Locking
  <2> QED BY <1>1, <2>1, <2>2, <2>3, LockMoves
<1>2. ASSUME NEW s \in sessions, EndSession(s) PROVE Locking'
  BY <1>2 DEF EndSession, Locking, SuperAdmins
<1>3. CASE UNCHANGED vars
  BY <1>3 DEF vars, Locking, SuperAdmins
<1> QED BY <1>1, <1>2, <1>3 DEF Next

\* Nobody has locked anything to begin with.
LEMMA LockingInit == Init => Locking
<1> SUFFICES ASSUME Init PROVE Locking
  OBVIOUS
<1>1. lock.by = None /\ lock.rows = {}
  BY DEF Init
<1>2. \A r \in Requests : req[r].pc = "idle"
  BY RestType DEF Init
<1> QED BY <1>1, <1>2 DEF Locking

\* The rows a guard has locked are super admins, so at least as many are there.
LEMMA LockedCount ==
  ASSUME TypeOK, Locking
  PROVE  CountHoldsUntilWrite
<1> SUFFICES ASSUME lock.by # None PROVE Cardinality(SuperAdmins) > 1
  BY DEF CountHoldsUntilWrite
<1>1. lock.rows \subseteq SuperAdmins /\ Cardinality(lock.rows) > 1
  BY DEF Locking
<1>2. SuperAdmins \subseteq Users /\ IsFiniteSet(Users)
  BY AccountsAssumption DEF SuperAdmins
<1>3. IsFiniteSet(SuperAdmins)
  BY <1>2, FS_Subset
<1>4. IsFiniteSet(lock.rows) /\ Cardinality(lock.rows) <= Cardinality(SuperAdmins)
  BY <1>1, <1>3, FS_Subset
<1>5. Cardinality(lock.rows) \in Nat /\ Cardinality(SuperAdmins) \in Nat
  BY <1>3, <1>4, FS_CardinalityType
<1> QED BY <1>1, <1>4, <1>5

\* guardLastSuperAdmin, for any number of super admins and of requests: what it
\* counted under FOR UPDATE still holds when DeleteMember or ChangeRole writes.
THEOREM GuardSafe == Spec => []CountHoldsUntilWrite
<1>1. Init => TypeOK /\ Wiring /\ Locking
  BY TypesInit, LockingInit
<1>2. TypeOK /\ Wiring /\ Locking /\ [Next]_vars => (TypeOK /\ Wiring /\ Locking)'
  BY TypesStep, LockingStep
<1>3. TypeOK /\ Wiring /\ Locking => CountHoldsUntilWrite
  BY LockedCount
<1> QED BY <1>1, <1>2, <1>3, PTL DEF Spec

----------------------------------------------------------------------------
(* A super admin remains.                                                  *)

\* The installation has been set up.
Used == \E u \in Users : account[u].role # "absent"

\* Before somebody registers there is no session and nothing under way but
\* visits to the register screen; and as long as nobody was promoted, a write
\* that goes without the guard is about an account that is no super admin.
Rooted ==
  /\ SuperAdminRemains
  /\ sessions # {} => Used
  /\ \A r \in Requests : req[r].pc \notin {"idle", "register", "done"} => Used
  /\ ~past.promoted =>
       \A r \in Requests : req[r].pc \in {"role", "delete"} =>
         account[req[r].target].role \notin {"absent", "super_admin"}

\* Nobody's promotion is forgotten, and an account that exists or existed and is
\* no super admin stays so unless somebody is promoted.
LEMMA OrdinaryStays ==
  ASSUME TypeOK, Wiring, NEW r \in Requests, Step(r), ~past'.promoted
  PROVE  /\ ~past.promoted
         /\ \A u \in Users : account[u].role \notin {"absent", "super_admin"} =>
              account'[u].role \notin {"absent", "super_admin"}
<1>0. /\ req[r] \in RequestType /\ Ready(req[r]) /\ account \in [Users -> AccountType]
      /\ past \in [promoted: BOOLEAN, evicted: [Users -> Nat], retired: [Users -> Nat],
                   strays: SUBSET MemberType]
  BY AtStatement DEF TypeOK
<1> DEFINE Kept == \A u \in Users : account[u].role \notin {"absent", "super_admin"} =>
                     account'[u].role \notin {"absent", "super_admin"}
<1>1. CASE UpdateRole(r)
  <2>1. past'.promoted = (past.promoted \/ req[r].want = "super_admin")
    BY <1>0, <1>1 DEF UpdateRole
  <2>2. req[r].want \in Roles \ {"super_admin"} /\ ~past.promoted
    BY <1>0, <1>1, <2>1 DEF UpdateRole, Ready
  <2>3. \A u \in Users : account'[u].role = account[u].role \/ account'[u].role = req[r].want
    BY <1>0, <1>1 DEF UpdateRole, AccountType
  <2> QED BY <2>2, <2>3 DEF Roles
<1>2. CASE ~UpdateRole(r)
  <2>1. past'.promoted = past.promoted
    <3>1. UNCHANGED past \/ ResetTo(r) \/ DeleteAccount(r) \/ SetMembership(r)
          \/ DropSessions(r) \/ CommandDropSessions(r)
      BY <1>2, StepKinds DEF Begin, LoadActor, FirstRun, ChangePassword, CreateToken,
         ResetMemberPassword, DeleteMember, Login, ResetPassword, ChangeRole, RequireManage,
         SetProjectAccess, CreateMember, Register, UpdatePasswordHash, ClearMustChange,
         CommandHash, Guard, Fail, InsertMember, RemoveProjectAccess, CreateSession,
         StoreToken, RevokeToken
    <3> QED BY <1>0, <3>1 DEF ResetTo, DeleteAccount, SetMembership, DropSessions,
               CommandDropSessions
  <2>2. CASE InsertMember(r)
    BY <1>0, <2>2, <2>1 DEF InsertMember
  <2>3. CASE DeleteAccount(r)
    <3>1. account' = [account EXCEPT ![req[r].target] =
            [account[req[r].target] EXCEPT !.role = "gone",
                                           !.pw = account[req[r].target].pw + 1]]
      BY <2>3 DEF DeleteAccount
    <3> QED BY <1>0, <2>1, <3>1 DEF AccountType
  <2>4. ASSUME NEW v \in Users, Register(r, v) PROVE Kept
    BY <1>0, <2>4 DEF Register
  <2> QED BY <1>2, <2>1, <2>2, <2>3, <2>4, RoleSteps
<1> QED BY <1>1, <1>2

\* Only ChangeRole and DeleteMember come to an unguarded write, having read an
\* account that is no super admin.
LEMMA UnguardedWrites ==
  ASSUME TypeOK, Wiring, NEW r \in Requests, Step(r), NEW q \in Requests,
         req'[q].pc \in {"role", "delete"}
  PROVE  \/ req'[q] = req[q]
         \/ /\ UNCHANGED account
            /\ req'[q].target \in Users
            /\ account[req'[q].target].role \notin {"absent", "super_admin"}
<1>0. req \in [Requests -> RequestType] /\ req[r] \in RequestType
  BY DEF TypeOK
<1> DEFINE Goal == \/ req'[q] = req[q]
                   \/ /\ UNCHANGED account
                      /\ req'[q].target \in Users
                      /\ account[req'[q].target].role \notin {"absent", "super_admin"}
<1>1. CASE Answer(r)
  <2>1. q # r
    BY <1>0, <1>1, RestType DEF Answer
  <2> QED BY <1>0, <1>1, <2>1 DEF Answer
<1>2. CASE Guard(r)
  <2>1. q # r
    BY <1>0, <1>2 DEF Guard, Goto, RequestType
  <2> QED BY <1>0, <1>2, <2>1 DEF Guard, Goto
<1>3. CASE q # r
  BY <1>1, <1>2, <1>3, LockMoves
<1>4. CASE q = r
  <2>1. ASSUME NEW u \in Users, NEW role \in Roles, ChangeRole(r, u, role) PROVE Goal
    <3>1. req'[r].target = u /\ req'[r].pc = IF account[u].role = "super_admin" THEN "guard" ELSE "role"
      BY <1>0, <2>1 DEF ChangeRole, RequestType
    <3> QED BY <1>4, <2>1, <3>1 DEF ChangeRole, Exists, Roles
  <2>2. ASSUME NEW u \in Users, DeleteMember(r, u) PROVE Goal
    <3>1. req'[r].target = u /\ req'[r].pc = IF account[u].role = "super_admin" THEN "guard" ELSE "delete"
      BY <1>0, <2>2 DEF DeleteMember, RequestType
    <3> QED BY <1>4, <2>2, <3>1 DEF DeleteMember, Exists, Roles
  <2>3. ASSUME \/ Begin(r) \/ LoadActor(r) \/ FirstRun(r) \/ ChangePassword(r) \/ CreateToken(r)
               \/ ClearMustChange(r) \/ DropSessions(r)
               \/ \E u \in Users : ResetMemberPassword(r, u) \/ Login(r, u)
                                   \/ ResetPassword(r, u) \/ Register(r, u)
               \/ \E p \in Projects : RequireManage(r, p)
               \/ \E u \in Users, level \in Levels : SetProjectAccess(r, u, level)
        PROVE  req'[r].pc \notin {"role", "delete"}
    <3>1. CASE \/ FirstRun(r) \/ ChangePassword(r) \/ CreateToken(r)
               \/ ClearMustChange(r) \/ DropSessions(r)
      BY <1>0, <3>1 DEF FirstRun, ChangePassword, CreateToken, ClearMustChange, DropSessions,
         Goto, RequestType
    <3>2. CASE Begin(r) \/ LoadActor(r)
      BY <1>0, <3>2 DEF Begin, LoadActor, RequestType
    <3>3. CASE \E u \in Users : ResetMemberPassword(r, u) \/ Login(r, u)
                               \/ ResetPassword(r, u) \/ Register(r, u)
      BY <1>0, <3>3 DEF ResetMemberPassword, Login, ResetPassword, Register, RequestType
    <3>4. CASE \E p \in Projects : RequireManage(r, p)
      BY <1>0, <3>4 DEF RequireManage, RequestType
    <3>5. CASE \E u \in Users, level \in Levels : SetProjectAccess(r, u, level)
      BY <1>0, <3>5 DEF SetProjectAccess, RequestType
    <3> QED BY <2>3, <3>1, <3>2, <3>3, <3>4, <3>5
  <2>4. ASSUME NEW u \in Users, NEW role \in Roles, NEW level \in Levels,
               NEW p \in Projects \cup {None}, CreateMember(r, u, role, p, level)
        PROVE  req'[r].pc \notin {"role", "delete"}
    BY <1>0, <2>4 DEF CreateMember, RequestType
  <2>5. ASSUME UpdatePasswordHash(r) \/ CommandHash(r)
        PROVE  req'[r].pc \notin {"role", "delete"}
    <3>1. CASE UpdatePasswordHash(r)
      <4> DEFINE n == account[req[r].actor].pw + 1
      <4>1. req' = [req EXCEPT ![r].pc = "flag", ![r].wrote = n]
        BY <3>1 DEF UpdatePasswordHash
      <4> HIDE DEF n
      <4>2. req'[r].pc = "flag"
        BY <1>0, <4>1 DEF RequestType
      <4> QED BY <4>2
    <3>2. CASE CommandHash(r)
      <4> DEFINE n == account[req[r].actor].pw + 1
      <4>1. req' = [req EXCEPT ![r].pc = "command evict", ![r].wrote = n]
        BY <3>2 DEF CommandHash
      <4> HIDE DEF n
      <4>2. req'[r].pc = "command evict"
        BY <1>0, <4>1 DEF RequestType
      <4> QED BY <4>2
    <3> QED BY <2>5, <3>1, <3>2
  <2>6. ASSUME \/ Fail(r) \/ InsertMember(r) \/ ResetTo(r) \/ UpdateRole(r) \/ DeleteAccount(r)
               \/ SetMembership(r) \/ (\E u \in Users : RemoveProjectAccess(r, u))
               \/ CreateSession(r) \/ CommandDropSessions(r) \/ StoreToken(r) \/ RevokeToken(r)
        PROVE  Answer(r)
    BY <2>6 DEF Fail, InsertMember, ResetTo, UpdateRole, DeleteAccount, SetMembership,
       RemoveProjectAccess, CreateSession, CommandDropSessions, StoreToken, RevokeToken
  <2> QED BY <1>1, <1>2, <1>4, StepKinds, <2>1, <2>2, <2>3, <2>4, <2>5, <2>6
<1> QED BY <1>3, <1>4

\* Once set up, always set up.
LEMMA UsedStays ==
  ASSUME TypeOK, Wiring, Used, NEW r \in Requests, Step(r)
  PROVE  Used'
<1>0. req[r] \in RequestType /\ Ready(req[r]) /\ account \in [Users -> AccountType]
  BY AtStatement DEF TypeOK
<1>1. PICK u \in Users : account[u].role # "absent"
  BY DEF Used
<1> SUFFICES account'[u].role # "absent"
  BY DEF Used
<1>2. CASE InsertMember(r)
  BY <1>0, <1>1, <1>2 DEF InsertMember
<1>3. CASE UpdateRole(r)
  <2>1. account'[u].role = account[u].role \/ account'[u].role = req[r].want
    BY <1>0, <1>3 DEF UpdateRole, AccountType
  <2>2. req[r].want \in Roles
    BY <1>0, <1>3 DEF UpdateRole, Ready
  <2> QED BY <1>1, <2>1, <2>2 DEF Roles
<1>4. CASE DeleteAccount(r)
  <2>1. account' = [account EXCEPT ![req[r].target] =
          [account[req[r].target] EXCEPT !.role = "gone",
                                         !.pw = account[req[r].target].pw + 1]]
    BY <1>4 DEF DeleteAccount
  <2> QED BY <1>0, <1>1, <2>1 DEF AccountType
<1>5. ASSUME NEW v \in Users, Register(r, v) PROVE account'[u].role # "absent"
  BY <1>0, <1>1, <1>5 DEF Register
<1> QED BY <1>1, <1>2, <1>3, <1>4, <1>5, RoleSteps

\* Before the set-up a request can only come to the register screen, register,
\* or give up there.
LEMMA UnusedSteps ==
  ASSUME TypeOK, Wiring, Rooted, ~Used, NEW r \in Requests, Step(r)
  PROVE  \/ /\ UNCHANGED <<account, sessions>>
            /\ req'[r].pc \in {"register", "done"}
            /\ \A q \in Requests : q # r => req'[q] = req[q]
         \/ \E u \in Users : Register(r, u)
<1>0. /\ req \in [Requests -> RequestType] /\ req[r] \in RequestType
      /\ sessions = {} /\ req[r].pc \in {"idle", "register", "done"}
      /\ \A u \in Users : ~Exists(u)
  BY DEF TypeOK, Rooted, Used, Exists, Roles
<1>1. FirstRun(r) \/ Fail(r) \/ \E u \in Users : Register(r, u)
  <2>1. ~(Begin(r) \/ LoadActor(r) \/ ChangePassword(r) \/ CreateToken(r) \/ UpdatePasswordHash(r)
          \/ ClearMustChange(r) \/ DropSessions(r) \/ CommandHash(r) \/ Guard(r)
          \/ InsertMember(r) \/ ResetTo(r) \/ UpdateRole(r) \/ DeleteAccount(r)
          \/ SetMembership(r) \/ CreateSession(r) \/ CommandDropSessions(r) \/ StoreToken(r)
          \/ RevokeToken(r))
    BY <1>0 DEF Begin, LoadActor, ChangePassword, CreateToken, UpdatePasswordHash,
       ClearMustChange, DropSessions, CommandHash, Guard, InsertMember, ResetTo, UpdateRole,
       DeleteAccount, SetMembership, CreateSession, CommandDropSessions, StoreToken,
       RevokeToken, Admitted, At
  <2>2. ASSUME NEW u \in Users
        PROVE  ~(ResetMemberPassword(r, u) \/ DeleteMember(r, u) \/ Login(r, u)
                 \/ ResetPassword(r, u) \/ RemoveProjectAccess(r, u))
    BY <1>0 DEF ResetMemberPassword, DeleteMember, Login, ResetPassword, RemoveProjectAccess,
       Admitted, At
  <2>3. ASSUME NEW p \in Projects PROVE ~RequireManage(r, p)
    BY <1>0 DEF RequireManage, Admitted, At
  <2>4. ASSUME NEW u \in Users, NEW level \in Levels PROVE ~SetProjectAccess(r, u, level)
    BY <1>0 DEF SetProjectAccess, At
  <2>5. ASSUME NEW u \in Users, NEW role \in Roles PROVE ~ChangeRole(r, u, role)
    BY <1>0 DEF ChangeRole, Admitted, At
  <2>6. ASSUME NEW u \in Users, NEW role \in Roles, NEW level \in Levels,
               NEW p \in Projects \cup {None}
        PROVE  ~CreateMember(r, u, role, p, level)
    BY <1>0 DEF CreateMember, Admitted, At
  <2> QED BY <2>1, <2>2, <2>3, <2>4, <2>5, <2>6, StepKinds
<1>2. CASE FirstRun(r)
  BY <1>0, <1>2 DEF FirstRun, Goto, RequestType
<1>3. CASE Fail(r)
  BY <1>0, <1>3, RestType DEF Fail, Answer
<1> QED BY <1>1, <1>2, <1>3

\* An unguarded write is about no super admin; a guarded one leaves another.
LEMMA RemainsStep ==
  ASSUME TypeOK, Wiring, Locking, Rooted, NEW r \in Requests, Step(r)
  PROVE  SuperAdminRemains'
<1>0. req[r] \in RequestType /\ Ready(req[r]) /\ account \in [Users -> AccountType]
  BY AtStatement DEF TypeOK
<1> SUFFICES ASSUME ~past'.promoted PROVE Used' => SuperAdmins' # {}
  BY DEF SuperAdminRemains, Used
<1>1. ~past.promoted
  BY OrdinaryStays
<1>2. ASSUME NEW u \in Users, Register(r, u) PROVE SuperAdmins' # {}
  <2>1. account'[u].role = "super_admin"
    BY <1>0, <1>2 DEF Register, NewRow
  <2> QED BY <2>1 DEF SuperAdmins
<1>3. CASE ~Used
  <2>1. CASE UNCHANGED account
    BY <1>3, <2>1 DEF Used
  <2> QED BY <1>2, <1>3, <2>1, UnusedSteps
<1>4. CASE Used
  <2>1. PICK v \in Users : account[v].role = "super_admin"
    BY <1>1, <1>4 DEF Rooted, SuperAdminRemains, Used, SuperAdmins
  <2>2. CASE \A u \in Users : account'[u].role = account[u].role
    BY <2>1, <2>2 DEF SuperAdmins
  <2>3. CASE InsertMember(r)
    <3>1. account'[v].role = "super_admin"
      BY <1>0, <2>1, <2>3 DEF InsertMember
    <3> QED BY <3>1 DEF SuperAdmins
  <2>4. CASE UpdateRole(r) \/ DeleteAccount(r)
    <3>1. \A u \in Users : u # req[r].target => account'[u] = account[u]
      BY <1>0, <2>4 DEF UpdateRole, DeleteAccount
    <3>2. \E u \in SuperAdmins : u # req[r].target
      <4>1. CASE req[r].pc \in {"role", "delete"}
        BY <1>1, <2>1, <4>1 DEF Rooted, SuperAdmins
      <4>2. CASE req[r].pc \in {"demote", "remove"}
        <5>1. lock.by = r /\ r # None
          BY <4>2, AccountsAssumption DEF Locking
        <5>2. Cardinality(SuperAdmins) > 1
          BY <5>1, LockedCount DEF CountHoldsUntilWrite
        <5>3. IsFiniteSet(SuperAdmins)
          BY FS_Subset, AccountsAssumption DEF SuperAdmins
        <5> QED BY <5>2, <5>3, AnotherOne
      <4> QED BY <2>4, <4>1, <4>2 DEF UpdateRole, DeleteAccount
    <3> QED BY <3>1, <3>2 DEF SuperAdmins
  <2> QED BY <1>2, <2>2, <2>3, <2>4, RoleSteps
<1> QED BY <1>3, <1>4

\* No step breaks what keeps a super admin there.
LEMMA RootedStep ==
  ASSUME TypeOK, Wiring, Locking, Rooted, [Next]_vars
  PROVE  Rooted'
<1>1. ASSUME NEW r \in Requests, Step(r) PROVE Rooted'
  <2>0. req \in [Requests -> RequestType] /\ req' \in [Requests -> RequestType]
    BY TypesStep DEF TypeOK
  <2>1. SuperAdminRemains'
    BY <1>1, RemainsStep
  <2>2. (sessions # {} => Used)'
        /\ (\A q \in Requests : req[q].pc \notin {"idle", "register", "done"} => Used)'
    <3>1. CASE Used
      BY <1>1, <3>1, UsedStays
    <3>2. CASE ~Used
      <4>1. ASSUME NEW u \in Users, Register(r, u) PROVE Used'
        <5>1. account'[u].role = "super_admin"
          BY <4>1 DEF Register, NewRow, TypeOK
        <5> QED BY <5>1 DEF Used
      <4>2. CASE /\ UNCHANGED <<account, sessions>>
                 /\ req'[r].pc \in {"register", "done"}
                 /\ \A q \in Requests : q # r => req'[q] = req[q]
        <5>1. sessions' = {}
          BY <3>2, <4>2 DEF Rooted
        <5>2. \A q \in Requests : req'[q].pc \in {"idle", "register", "done"}
          BY <3>2, <4>2 DEF Rooted
        <5> QED BY <5>1, <5>2
      <4> QED BY <1>1, <3>2, <4>1, <4>2, UnusedSteps
    <3> QED BY <3>1, <3>2
  <2>3. ASSUME ~past'.promoted, NEW q \in Requests, req'[q].pc \in {"role", "delete"}
        PROVE  account'[req'[q].target].role \notin {"absent", "super_admin"}
    <3>1. CASE req'[q] = req[q]
      <4>1. req[q].target \in Users
        BY <2>3, <3>1 DEF Wiring, Ready, TargetPCs
      <4>2. ~past.promoted
        BY <1>1, <2>3, OrdinaryStays
      <4>3. account[req[q].target].role \notin {"absent", "super_admin"}
        BY <2>3, <3>1, <4>2 DEF Rooted
      <4> QED BY <1>1, <2>3, <3>1, <4>1, <4>3, OrdinaryStays
    <3>2. CASE req'[q] # req[q]
      BY <1>1, <2>3, <3>2, UnguardedWrites
    <3> QED BY <3>1, <3>2
  <2> QED BY <2>1, <2>2, <2>3 DEF Rooted
<1>2. ASSUME NEW s \in sessions, EndSession(s) PROVE Rooted'
  BY <1>2 DEF EndSession, Rooted, SuperAdminRemains, Used, SuperAdmins
<1>3. CASE UNCHANGED vars
  BY <1>3 DEF vars, Rooted, SuperAdminRemains, Used, SuperAdmins
<1> QED BY <1>1, <1>2, <1>3 DEF Next

\* An installation starts unused, or with a super admin.
LEMMA RootedInit == Init => Rooted
<1> SUFFICES ASSUME Init PROVE Rooted
  OBVIOUS
<1>1. PICK roles \in [Users -> Roles \cup {"absent"}] :
        /\ \/ \A u \in Users : roles[u] = "absent"
           \/ \E u \in Users : roles[u] = "super_admin"
        /\ account = [u \in Users |-> NewRow(roles[u])]
        /\ sessions = {[user |-> u, since |-> 0] :
                         u \in {v \in Users : roles[v] # "absent"}}
  BY DEF Init
<1>2. \A u \in Users : account[u].role = roles[u]
  BY <1>1 DEF NewRow
<1>3. SuperAdminRemains
  BY <1>1, <1>2 DEF SuperAdminRemains, SuperAdmins
<1>4. sessions # {} => Used
  BY <1>1, <1>2 DEF Used
<1>5. \A r \in Requests : req[r].pc = "idle"
  BY RestType DEF Init
<1> QED BY <1>3, <1>4, <1>5 DEF Rooted

\* For any number of accounts and of concurrent requests an installation that
\* was set up keeps a super admin until somebody is promoted to one: the guard of
\* DeleteMember and ChangeRole serves, and no write that goes without it can meet
\* a super admin.
THEOREM SuperAdminSafe == Spec => []SuperAdminRemains
<1>1. Init => TypeOK /\ Wiring /\ Locking /\ Rooted
  BY TypesInit, LockingInit, RootedInit
<1>2. TypeOK /\ Wiring /\ Locking /\ Rooted /\ [Next]_vars
        => (TypeOK /\ Wiring /\ Locking /\ Rooted)'
  BY TypesStep, LockingStep, RootedStep
<1>3. Rooted => SuperAdminRemains
  BY DEF Rooted
<1> QED BY <1>1, <1>2, <1>3, PTL DEF Spec

----------------------------------------------------------------------------
(* Passwords, sessions and grants.                                         *)

\* What a step of r can do to a row of the users table: insert it, change its
\* role, store a password, clear the flag, or remove it.
Created(u) ==
  /\ account[u].role = "absent" /\ account'[u].role \in Roles
  /\ account'[u].pw = 0
  /\ account'[u].from = "dashboard" => account'[u].must

Ranked(u) ==
  /\ account[u].role \in Roles /\ account'[u].role \in Roles
  /\ account'[u].pw = account[u].pw /\ account'[u].must = account[u].must
  /\ account'[u].from = account[u].from /\ account'[u].calm = account[u].calm

Rekeyed(u) ==
  /\ account[u].role \in Roles /\ account'[u].role = account[u].role
  /\ account'[u].pw = account[u].pw + 1
  /\ account'[u].from = "dashboard" => (account'[u].must /\ account'[u].calm = ~Changing(u))

Unflagged(r, u) ==
  /\ req[r].pc = "flag" /\ req[r].actor = u
  /\ account'[u].role = account[u].role /\ account'[u].pw = account[u].pw
  /\ account'[u].from = account[u].from /\ account'[u].calm = account[u].calm

Removed(u) ==
  /\ account[u].role \in Roles /\ account'[u].role = "gone"
  /\ account'[u].pw = account[u].pw + 1
  /\ account'[u].from = account[u].from /\ account'[u].calm = account[u].calm

LEMMA RowSteps ==
  ASSUME TypeOK, Wiring, NEW r \in Requests, Step(r), NEW u \in Users
  PROVE  \/ account'[u] = account[u]
         \/ Created(u) \/ Ranked(u) \/ Rekeyed(u) \/ Unflagged(r, u)
         \/ Removed(u) /\ DeleteAccount(r) /\ u = req[r].target
<1> DEFINE Goal == \/ account'[u] = account[u]
                   \/ Created(u) \/ Ranked(u) \/ Rekeyed(u) \/ Unflagged(r, u)
                   \/ Removed(u) /\ DeleteAccount(r) /\ u = req[r].target
<1>0. /\ req[r] \in RequestType /\ Ready(req[r]) /\ account \in [Users -> AccountType]
      /\ account[u] \in AccountType
  BY AtStatement DEF TypeOK
<1>1. ASSUME NEW v, NEW x, account' = [account EXCEPT ![v] = x]
      PROVE  account'[u] = IF u = v THEN x ELSE account[u]
  BY <1>0, <1>1
<1>2. CASE InsertMember(r)
  <2> DEFINE x == [NewRow(req[r].want) EXCEPT !.must = TRUE, !.from = "dashboard"]
  <2>1. account' = [account EXCEPT ![req[r].target] = x] /\ req[r].want \in Roles
        /\ account[req[r].target].role = "absent"
    BY <1>0, <1>2 DEF InsertMember, At, Ready
  <2>2. x.role = req[r].want /\ x.pw = 0 /\ x.must
    BY DEF NewRow
  <2> HIDE DEF x
  <2> QED BY <1>1, <2>1, <2>2 DEF Created
<1>3. ASSUME NEW v \in Users, Register(r, v) PROVE Goal
  <2> DEFINE x == NewRow("super_admin")
  <2>1. account' = [account EXCEPT ![v] = x] /\ account[v].role = "absent"
    BY <1>3 DEF Register
  <2>2. x.role \in Roles /\ x.pw = 0 /\ x.from = "owner"
    BY DEF NewRow, Roles
  <2> HIDE DEF x
  <2> QED BY <1>1, <2>1, <2>2 DEF Created
<1>4. CASE UpdateRole(r)
  <2> DEFINE v == req[r].target
             x == [account[v] EXCEPT !.role = req[r].want]
  <2>1. account' = [account EXCEPT ![v] = x]
    BY <1>0, <1>4, Zenon DEF UpdateRole
  <2>2. v \in Users /\ req[r].want \in Roles /\ account[v].role \in Roles
    BY <1>0, <1>4 DEF UpdateRole, Ready, TargetPCs, Exists
  <2>3. /\ x.role = req[r].want /\ x.pw = account[v].pw /\ x.must = account[v].must
        /\ x.from = account[v].from /\ x.calm = account[v].calm
    BY <1>0, <2>2 DEF AccountType
  <2> HIDE DEF x
  <2> QED BY <1>1, <2>1, <2>2, <2>3 DEF Ranked
<1>5. CASE UpdatePasswordHash(r) \/ CommandHash(r)
  <2> DEFINE v == req[r].actor
             x(f) == [account[v] EXCEPT !.pw = account[v].pw + 1, !.from = f]
  <2>1. account[v].role \in Roles /\ v \in Users
    BY <1>0, <1>5 DEF UpdatePasswordHash, CommandHash, Exists, At, Ready, ActorPCs
  <2>2. \/ account' = [account EXCEPT ![v] = x("owner")]
        \/ account' = [account EXCEPT ![v] = x("command")]
    BY <1>5 DEF UpdatePasswordHash, CommandHash
  <2>3. \A f \in {"owner", "command"} :
           x(f).role = account[v].role /\ x(f).pw = account[v].pw + 1 /\ x(f).from # "dashboard"
    BY <1>0, <2>1 DEF AccountType
  <2> HIDE DEF x
  <2>4. PICK f \in {"owner", "command"} : account' = [account EXCEPT ![v] = x(f)]
    BY <2>2
  <2> QED BY <1>1, <2>1, <2>3, <2>4 DEF Rekeyed
<1>6. CASE ResetTo(r)
  <2> DEFINE v == req[r].target
             n == account[v].pw + 1
             b == ~Changing(v)
             y(k, c) == [account[v] EXCEPT !.pw = k, !.must = TRUE, !.from = "dashboard",
                                           !.calm = c]
             x == y(n, b)
  <2>1. account' = [account EXCEPT ![v] = x] /\ account[v].role \in Roles /\ v \in Users
    BY <1>0, <1>6 DEF ResetTo, ResetRow, Exists, At, Ready, TargetPCs
  <2>2. \A k, c : /\ y(k, c).role = account[v].role /\ y(k, c).pw = k
                  /\ y(k, c).must = TRUE /\ y(k, c).calm = c
    BY <1>0, <2>1 DEF AccountType
  <2> HIDE DEF y, b
  <2>3. x.role = account[v].role /\ x.pw = n /\ x.must = TRUE /\ x.calm = b
    BY <2>2
  <2> HIDE DEF x
  <2> QED BY <1>1, <2>1, <2>3 DEF Rekeyed, b
<1>7. CASE ClearMustChange(r)
  <2> DEFINE v == req[r].actor
             x == [account[v] EXCEPT !.must = FALSE]
  <2>1. account' = [account EXCEPT ![v] = x] /\ req[r].pc = "flag" /\ v \in Users
    BY <1>0, <1>7 DEF ClearMustChange, At, Ready, ActorPCs
  <2>2. /\ x.role = account[v].role /\ x.pw = account[v].pw
        /\ x.from = account[v].from /\ x.calm = account[v].calm
    BY <1>0, <2>1 DEF AccountType
  <2> HIDE DEF x
  <2> QED BY <1>1, <2>1, <2>2 DEF Unflagged
<1>8. CASE DeleteAccount(r)
  <2> DEFINE v == req[r].target
             x == [account[v] EXCEPT !.role = "gone", !.pw = account[v].pw + 1]
  <2>1. account' = [account EXCEPT ![v] = x] /\ account[v].role \in Roles /\ v \in Users
    BY <1>0, <1>8 DEF DeleteAccount, Exists, Ready, TargetPCs
  <2>2. /\ x.role = "gone" /\ x.pw = account[v].pw + 1
        /\ x.from = account[v].from /\ x.calm = account[v].calm
    BY <1>0, <2>1 DEF AccountType
  <2> HIDE DEF x
  <2> QED BY <1>1, <1>8, <2>1, <2>2 DEF Removed
<1>9. ASSUME \/ \/ Begin(r) \/ LoadActor(r) \/ FirstRun(r) \/ ChangePassword(r) \/ CreateToken(r)
                \/ \E v \in Users : \/ ResetMemberPassword(r, v) \/ DeleteMember(r, v)
                                    \/ Login(r, v) \/ ResetPassword(r, v)
                \/ \E v \in Users, role \in Roles : ChangeRole(r, v, role)
                \/ \E p \in Projects : RequireManage(r, p)
                \/ \E v \in Users, level \in Levels : SetProjectAccess(r, v, level)
                \/ \E v \in Users, role \in Roles, level \in Levels, p \in Projects \cup {None} :
                     CreateMember(r, v, role, p, level)
             \/ DropSessions(r) \/ Guard(r) \/ Fail(r) \/ SetMembership(r)
             \/ (\E v \in Users : RemoveProjectAccess(r, v))
             \/ CreateSession(r) \/ CommandDropSessions(r) \/ StoreToken(r) \/ RevokeToken(r)
      PROVE  Goal
  <2>1. UNCHANGED account
    BY <1>9 DEF Begin, LoadActor, FirstRun, ChangePassword, CreateToken, ResetMemberPassword,
       DeleteMember, Login, ResetPassword, ChangeRole, RequireManage, SetProjectAccess, CreateMember,
       DropSessions, Guard, Fail, SetMembership, RemoveProjectAccess, CreateSession,
       CommandDropSessions, StoreToken, RevokeToken
  <2> QED BY <2>1
<1> QED BY StepKinds, <1>2, <1>3, <1>4, <1>5, <1>6, <1>7, <1>8, <1>9

\* Who comes to clear the flag, to drop the sessions, or to write a membership.
LEMMA Arrivals ==
  ASSUME TypeOK, Wiring, NEW r \in Requests, Step(r)
  PROVE  /\ \A q \in Requests : q # r => req'[q] = req[q]
         /\ \/ req'[r].pc \notin {"flag", "evict", "command evict", "grant"}
            \/ /\ req[r].pc = "flag" /\ req'[r].pc = "evict"
               /\ req'[r].actor = req[r].actor /\ req'[r].wrote = req[r].wrote
            \/ /\ \/ UpdatePasswordHash(r) /\ req'[r].pc = "flag"
                  \/ CommandHash(r) /\ req'[r].pc = "command evict"
               /\ req'[r].actor = req[r].actor
               /\ req'[r].wrote = account[req[r].actor].pw + 1
            \/ /\ req'[r].pc = "grant"
               /\ req'[r].target \in Users /\ Exists(req'[r].target) /\ UNCHANGED account
<1> DEFINE Away == /\ \A q \in Requests : q # r => req'[q] = req[q]
                   /\ req'[r].pc \notin {"flag", "evict", "command evict", "grant"}
<1>0. req \in [Requests -> RequestType] /\ req[r] \in RequestType
  BY DEF TypeOK
<1>1. CASE Answer(r)
  <2>1. req' = [req EXCEPT ![r] = Done]
    BY <1>1 DEF Answer
  <2> QED BY <1>0, <2>1, RestType
<1>2. CASE Begin(r) \/ LoadActor(r)
  <2>1. CASE Begin(r)
    BY <1>0, <2>1 DEF Begin, RequestType
  <2>2. CASE LoadActor(r)
    BY <1>0, <2>2 DEF LoadActor, RequestType
  <2> QED BY <1>2, <2>1, <2>2
<1>3. ASSUME FirstRun(r) \/ ChangePassword(r) \/ CreateToken(r) \/ DropSessions(r) \/ Guard(r)
      PROVE  Away
  <2>1. ASSUME NEW pc \in {"login", "register", "hash", "mint", "open", "remove", "demote"},
               req' = [req EXCEPT ![r].pc = pc]
        PROVE  Away
    BY <1>0, <2>1 DEF RequestType
  <2>2. \E pc \in {"login", "register", "hash", "mint", "open", "remove", "demote"} :
          req' = [req EXCEPT ![r].pc = pc]
    BY <1>3 DEF FirstRun, ChangePassword, CreateToken, DropSessions, Guard, Goto
  <2> QED BY <2>1, <2>2
<1>4. ASSUME NEW u \in Users,
             \/ ResetMemberPassword(r, u) \/ DeleteMember(r, u)
             \/ Login(r, u) \/ ResetPassword(r, u) \/ Register(r, u)
      PROVE  Away
  <2>1. CASE ResetMemberPassword(r, u)
    BY <1>0, <2>1 DEF ResetMemberPassword, RequestType
  <2>2. CASE DeleteMember(r, u)
    BY <1>0, <2>2 DEF DeleteMember, RequestType
  <2>3. CASE Login(r, u) \/ ResetPassword(r, u) \/ Register(r, u)
    <3>1. PICK pc \in {"open", "command"} : req' = [req EXCEPT ![r].pc = pc, ![r].actor = u]
      BY <2>3 DEF Login, ResetPassword, Register
    <3>2. req'[r].pc = pc
      BY <1>0, <3>1 DEF RequestType
    <3> QED BY <1>0, <3>1, <3>2
  <2> QED BY <1>4, <2>1, <2>2, <2>3
<1>5. ASSUME NEW u \in Users, NEW role \in Roles, ChangeRole(r, u, role) PROVE Away
  BY <1>0, <1>5 DEF ChangeRole, RequestType
<1>6. ASSUME NEW p \in Projects, RequireManage(r, p) PROVE Away
  BY <1>0, <1>6 DEF RequireManage, RequestType
<1>7. ASSUME NEW u \in Users, NEW role \in Roles, NEW level \in Levels,
             NEW p \in Projects \cup {None}, CreateMember(r, u, role, p, level)
      PROVE  Away
  BY <1>0, <1>7 DEF CreateMember, RequestType
<1>8. ASSUME NEW u \in Users, NEW level \in Levels, SetProjectAccess(r, u, level)
      PROVE  /\ \A q \in Requests : q # r => req'[q] = req[q]
             /\ req'[r].pc = "grant" /\ req'[r].target \in Users
             /\ Exists(req'[r].target) /\ UNCHANGED account
  BY <1>0, <1>8 DEF SetProjectAccess, RequestType
<1>9. CASE ClearMustChange(r)
  <2>1. req[r].pc = "flag" /\ req' = [req EXCEPT ![r].pc = "evict"]
    BY <1>9 DEF ClearMustChange, At, Goto
  <2> QED BY <1>0, <2>1 DEF RequestType
<1>10. ASSUME NEW pc, NEW n, req' = [req EXCEPT ![r].pc = pc, ![r].wrote = n]
       PROVE  /\ \A q \in Requests : q # r => req'[q] = req[q]
              /\ req'[r].pc = pc /\ req'[r].actor = req[r].actor /\ req'[r].wrote = n
  BY <1>0, <1>10 DEF RequestType
<1>11. CASE UpdatePasswordHash(r) \/ CommandHash(r)
  <2> DEFINE n == account[req[r].actor].pw + 1
  <2>1. CASE UpdatePasswordHash(r)
    <3>1. req' = [req EXCEPT ![r].pc = "flag", ![r].wrote = n]
      BY <2>1 DEF UpdatePasswordHash
    <3> HIDE DEF n
    <3> QED BY <1>10, <2>1, <3>1 DEF n
  <2>2. CASE CommandHash(r)
    <3>1. req' = [req EXCEPT ![r].pc = "command evict", ![r].wrote = n]
      BY <2>2 DEF CommandHash
    <3> HIDE DEF n
    <3> QED BY <1>10, <2>2, <3>1 DEF n
  <2> QED BY <1>11, <2>1, <2>2
<1>12. ASSUME \/ Fail(r) \/ InsertMember(r) \/ ResetTo(r) \/ UpdateRole(r) \/ DeleteAccount(r)
              \/ SetMembership(r) \/ (\E u \in Users : RemoveProjectAccess(r, u))
              \/ CreateSession(r) \/ CommandDropSessions(r) \/ StoreToken(r) \/ RevokeToken(r)
       PROVE  Answer(r)
  BY <1>12 DEF Fail, InsertMember, ResetTo, UpdateRole, DeleteAccount, SetMembership,
     RemoveProjectAccess, CreateSession, CommandDropSessions, StoreToken, RevokeToken
<1> QED BY StepKinds, <1>1, <1>2, <1>3, <1>4, <1>5, <1>6, <1>7, <1>8, <1>9, <1>11, <1>12
\* What a step does to the sessions, the tokens and what is remembered of them.
LEMMA Evictions ==
  ASSUME TypeOK, Wiring, NEW r \in Requests, Step(r)
  PROVE  /\ past.strays \subseteq past'.strays
         /\ \A s \in sessions' : s \in sessions \/ s.since = account'[s.user].pw
         /\ \A t \in tokens' : t \in tokens \/ t.since = account'[t.user].pw
         /\ \A u \in Users :
              \/ past'.evicted[u] = past.evicted[u]
              \/ (\A s \in sessions' : s.user # u) /\ past'.evicted[u] = account'[u].pw
              \/ /\ (\A s \in sessions' : s.user # u) /\ UNCHANGED account
                 /\ req[r].pc \in {"evict", "command evict"} /\ req[r].actor = u
                 /\ past'.evicted[u] = Later(past.evicted[u], req[r].wrote)
         /\ \A u \in Users :
              \/ past'.retired[u] = past.retired[u]
              \/ (\A t \in tokens' : t.user # u) /\ past'.retired[u] = account'[u].pw
<1> DEFINE PastType == [promoted: BOOLEAN, evicted: [Users -> Nat], retired: [Users -> Nat],
                        strays: SUBSET MemberType]
           Quiet == past'.strays = past.strays /\ past'.evicted = past.evicted
                    /\ past'.retired = past.retired
           NoneNew == sessions' \subseteq sessions /\ tokens' \subseteq tokens
<1>0. /\ req[r] \in RequestType /\ Ready(req[r]) /\ account \in [Users -> AccountType]
      /\ past \in PastType
  BY AtStatement DEF TypeOK
<1>1. CASE ResetTo(r) \/ DeleteAccount(r)
  <2> DEFINE v == req[r].target
             n == account[v].pw + 1
             e == [past.evicted EXCEPT ![v] = n]
             t == [past.retired EXCEPT ![v] = n]
  <2>1. v \in Users
    BY <1>0, <1>1 DEF ResetTo, DeleteAccount, At, Ready, TargetPCs
  <2>2. past' = [past EXCEPT !.evicted = e, !.retired = t]
    BY <1>0, <1>1 DEF ResetTo, DeleteAccount
  <2>3. past'.evicted = e /\ past'.retired = t /\ past'.strays = past.strays
    BY <1>0, <2>2
  <2>4. /\ \A u \in Users : e[u] = IF u = v THEN n ELSE past.evicted[u]
        /\ \A u \in Users : t[u] = IF u = v THEN n ELSE past.retired[u]
    BY <1>0
  <2>5. account'[v].pw = n
    <3>1. CASE ResetTo(r)
      <4>1. account' = [account EXCEPT ![v] = ResetRow(v)]
        BY <3>1 DEF ResetTo
      <4>2. ResetRow(v).pw = n
        BY <1>0, <2>1 DEF ResetRow, AccountType
      <4> QED BY <1>0, <2>1, <4>1, <4>2
    <3>2. CASE DeleteAccount(r)
      <4>1. account' = [account EXCEPT ![v] = [account[v] EXCEPT !.role = "gone", !.pw = n]]
        BY <3>2 DEF DeleteAccount
      <4>2. [account[v] EXCEPT !.role = "gone", !.pw = n].pw = n
        BY <1>0, <2>1 DEF AccountType
      <4> QED BY <1>0, <2>1, <4>1, <4>2
    <3> QED BY <1>1, <3>1, <3>2
  <2>6. sessions' = sessions \ SessionsOf(v) /\ tokens' = tokens \ TokensOf(v)
    BY <1>1 DEF ResetTo, DeleteAccount
  <2>7. (\A s \in sessions' : s.user # v) /\ (\A x \in tokens' : x.user # v)
    BY <2>6 DEF SessionsOf, TokensOf
  <2> HIDE DEF v, n, e, t
  <2> QED BY <2>3, <2>4, <2>5, <2>6, <2>7
<1>2. CASE DropSessions(r) \/ CommandDropSessions(r)
  <2> DEFINE v == req[r].actor
             n == Later(past.evicted[v], req[r].wrote)
             e == [past.evicted EXCEPT ![v] = n]
  <2>1. v \in Users /\ req[r].pc \in {"evict", "command evict"}
    BY <1>0, <1>2 DEF DropSessions, CommandDropSessions, At, Ready, ActorPCs
  <2>2. past' = [past EXCEPT !.evicted = e]
    BY <1>0, <1>2 DEF DropSessions, CommandDropSessions
  <2>3. past'.evicted = e /\ past'.retired = past.retired /\ past'.strays = past.strays
    BY <1>0, <2>2
  <2>4. \A u \in Users : e[u] = IF u = v THEN n ELSE past.evicted[u]
    BY <1>0
  <2>5. sessions' = sessions \ SessionsOf(v) /\ tokens' = tokens /\ UNCHANGED account
    BY <1>2 DEF DropSessions, CommandDropSessions
  <2>6. \A s \in sessions' : s.user # v
    BY <2>5 DEF SessionsOf
  <2> HIDE DEF v, n, e
  <2> QED BY <2>1, <2>3, <2>4, <2>5, <2>6 DEF v, n
<1>3. ASSUME Quiet, NoneNew
      PROVE  /\ past.strays \subseteq past'.strays
             /\ \A s \in sessions' : s \in sessions
             /\ \A t \in tokens' : t \in tokens
             /\ \A u \in Users : past'.evicted[u] = past.evicted[u]
             /\ \A u \in Users : past'.retired[u] = past.retired[u]
  BY <1>3
<1>4. CASE CreateSession(r)
  <2>1. /\ sessions' = sessions \cup {[user |-> req[r].actor, since |-> account[req[r].actor].pw]}
        /\ UNCHANGED <<account, tokens, past>>
    BY <1>4 DEF CreateSession
  <2> QED BY <2>1
<1>5. CASE StoreToken(r)
  <2>1. /\ tokens' = tokens \cup {[id |-> r, user |-> req[r].actor,
                                   since |-> account[req[r].actor].pw]}
        /\ UNCHANGED <<account, sessions, past>>
    BY <1>5 DEF StoreToken
  <2> QED BY <2>1
<1>6. CASE SetMembership(r)
  <2> DEFINE q == req[r]
             row == [user |-> q.target, project |-> q.project, level |-> q.level]
             x == IF Exists(q.target) THEN past.strays ELSE past.strays \cup {row}
  <2>1. past' = [past EXCEPT !.strays = x]
    BY <1>6, Zenon DEF SetMembership
  <2>2. past.strays \subseteq x
    OBVIOUS
  <2> HIDE DEF x
  <2>3. past'.strays = x /\ past'.evicted = past.evicted /\ past'.retired = past.retired
    BY <1>0, <2>1
  <2> QED BY <1>6, <2>2, <2>3 DEF SetMembership
<1>7. CASE UpdateRole(r)
  <2>1. past' = [past EXCEPT !.promoted = past.promoted \/ req[r].want = "super_admin"]
    BY <1>7, Zenon DEF UpdateRole
  <2>a. \A b : LET x == [past EXCEPT !.promoted = b]
               IN x.strays = past.strays /\ x.evicted = past.evicted /\ x.retired = past.retired
    BY <1>0
  <2>2. Quiet
    BY <2>1, <2>a
  <2> QED BY <1>3, <1>7, <2>2 DEF UpdateRole
<1>8. CASE RevokeToken(r)
  BY <1>8 DEF RevokeToken
<1>9. ASSUME \/ \/ Begin(r) \/ LoadActor(r) \/ FirstRun(r) \/ ChangePassword(r) \/ CreateToken(r)
                \/ \E v \in Users : \/ ResetMemberPassword(r, v) \/ DeleteMember(r, v)
                                    \/ Login(r, v) \/ ResetPassword(r, v)
                \/ \E v \in Users, role \in Roles : ChangeRole(r, v, role)
                \/ \E p \in Projects : RequireManage(r, p)
                \/ \E v \in Users, level \in Levels : SetProjectAccess(r, v, level)
                \/ \E v \in Users, role \in Roles, level \in Levels, p \in Projects \cup {None} :
                     CreateMember(r, v, role, p, level)
             \/ (\E v \in Users : Register(r, v))
             \/ UpdatePasswordHash(r) \/ ClearMustChange(r) \/ CommandHash(r) \/ Guard(r)
             \/ Fail(r) \/ InsertMember(r)
             \/ (\E v \in Users : RemoveProjectAccess(r, v))
      PROVE  UNCHANGED <<sessions, tokens, past>>
  BY <1>9 DEF Begin, LoadActor, FirstRun, ChangePassword, CreateToken, ResetMemberPassword,
     DeleteMember, Login, ResetPassword, ChangeRole, RequireManage, SetProjectAccess, CreateMember,
     Register, UpdatePasswordHash, ClearMustChange, CommandHash, Guard, Fail, InsertMember,
     RemoveProjectAccess
<1>10. CASE UNCHANGED <<sessions, tokens, past>>
  BY <1>10
<1> QED BY StepKinds, <1>1, <1>2, <1>4, <1>5, <1>6, <1>7, <1>8, <1>9, <1>10

\* A row once written stays, its password number only grows, and only
\* DeleteAccount ends an account.
LEMMA RowsGrow ==
  ASSUME TypeOK, Wiring, NEW r \in Requests, Step(r), NEW u \in Users,
         account[u].role = "absent" => account[u].pw = 0
  PROVE  /\ account[u].role # "absent" => account'[u].role # "absent"
         /\ account[u].pw \in Nat /\ account'[u].pw \in Nat
         /\ account[u].pw <= account'[u].pw
         /\ account'[u].role = "absent" => account'[u].pw = 0
         /\ Exists(u) => (Exists(u)' \/ (DeleteAccount(r) /\ u = req[r].target))
<1>0. account[u] \in AccountType /\ account[u].pw \in Nat /\ account[u].pw <= account[u].pw + 1
  BY DEF TypeOK, AccountType
<1>1. CASE account'[u] = account[u]
  BY <1>0, <1>1 DEF Exists
<1>2. CASE Created(u)
  BY <1>0, <1>2 DEF Created, Exists, Roles
<1>3. CASE Ranked(u) \/ Rekeyed(u)
  BY <1>0, <1>3 DEF Ranked, Rekeyed, Exists, Roles
<1>4. CASE Unflagged(r, u)
  BY <1>0, <1>4 DEF Unflagged, Exists
<1>5. CASE Removed(u) /\ DeleteAccount(r) /\ u = req[r].target
  BY <1>0, <1>5 DEF Removed, Roles
<1> QED BY <1>1, <1>2, <1>3, <1>4, <1>5, RowSteps
\* Evictions: none is remembered from beyond the account's present password, and
\* a request on its way to drop sessions wrote no later one.
Evicting ==
  /\ EvictionIsTotal
  /\ \A u \in Users :
       /\ account[u].role = "absent" => account[u].pw = 0
       /\ past.evicted[u] <= account[u].pw /\ past.retired[u] <= account[u].pw
  /\ \A r \in Requests : req[r].pc \in {"flag", "evict", "command evict"} =>
       req[r].wrote <= account[req[r].actor].pw

LEMMA EvictingStep ==
  ASSUME TypeOK, Wiring, Evicting, [Next]_vars
  PROVE  Evicting'
<1>1. ASSUME NEW r \in Requests, Step(r)
      PROVE  Evicting'
  <2>0. /\ req \in [Requests -> RequestType] /\ account \in [Users -> AccountType]
        /\ past.evicted \in [Users -> Nat] /\ past.retired \in [Users -> Nat]
        /\ TypeOK' /\ Wiring'
    BY <1>1, TypesStep DEF TypeOK, Next
  <2>1. ASSUME NEW u \in Users
        PROVE  /\ account[u].pw \in Nat /\ account'[u].pw \in Nat
               /\ account[u].pw <= account'[u].pw
               /\ account'[u].role = "absent" => account'[u].pw = 0
    BY <1>1, RowsGrow DEF Evicting
  <2>2. ASSUME NEW u \in Users
        PROVE  past'.evicted[u] <= account'[u].pw /\ past'.retired[u] <= account'[u].pw
    <3>1. /\ past.evicted[u] <= account[u].pw /\ past.retired[u] <= account[u].pw
          /\ past.evicted[u] \in Nat /\ past.retired[u] \in Nat
      BY <2>0 DEF Evicting
    <3>2. past'.evicted[u] <= account'[u].pw
      <4>1. CASE past'.evicted[u] = past.evicted[u]
        BY <2>1, <3>1, <4>1
      <4>2. CASE past'.evicted[u] = account'[u].pw
        BY <2>1, <4>2
      <4>3. CASE /\ UNCHANGED account
                 /\ req[r].pc \in {"evict", "command evict"} /\ req[r].actor = u
                 /\ past'.evicted[u] = Later(past.evicted[u], req[r].wrote)
        BY <3>1, <4>3 DEF Evicting, Later
      <4> QED BY <1>1, <4>1, <4>2, <4>3, Evictions
    <3>3. past'.retired[u] <= account'[u].pw
      <4>1. CASE past'.retired[u] = past.retired[u]
        BY <2>1, <3>1, <4>1
      <4>2. CASE past'.retired[u] = account'[u].pw
        BY <2>1, <4>2
      <4> QED BY <1>1, <4>1, <4>2, Evictions
    <3> QED BY <3>2, <3>3
  <2>3. ASSUME NEW s \in sessions'
        PROVE  s.since >= past'.evicted[s.user]
    <3>1. s.user \in Users /\ s.since \in Nat
      BY <2>0 DEF TypeOK, SessionType
    <3>2. CASE s.since = account'[s.user].pw
      <4>1. past'.evicted[s.user] <= account'[s.user].pw /\ past'.evicted[s.user] \in Nat
        BY <2>0, <2>2, <3>1 DEF TypeOK
      <4> QED BY <3>1, <3>2, <4>1
    <3>3. CASE s \in sessions
      <4>1. past'.evicted[s.user] = past.evicted[s.user]
        BY <1>1, <3>1, <3>3, Evictions
      <4> QED BY <3>3, <4>1 DEF Evicting, EvictionIsTotal
    <3> QED BY <1>1, <3>2, <3>3, Evictions
  <2>4. ASSUME NEW t \in tokens'
        PROVE  t.since >= past'.retired[t.user]
    <3>1. t.user \in Users /\ t.since \in Nat
      BY <2>0 DEF TypeOK, TokenType
    <3>2. CASE t.since = account'[t.user].pw
      <4>1. past'.retired[t.user] <= account'[t.user].pw /\ past'.retired[t.user] \in Nat
        BY <2>0, <2>2, <3>1 DEF TypeOK
      <4> QED BY <3>1, <3>2, <4>1
    <3>3. CASE t \in tokens
      <4>1. past'.retired[t.user] = past.retired[t.user]
        BY <1>1, <3>1, <3>3, Evictions
      <4> QED BY <3>3, <4>1 DEF Evicting, EvictionIsTotal
    <3> QED BY <1>1, <3>2, <3>3, Evictions
  <2>5. ASSUME NEW q \in Requests, req'[q].pc \in {"flag", "evict", "command evict"}
        PROVE  req'[q].wrote <= account'[req'[q].actor].pw
    <3>1. CASE /\ req'[q].actor = req[q].actor /\ req'[q].wrote = req[q].wrote
               /\ req[q].pc \in {"flag", "evict", "command evict"}
      <4> DEFINE u == req[q].actor
      <4>1. u \in Users /\ req[q].wrote \in Nat
        BY <2>0, <3>1 DEF Wiring, Ready, ActorPCs, RequestType
      <4>2. req[q].wrote <= account[u].pw /\ req'[q].actor = u
        BY <3>1 DEF Evicting
      <4> HIDE DEF u
      <4>3. account[u].pw \in Nat /\ account'[u].pw \in Nat /\ account[u].pw <= account'[u].pw
        BY <2>1, <4>1
      <4>4. req[q].wrote <= account'[u].pw
        BY <4>1, <4>2, <4>3
      <4>5. req'[q].wrote = req[q].wrote
        BY <3>1
      <4> QED BY <4>2, <4>4, <4>5
    <3>2. CASE /\ q = r /\ (UpdatePasswordHash(r) \/ CommandHash(r))
               /\ req'[r].actor = req[r].actor
               /\ req'[r].wrote = account[req[r].actor].pw + 1
      <4> DEFINE v == req[r].actor
                 y(f) == [account[v] EXCEPT !.pw = account[v].pw + 1, !.from = f]
      <4>a. v \in Users
        BY <3>2 DEF UpdatePasswordHash, CommandHash, At, Wiring, Ready, ActorPCs
      <4>b. \A f \in {"owner", "command"} : y(f).pw = account[v].pw + 1
        BY <2>0, <4>a DEF AccountType
      <4>c. \/ account' = [account EXCEPT ![v] = y("owner")]
            \/ account' = [account EXCEPT ![v] = y("command")]
        BY <3>2 DEF UpdatePasswordHash, CommandHash
      <4> HIDE DEF y
      <4>d. PICK x : account' = [account EXCEPT ![v] = x] /\ x.pw = account[v].pw + 1
        BY <4>b, <4>c
      <4>1. v \in Users /\ account' = [account EXCEPT ![v] = x]
        BY <4>a, <4>d
      <4>2. x.pw = account[v].pw + 1
        BY <4>d
      <4>3. req'[q].actor = v /\ req'[q].wrote = account[v].pw + 1
        BY <3>2
      <4> HIDE DEF v
      <4>4. account'[v].pw = account[v].pw + 1 /\ account'[v].pw \in Nat
        BY <2>0, <2>1, <4>1, <4>2
      <4> QED BY <4>3, <4>4
    <3> QED BY <1>1, <2>5, <3>1, <3>2, Arrivals
  <2> QED BY <2>1, <2>2, <2>3, <2>4, <2>5 DEF Evicting, EvictionIsTotal
<1>2. CASE \E s \in sessions : EndSession(s)
  BY <1>2 DEF EndSession, Evicting, EvictionIsTotal
<1>3. CASE UNCHANGED vars
  BY <1>3 DEF vars, Evicting, EvictionIsTotal
<1> QED BY <1>1, <1>2, <1>3 DEF Next

LEMMA FirstRows ==
  ASSUME Init
  PROVE  /\ \A u \in Users : account[u].pw = 0 /\ account[u].from = "owner"
         /\ \A r \in Requests : req[r].pc = "idle"
         /\ \A s \in sessions : s.since = 0 /\ s.user \in Users
<1>1. PICK roles \in [Users -> Roles \cup {"absent"}] :
        /\ account = [u \in Users |-> NewRow(roles[u])]
        /\ sessions = {[user |-> u, since |-> 0] : u \in {v \in Users : roles[v] # "absent"}}
  BY DEF Init
<1> QED BY <1>1, RestType DEF Init, NewRow

LEMMA EvictingInit == Init => Evicting
<1> SUFFICES ASSUME Init PROVE Evicting
  OBVIOUS
<1>1. tokens = {} /\ \A u \in Users : past.evicted[u] = 0 /\ past.retired[u] = 0
  BY DEF Init
<1>2. EvictionIsTotal
  BY <1>1, FirstRows DEF EvictionIsTotal
<1>3. \A r \in Requests : req[r].pc \notin {"flag", "evict", "command evict"}
  BY FirstRows
<1>4. ASSUME NEW u \in Users
      PROVE  /\ account[u].pw = 0
             /\ past.evicted[u] <= account[u].pw /\ past.retired[u] <= account[u].pw
  <2>1. account[u].pw = 0 /\ past.evicted[u] = 0 /\ past.retired[u] = 0 /\ 0 <= 0
    BY <1>1, FirstRows
  <2> QED BY <2>1
<1> QED BY <1>2, <1>3, <1>4 DEF Evicting

\* However the statements of password changes, resets, removals, logins and the
\* reset-password command interleave, and whichever of them fails, no session is
\* left from before a password whose arrival dropped the sessions, and no token
\* from before an operator's reset.
THEOREM EvictionSafe == Spec => []EvictionIsTotal
<1>1. Init => Evicting
  BY EvictingInit
<1>2. TypeOK /\ Wiring /\ Evicting /\ [Next]_vars => Evicting'
  BY EvictingStep
<1>3. Evicting => EvictionIsTotal
  BY DEF Evicting
<1> QED BY <1>1, <1>2, <1>3, AccountTypes, PTL DEF Spec

\* Somebody who is about to clear the flag of an account has stored a password of
\* its own; one handed out since then was handed out under way.
Flagging ==
  /\ TemporaryIsFlagged
  /\ \A r \in Requests : req[r].pc = "flag" =>
       /\ account[req[r].actor].role # "absent"
       /\ ~(account[req[r].actor].from = "dashboard" /\ account[req[r].actor].calm)

LEMMA FlaggingStep ==
  ASSUME TypeOK, Wiring, Flagging, [Next]_vars
  PROVE  Flagging'
<1>1. ASSUME NEW r \in Requests, Step(r)
      PROVE  Flagging'
  <2>0. /\ req \in [Requests -> RequestType] /\ account \in [Users -> AccountType]
    BY DEF TypeOK
  <2>1. ASSUME NEW u \in Users, Exists(u)', account'[u].from = "dashboard", account'[u].calm
        PROVE  account'[u].must
    <3>1. CASE account'[u] = account[u] \/ Ranked(u)
      BY <2>1, <3>1 DEF Flagging, TemporaryIsFlagged, Exists, Ranked
    <3>2. CASE Created(u) \/ Rekeyed(u)
      BY <2>1, <3>2 DEF Created, Rekeyed
    <3>3. CASE Unflagged(r, u)
      BY <2>1, <3>3 DEF Flagging, Unflagged
    <3>4. CASE Removed(u)
      BY <2>1, <3>4 DEF Removed, Exists, Roles
    <3> QED BY <1>1, <3>1, <3>2, <3>3, <3>4, RowSteps
  <2>2. ASSUME NEW q \in Requests, req'[q].pc = "flag"
        PROVE  /\ account'[req'[q].actor].role # "absent"
               /\ ~(account'[req'[q].actor].from = "dashboard" /\ account'[req'[q].actor].calm)
    <3>1. CASE req'[q] = req[q]
      <4> DEFINE u == req[q].actor
      <4>1. /\ u \in Users /\ account[u].role # "absent" /\ Changing(u)
            /\ ~(account[u].from = "dashboard" /\ account[u].calm) /\ req'[q].actor = u
        BY <2>2, <3>1 DEF Wiring, Ready, ActorPCs, Flagging, Changing, At
      <4> HIDE DEF u
      <4>2. account'[u].role # "absent" /\ ~(account'[u].from = "dashboard" /\ account'[u].calm)
        <5>1. CASE account'[u] = account[u] \/ Created(u)
          BY <4>1, <5>1 DEF Created
        <5>2. CASE Ranked(u)
          BY <4>1, <5>2 DEF Ranked, Roles
        <5>3. CASE Rekeyed(u)
          BY <4>1, <5>3 DEF Rekeyed
        <5>4. CASE Unflagged(r, u) \/ Removed(u)
          BY <4>1, <5>4 DEF Unflagged, Removed
        <5> QED BY <1>1, <4>1, <5>1, <5>2, <5>3, <5>4, RowSteps
      <4> QED BY <4>1, <4>2
    <3>2. CASE q = r /\ UpdatePasswordHash(r) /\ req'[r].actor = req[r].actor
      <4> DEFINE v == req[r].actor
                 x == [account[v] EXCEPT !.pw = account[v].pw + 1, !.from = "owner"]
      <4>1. v \in Users /\ account' = [account EXCEPT ![v] = x] /\ account[v].role \in Roles
        BY <2>0, <3>2 DEF UpdatePasswordHash, At, Wiring, Ready, ActorPCs, Exists
      <4>2. x.role = account[v].role /\ x.from = "owner"
        BY <2>0, <4>1 DEF AccountType
      <4> HIDE DEF x
      <4>3. account'[v].role \in Roles /\ account'[v].from = "owner"
        BY <2>0, <4>1, <4>2
      <4> QED BY <3>2, <4>3 DEF Roles
    <3> QED BY <1>1, <2>2, <3>1, <3>2, Arrivals
  <2> QED BY <2>1, <2>2 DEF Flagging, TemporaryIsFlagged
<1>2. CASE \E s \in sessions : EndSession(s)
  BY <1>2 DEF EndSession, Flagging, TemporaryIsFlagged, Exists
<1>3. CASE UNCHANGED vars
  BY <1>3 DEF vars, Flagging, TemporaryIsFlagged, Exists
<1> QED BY <1>1, <1>2, <1>3 DEF Next

\* An account on a temporary password the dashboard handed out has to change it
\* before it may do anything else, for any number of accounts and of changes, resets
\* and runs of the command that cross or fail, unless a change of its owner's stood
\* between its two statements at that moment.  Nothing is claimed of the password of
\* the reset-password command, which the code does not flag (CommandHash).
THEOREM TemporarySafe == Spec => []TemporaryIsFlagged
<1>1. Init => Flagging
  BY FirstRows DEF Flagging, TemporaryIsFlagged
<1>2. TypeOK /\ Wiring /\ Flagging /\ [Next]_vars => Flagging'
  BY FlaggingStep
<1>3. Flagging => TemporaryIsFlagged
  BY DEF Flagging
<1> QED BY <1>1, <1>2, <1>3, AccountTypes, PTL DEF Spec

\* Memberships: one per account and project, each of an account that there is or
\* that a late grant outlived, and never of an id that was never handed out.
Granting ==
  /\ AccessIsRevocable
  /\ \A m \in members : account[m.user].role # "absent"
  /\ \A r \in Requests : req[r].pc = "grant" => account[req[r].target].role # "absent"

\* What a step does to the memberships.
LEMMA MembershipSteps ==
  ASSUME TypeOK, Wiring, NEW r \in Requests, Step(r)
  PROVE  \/ members' \subseteq members
         \/ InsertMember(r) \/ SetMembership(r)
<1>1. UNCHANGED members \/ InsertMember(r) \/ SetMembership(r) \/ DeleteAccount(r)
      \/ (\E u \in Users : RemoveProjectAccess(r, u))
  BY StepKinds DEF Begin, LoadActor, FirstRun, ChangePassword, CreateToken,
     ResetMemberPassword, DeleteMember, Login, ResetPassword, ChangeRole, RequireManage,
     SetProjectAccess, CreateMember, Register, UpdatePasswordHash, ClearMustChange,
     DropSessions, CommandHash, Guard, Fail, ResetTo, UpdateRole, CreateSession,
     CommandDropSessions, StoreToken, RevokeToken
<1>2. DeleteAccount(r) \/ (\E u \in Users : RemoveProjectAccess(r, u))
        => members' \subseteq members
  BY DEF DeleteAccount, RemoveProjectAccess
<1> QED BY <1>1, <1>2

LEMMA GrantingStep ==
  ASSUME TypeOK, Wiring, Evicting, Granting, [Next]_vars
  PROVE  Granting'
<1>1. ASSUME NEW r \in Requests, Step(r)
      PROVE  Granting'
  <2>0. /\ req \in [Requests -> RequestType] /\ account \in [Users -> AccountType]
        /\ \A m \in members : m.user \in Users
    BY DEF TypeOK, MemberType
  <2>1. ASSUME NEW u \in Users
        PROVE  /\ account[u].role # "absent" => account'[u].role # "absent"
               /\ Exists(u) => (Exists(u)' \/ (DeleteAccount(r) /\ u = req[r].target))
    BY <1>1, RowsGrow DEF Evicting
  <2>2. past.strays \subseteq past'.strays
    BY <1>1, Evictions
  <2>3. ASSUME NEW q \in Requests, req'[q].pc = "grant"
        PROVE  account'[req'[q].target].role # "absent"
    <3>1. CASE req'[q] = req[q]
      <4>1. req[q].target \in Users /\ account[req[q].target].role # "absent"
        BY <2>3, <3>1 DEF Wiring, Ready, TargetPCs, Granting
      <4> QED BY <2>1, <3>1, <4>1
    <3>2. CASE q = r /\ Exists(req'[r].target) /\ UNCHANGED account
      BY <3>2 DEF Exists, Roles
    <3> QED BY <1>1, <2>3, <3>1, <3>2, Arrivals
  <2>4. ASSUME NEW m \in members, m \in members'
        PROVE  /\ account'[m.user].role # "absent"
               /\ Exists(m.user)' \/ m \in past'.strays
    <3>1. m.user \in Users /\ account[m.user].role # "absent"
          /\ (Exists(m.user) \/ m \in past.strays)
      BY <2>0 DEF Granting, AccessIsRevocable
    <3>2. ~(DeleteAccount(r) /\ m.user = req[r].target)
      BY <2>4 DEF DeleteAccount, MembershipsOf
    <3> QED BY <2>1, <2>2, <3>1, <3>2
  <2>5. CASE members' \subseteq members
    <3>1. \A m, n \in members' : m.user = n.user /\ m.project = n.project => m = n
      BY <2>5 DEF Granting, AccessIsRevocable
    <3> QED BY <2>3, <2>4, <2>5, <3>1 DEF Granting, AccessIsRevocable
  <2>6. CASE InsertMember(r)
    <3> DEFINE v == req[r].target
               x == [NewRow(req[r].want) EXCEPT !.must = TRUE, !.from = "dashboard"]
    <3>1. /\ v \in Users /\ account[v].role = "absent" /\ account' = [account EXCEPT ![v] = x]
          /\ req[r].want \in Roles /\ members' = members \cup Granted(req[r])
      BY <1>1, <2>0, <2>6 DEF InsertMember, At, Wiring, Ready, TargetPCs
    <3>2. x.role = req[r].want
      BY DEF NewRow
    <3>a. \A m \in Granted(req[r]) : m.user = v
      BY DEF Granted
    <3>b. \A m, n \in Granted(req[r]) : m = n
      BY DEF Granted
    <3> HIDE DEF x, v
    <3>3. account'[v].role \in Roles
      BY <2>0, <3>1, <3>2
    <3>4. \A m \in members : m.user # v
      BY <3>1 DEF Granting
    <3>5. \A m, n \in members' : m.user = n.user /\ m.project = n.project => m = n
      BY <3>1, <3>4, <3>a, <3>b DEF Granting, AccessIsRevocable
    <3>6. \A m \in members' : /\ account'[m.user].role # "absent"
                              /\ Exists(m.user)' \/ m \in past'.strays
      BY <2>4, <3>1, <3>3, <3>a DEF Exists, Roles
    <3> QED BY <2>3, <3>5, <3>6 DEF Granting, AccessIsRevocable
  <2>7. CASE SetMembership(r)
    <3> DEFINE q == req[r]
               v == q.target
               p == q.project
               row == [user |-> v, project |-> p, level |-> q.level]
               x == IF Exists(v) THEN past.strays ELSE past.strays \cup {row}
    <3>1. /\ members' = (members \ RowOf(v, p)) \cup {row}
          /\ q.pc = "grant" /\ UNCHANGED account
      BY <2>7 DEF SetMembership, At
    <3>2. past' = [past EXCEPT !.strays = x]
      BY <2>7, Zenon DEF SetMembership
    <3>3. row.user = v /\ row.project = p
      OBVIOUS
    <3>4. v \in Users /\ account[v].role # "absent"
      BY <1>1, <3>1 DEF Granting, Wiring, Ready, TargetPCs
    <3>5. Exists(v) \/ row \in x
      OBVIOUS
    <3> HIDE DEF row, x, v, p
    <3>6. past'.strays = x
      BY <3>2 DEF TypeOK
    <3>7. \A m, n \in members' : m.user = n.user /\ m.project = n.project => m = n
      BY <3>1, <3>3 DEF Granting, AccessIsRevocable, RowOf
    <3>8. \A m \in members' : /\ account'[m.user].role # "absent"
                              /\ Exists(m.user)' \/ m \in past'.strays
      BY <2>4, <3>1, <3>3, <3>4, <3>5, <3>6 DEF Exists
    <3> QED BY <2>3, <3>7, <3>8 DEF Granting, AccessIsRevocable
  <2> QED BY <1>1, <2>5, <2>6, <2>7, MembershipSteps
<1>2. CASE \E s \in sessions : EndSession(s)
  BY <1>2 DEF EndSession, Granting, AccessIsRevocable, Exists
<1>3. CASE UNCHANGED vars
  BY <1>3 DEF vars, Granting, AccessIsRevocable, Exists
<1> QED BY <1>1, <1>2, <1>3 DEF Next

\* An account never has two rows for one project, whoever grants, changes and
\* removes access at the same moment, so revoking it revokes access; and no row
\* outlives its account but one whose grant had read the account before it went.
THEOREM AccessSafe == Spec => []AccessIsRevocable
<1>1. Init => Evicting /\ Granting
  <2> SUFFICES ASSUME Init PROVE Evicting /\ Granting
    OBVIOUS
  <2>1. PICK roles \in [Users -> Roles \cup {"absent"}] :
          /\ account = [u \in Users |-> NewRow(roles[u])]
          /\ members \in SUBSET [user: {u \in Users : roles[u] \in {"admin", "member"}},
                                 project: Projects, level: {"maintainer"}]
    BY DEF Init
  <2>2. \A u \in Users : account[u].role = roles[u]
    BY <2>1 DEF NewRow
  <2>3. \A m \in members : account[m.user].role \in {"admin", "member"}
    BY <2>1, <2>2
  <2>4. \A m, n \in members : m.user = n.user /\ m.project = n.project => m = n
    BY <2>1
  <2> QED BY <2>3, <2>4, FirstRows, EvictingInit DEF Granting, AccessIsRevocable, Exists, Roles
<1>2. TypeOK /\ Wiring /\ Evicting /\ Granting /\ [Next]_vars => Evicting' /\ Granting'
  BY EvictingStep, GrantingStep
<1>3. Granting => AccessIsRevocable
  BY DEF Granting
<1> QED BY <1>1, <1>2, <1>3, AccountTypes, PTL DEF Spec
=============================================================================
