------------------------------ MODULE Accounts ------------------------------
(* Accounts, their roles, credentials and project access: MemberService,   *)
(* AuthService and TokenService over the tables users, user_sessions,      *)
(* personal_access_tokens and project_members.                             *)
(*                                                                         *)
(* A request is a sequence of database statements; another request may run *)
(* between any two of them, and a request works with the rows it has read. *)
(* A transaction is one step, except the one that counts super admins: it  *)
(* locks their rows, and writes in a later step.                           *)
EXTENDS Naturals, FiniteSets

CONSTANTS
  Users,            \* accounts, each with its own email and id
  Projects,
  Requests,
  None,
  MaxTokensPerUser, \* maxTokensPerUser
  Operations        \* what clients ask for, a subset of AllOperations

AllOperations ==
  {"create", "reset", "role", "delete", "access", "change", "token",
   "login", "command"}

ASSUME AccountsAssumption ==
  /\ IsFiniteSet(Users)
  /\ None \notin Users \cup Projects \cup Requests
  /\ MaxTokensPerUser \in Nat
  /\ Operations \subseteq AllOperations

VARIABLES
  account,  \* the users table
  sessions, \* the user_sessions table
  tokens,   \* the personal_access_tokens table, revoked ones left out
  members,  \* the project_members table
  req,      \* the requests
  lock,     \* who locked which users rows for the rest of its transaction
  past      \* what the properties remember: was anybody promoted to super admin,
            \* the passwords whose arrival dropped the sessions and the tokens
            \* from before it, the memberships written for accounts then gone

vars == <<account, sessions, tokens, members, req, lock, past>>

Roles == {"super_admin", "admin", "member"}
Levels == {"viewer", "maintainer"}

\* pw numbers the passwords an account has had; from says who made up the one it
\* has, its owner or, as a temporary one, an operator at the dashboard or the
\* reset-password command; calm that nobody was changing it at that moment.
AccountType ==
  [role: Roles \cup {"absent", "gone"}, pw: Nat, must: BOOLEAN,
   from: {"owner", "dashboard", "command"}, calm: BOOLEAN]

\* since: the password the account had when the row was written.
SessionType == [user: Users, since: Nat]
TokenType == [id: Requests, user: Users, since: Nat]
MemberType == [user: Users, project: Projects, level: Levels]

PCs == {"idle", "session", "handler", "create", "reset", "role", "guard", "demote",
        "delete", "remove", "manage", "grant", "hash", "flag", "evict",
        "open", "mint", "login", "register", "command", "command evict", "done"}

\* actor and row: who asks, as the middleware read it; target, want, project
\* and level: what is asked; wrote: the password this request stored.
RequestType ==
  [pc: PCs, actor: Users \cup {None}, row: AccountType,
   target: Users \cup {None}, want: Roles \cup {"none"},
   project: Projects \cup {None}, level: Levels \cup {"none"}, wrote: Nat]

TypeOK ==
  /\ account \in [Users -> AccountType]
  /\ sessions \subseteq SessionType
  /\ tokens \subseteq TokenType
  /\ members \subseteq MemberType
  /\ req \in [Requests -> RequestType]
  /\ lock \in [by: Requests \cup {None}, rows: SUBSET Users]
  /\ past \in [promoted: BOOLEAN, evicted: [Users -> Nat], retired: [Users -> Nat],
               strays: SUBSET MemberType]

NewRow(role) ==
  [role |-> role, pw |-> 0, must |-> FALSE, from |-> "owner", calm |-> TRUE]

Idle ==
  [pc |-> "idle", actor |-> None, row |-> NewRow("absent"), target |-> None,
   want |-> "none", project |-> None, level |-> "none", wrote |-> 0]

\* An installation that was never used, or one with a super admin, everybody
\* signed in, and some accounts maintaining projects.
Init ==
  /\ \E roles \in [Users -> Roles \cup {"absent"}] :
       /\ \/ \A u \in Users : roles[u] = "absent"
          \/ \E u \in Users : roles[u] = "super_admin"
       /\ account = [u \in Users |-> NewRow(roles[u])]
       /\ sessions = {[user |-> u, since |-> 0] :
                        u \in {v \in Users : roles[v] # "absent"}}
       /\ members \in SUBSET [user: {u \in Users : roles[u] \in {"admin", "member"}},
                              project: Projects, level: {"maintainer"}]
  /\ tokens = {}
  /\ req = [r \in Requests |-> Idle]
  /\ lock = [by |-> None, rows |-> {}]
  /\ past = [promoted |-> FALSE,
             evicted |-> [u \in Users |-> 0], retired |-> [u \in Users |-> 0],
             strays |-> {}]

----------------------------------------------------------------------------
(* Rows, ranks and access.                                                 *)

Exists(u) == account[u].role \in Roles
SuperAdmins == {u \in Users : account[u].role = "super_admin"}

Rank(role) == CASE role = "member" -> 1 [] role = "admin" -> 2 [] role = "super_admin" -> 3
Outranks(a, b) == Rank(a) > Rank(b)

\* CanManageAccount: never yourself, only roles strictly below your own.
CanManageAccount(a, u) ==
  /\ a.actor # u
  /\ Outranks(a.row.role, account[u].role)

\* ResolveAccess, CanManage: a super admin needs no row.
CanManage(a, p) ==
  \/ a.row.role = "super_admin"
  \/ [user |-> a.actor, project |-> p, level |-> "maintainer"] \in members

\* A row another transaction has locked cannot be written, nor referred to by
\* the foreign key of a new session or token.
Unlocked(r, u) == lock.by = r \/ u \notin lock.rows

At(r, pc) == req[r].pc = pc
Goto(r, pc) == req' = [req EXCEPT ![r].pc = pc]
\* The handler has answered; a transaction, if one is open, is over.
Done == [Idle EXCEPT !.pc = "done"]
Answer(r) ==
  /\ req' = [req EXCEPT ![r] = Done]
  /\ lock' = IF lock.by = r THEN [by |-> None, rows |-> {}] ELSE lock

----------------------------------------------------------------------------
(* RequireSession: the cookie's session, then its account.                 *)

Begin(r) ==
  /\ At(r, "idle")
  /\ \E s \in sessions :
       req' = [req EXCEPT ![r].pc = "session", ![r].actor = s.user]
  /\ UNCHANGED <<account, sessions, tokens, members, lock, past>>

LoadActor(r) ==
  /\ At(r, "session")
  /\ Exists(req[r].actor)
  /\ req' = [req EXCEPT ![r].pc = "handler", ![r].row = account[req[r].actor]]
  /\ UNCHANGED <<account, sessions, tokens, members, lock, past>>

\* A request that may go anywhere: its account is not on a temporary password.
Admitted(r, op) == At(r, "handler") /\ op \in Operations /\ ~req[r].row.must

\* The handler refuses what it is asked, or a statement fails: the database
\* refuses it, finds no row, or the client has gone and its context is
\* cancelled.  An open transaction is rolled back.
Fail(r) ==
  /\ req[r].pc \notin {"idle", "done"}
  /\ Answer(r)
  /\ UNCHANGED <<account, sessions, tokens, members, past>>

\* Logout, and a session whose thirty days are over.
EndSession(s) ==
  /\ sessions' = sessions \ {s}
  /\ UNCHANGED <<account, tokens, members, req, lock, past>>

----------------------------------------------------------------------------
(* MemberService: accounts and roles.                                      *)

\* GetByEmail finds nobody, and the project handed out is one the actor manages.
CreateMember(r, u, role, p, level) ==
  /\ Admitted(r, "create")
  /\ req[r].row.role \in {"super_admin", "admin"}
  /\ Outranks(req[r].row.role, role)
  /\ ~Exists(u)
  /\ p # None => CanManage(req[r], p)
  /\ req' = [req EXCEPT ![r].pc = "create", ![r].target = u, ![r].want = role,
                        ![r].project = p,
                        ![r].level = IF p = None THEN "none" ELSE level]
  /\ UNCHANGED <<account, sessions, tokens, members, lock, past>>

\* The project to hand out, if the form named one.
Granted(q) ==
  {[user |-> q.target, project |-> p, level |-> q.level] : p \in {q.project} \ {None}}

\* The transaction.  The unique index on email lets one of two creators through.
\* A new id each time: an account that is gone never comes back.
InsertMember(r) ==
  LET q == req[r] IN
  /\ At(r, "create")
  /\ account[q.target].role = "absent"
  /\ account' = [account EXCEPT ![q.target] =
       [NewRow(q.want) EXCEPT !.must = TRUE, !.from = "dashboard"]]
  /\ members' = members \cup Granted(q)
  /\ Answer(r)
  /\ UNCHANGED <<sessions, tokens, past>>

\* DeleteSessionsByUserID
SessionsOf(u) == {s \in sessions : s.user = u}

\* Slip: the personal access tokens stay.
NoTokensOf(u) == {}

\* TokenRepo.DeleteByUser
TokensOf(u) == {t \in tokens : t.user = u}

MembershipsOf(u) == {m \in members : m.user = u}

\* Somebody is between storing a password of u and clearing its flag.
Changing(u) == \E q \in Requests : At(q, "flag") /\ req[q].actor = u

ResetMemberPassword(r, u) ==
  /\ Admitted(r, "reset")
  /\ Exists(u)
  /\ CanManageAccount(req[r], u)
  /\ req' = [req EXCEPT ![r].pc = "reset", ![r].target = u]
  /\ UNCHANGED <<account, sessions, tokens, members, lock, past>>

\* Slip: must_change_password is left as it was.
ResetRowUnflagged(u) ==
  [account[u] EXCEPT !.pw = @ + 1, !.from = "dashboard", !.calm = ~Changing(u)]

ResetRow(u) ==
  [account[u] EXCEPT !.pw = @ + 1, !.must = TRUE, !.from = "dashboard",
                     !.calm = ~Changing(u)]

\* resetTo: the password, the flag, the sessions and the tokens together.
ResetTo(r) ==
  LET u == req[r].target IN
  /\ At(r, "reset")
  /\ Exists(u) /\ Unlocked(r, u)
  /\ account' = [account EXCEPT ![u] = ResetRow(u)]
  /\ sessions' = sessions \ SessionsOf(u)
  /\ tokens' = tokens \ TokensOf(u)
  /\ past' = [past EXCEPT !.evicted[u] = account[u].pw + 1,
                          !.retired[u] = account[u].pw + 1]
  /\ Answer(r)
  /\ UNCHANGED members

\* Slip: the demotion of a super admin is written without the guard.
ChangeRoleUnguarded(r, u, role) ==
  /\ Admitted(r, "role")
  /\ req[r].row.role = "super_admin"
  /\ Exists(u)
  /\ account[u].role # role
  /\ req' = [req EXCEPT ![r].pc = "role", ![r].target = u, ![r].want = role]
  /\ UNCHANGED <<account, sessions, tokens, members, lock, past>>

\* Only a super admin changes roles.  The role the target has now decides
\* whether the write is guarded.
ChangeRole(r, u, role) ==
  /\ Admitted(r, "role")
  /\ req[r].row.role = "super_admin"
  /\ Exists(u)
  /\ account[u].role # role
  /\ req' = [req EXCEPT ![r].pc = IF account[u].role = "super_admin" THEN "guard" ELSE "role",
                        ![r].target = u, ![r].want = role]
  /\ UNCHANGED <<account, sessions, tokens, members, lock, past>>

\* UpdateRole, unguarded from "role" and under the lock from "demote".
UpdateRole(r) ==
  LET u == req[r].target IN
  /\ req[r].pc \in {"role", "demote"}
  /\ Exists(u) /\ Unlocked(r, u)
  /\ account' = [account EXCEPT ![u].role = req[r].want]
  /\ past' = [past EXCEPT !.promoted = @ \/ req[r].want = "super_admin"]
  /\ Answer(r)
  /\ UNCHANGED <<sessions, tokens, members>>

\* Super admins remove each other; everybody else only below themselves.
DeleteMember(r, u) ==
  /\ Admitted(r, "delete")
  /\ Exists(u)
  /\ IF account[u].role = "super_admin" THEN req[r].row.role = "super_admin"
                                        ELSE CanManageAccount(req[r], u)
  /\ req' = [req EXCEPT ![r].pc = IF account[u].role = "super_admin" THEN "guard" ELSE "delete",
                        ![r].target = u]
  /\ UNCHANGED <<account, sessions, tokens, members, lock, past>>

\* Memberships, sessions, tokens and the row, unguarded from "delete" and under
\* the lock from "remove".
DeleteAccount(r) ==
  LET u == req[r].target IN
  /\ req[r].pc \in {"delete", "remove"}
  /\ Exists(u) /\ Unlocked(r, u)
  /\ account' = [account EXCEPT ![u] = [@ EXCEPT !.role = "gone", !.pw = account[u].pw + 1]]
  /\ members' = members \ MembershipsOf(u)
  /\ sessions' = sessions \ SessionsOf(u)
  /\ tokens' = tokens \ TokensOf(u)
  /\ past' = [past EXCEPT !.evicted[u] = account[u].pw + 1,
                          !.retired[u] = account[u].pw + 1]
  /\ Answer(r)

\* Slip: the super admins are counted without FOR UPDATE.
GuardWithoutLock(r) ==
  /\ At(r, "guard")
  /\ Cardinality(SuperAdmins) > 1
  /\ lock' = [by |-> r, rows |-> {}]
  /\ Goto(r, IF req[r].want = "none" THEN "remove" ELSE "demote")
  /\ UNCHANGED <<account, sessions, tokens, members, past>>

\* guardLastSuperAdmin: lock every super admin's row and count them.  A second
\* guard waits for the first, whose rows it needs, and counts after it.
Guard(r) ==
  /\ At(r, "guard")
  /\ lock.rows \cap SuperAdmins = {}
  /\ Cardinality(SuperAdmins) > 1
  /\ lock' = [by |-> r, rows |-> SuperAdmins]
  /\ Goto(r, IF req[r].want = "none" THEN "remove" ELSE "demote")
  /\ UNCHANGED <<account, sessions, tokens, members, past>>

----------------------------------------------------------------------------
(* MemberService: project access.                                          *)

\* requireManage
RequireManage(r, p) ==
  /\ Admitted(r, "access")
  /\ CanManage(req[r], p)
  /\ req' = [req EXCEPT ![r].pc = "manage", ![r].project = p]
  /\ UNCHANGED <<account, sessions, tokens, members, lock, past>>

\* SetProjectAccess reads the target, which is no super admin.
SetProjectAccess(r, u, level) ==
  /\ At(r, "manage")
  /\ Exists(u) /\ account[u].role # "super_admin"
  /\ req' = [req EXCEPT ![r].pc = "grant", ![r].target = u, ![r].level = level]
  /\ UNCHANGED <<account, sessions, tokens, members, lock, past>>

\* Slip: a row is added beside the one that is there.
NoRowOf(u, p) == {}

RowOf(u, p) == {m \in members : m.user = u /\ m.project = p}

\* SetMembership inserts the row or updates its level, and has no foreign key.
SetMembership(r) ==
  LET q == req[r]
      row == [user |-> q.target, project |-> q.project, level |-> q.level] IN
  /\ At(r, "grant")
  /\ members' = (members \ RowOf(q.target, q.project)) \cup {row}
  /\ past' = [past EXCEPT !.strays = IF Exists(q.target) THEN @ ELSE @ \cup {row}]
  /\ Answer(r)
  /\ UNCHANGED <<account, sessions, tokens>>

\* RemoveProjectAccess, never of the actor's own row.
RemoveProjectAccess(r, u) ==
  /\ At(r, "manage")
  /\ u # req[r].actor
  /\ members' = members \ RowOf(u, req[r].project)
  /\ Answer(r)
  /\ UNCHANGED <<account, sessions, tokens, past>>

----------------------------------------------------------------------------
(* AuthService: passwords and sessions.                                    *)

\* IsFirstRun decides between register and login.
FirstRun(r) ==
  /\ At(r, "idle")
  /\ "login" \in Operations
  /\ Goto(r, IF \E u \in Users : Exists(u) THEN "login" ELSE "register")
  /\ UNCHANGED <<account, sessions, tokens, members, lock, past>>

Register(r, u) ==
  /\ At(r, "register")
  /\ account[u].role = "absent"
  /\ account' = [account EXCEPT ![u] = NewRow("super_admin")]
  /\ req' = [req EXCEPT ![r].pc = "open", ![r].actor = u]
  /\ UNCHANGED <<sessions, tokens, members, lock, past>>

\* GetByEmail, and the password given is the one read.
Login(r, u) ==
  /\ At(r, "login")
  /\ Exists(u)
  /\ req' = [req EXCEPT ![r].pc = "open", ![r].actor = u]
  /\ UNCHANGED <<account, sessions, tokens, members, lock, past>>

\* createSession.  The foreign key refuses a session without an account.
CreateSession(r) ==
  LET u == req[r].actor IN
  /\ At(r, "open")
  /\ Exists(u) /\ Unlocked(r, u)
  /\ sessions' = sessions \cup {[user |-> u, since |-> account[u].pw]}
  /\ Answer(r)
  /\ UNCHANGED <<account, tokens, members, past>>

\* ChangePassword, the password given being the one the middleware read.  The
\* one screen an account on a temporary password may reach.
ChangePassword(r) ==
  /\ At(r, "handler") /\ "change" \in Operations
  /\ Goto(r, "hash")
  /\ UNCHANGED <<account, sessions, tokens, members, lock, past>>

\* UpdatePasswordHash
UpdatePasswordHash(r) ==
  LET u == req[r].actor IN
  /\ At(r, "hash")
  /\ Exists(u) /\ Unlocked(r, u)
  /\ account' =
       [account EXCEPT ![u] = [@ EXCEPT !.pw = account[u].pw + 1, !.from = "owner"]]
  /\ req' = [req EXCEPT ![r].pc = "flag", ![r].wrote = account[u].pw + 1]
  /\ UNCHANGED <<sessions, tokens, members, lock, past>>

\* SetMustChangePassword does not ask whether a row was there.
ClearMustChange(r) ==
  LET u == req[r].actor IN
  /\ At(r, "flag")
  /\ Unlocked(r, u)
  /\ account' = [account EXCEPT ![u].must = FALSE]
  /\ Goto(r, "evict")
  /\ UNCHANGED <<sessions, tokens, members, lock, past>>

Later(a, b) == IF a > b THEN a ELSE b

\* DeleteSessionsByUserID, then a session of the caller's own.
DropSessions(r) ==
  LET u == req[r].actor IN
  /\ At(r, "evict")
  /\ sessions' = sessions \ SessionsOf(u)
  /\ past' = [past EXCEPT !.evicted[u] = Later(@, req[r].wrote)]
  /\ Goto(r, "open")
  /\ UNCHANGED <<account, tokens, members, lock>>

\* The reset-password command, run beside the server: GetByEmail ...
ResetPassword(r, u) ==
  /\ At(r, "idle") /\ "command" \in Operations
  /\ Exists(u)
  /\ req' = [req EXCEPT ![r].pc = "command", ![r].actor = u]
  /\ UNCHANGED <<account, sessions, tokens, members, lock, past>>

\* ... a temporary password; must_change_password stays as it is ...
CommandHash(r) ==
  LET u == req[r].actor IN
  /\ At(r, "command")
  /\ Exists(u) /\ Unlocked(r, u)
  /\ account' =
       [account EXCEPT ![u] = [@ EXCEPT !.pw = account[u].pw + 1, !.from = "command"]]
  /\ req' = [req EXCEPT ![r].pc = "command evict", ![r].wrote = account[u].pw + 1]
  /\ UNCHANGED <<sessions, tokens, members, lock, past>>

\* ... and its sessions go.
CommandDropSessions(r) ==
  LET u == req[r].actor IN
  /\ At(r, "command evict")
  /\ sessions' = sessions \ SessionsOf(u)
  /\ past' = [past EXCEPT !.evicted[u] = Later(@, req[r].wrote)]
  /\ Answer(r)
  /\ UNCHANGED <<account, tokens, members>>

----------------------------------------------------------------------------
(* TokenService.                                                           *)

\* Create counts, under the limit ...
CreateToken(r) ==
  /\ Admitted(r, "token")
  /\ Cardinality(TokensOf(req[r].actor)) < MaxTokensPerUser
  /\ Goto(r, "mint")
  /\ UNCHANGED <<account, sessions, tokens, members, lock, past>>

\* ... then stores; the foreign key refuses a token without an account.
StoreToken(r) ==
  LET u == req[r].actor IN
  /\ At(r, "mint")
  /\ Exists(u) /\ Unlocked(r, u)
  /\ tokens' = tokens \cup {[id |-> r, user |-> u, since |-> account[u].pw]}
  /\ Answer(r)
  /\ UNCHANGED <<account, sessions, members, past>>

\* Revoke, of the actor's own tokens only.
RevokeToken(r) ==
  /\ Admitted(r, "token")
  /\ \E t \in TokensOf(req[r].actor) : tokens' = tokens \ {t}
  /\ Answer(r)
  /\ UNCHANGED <<account, sessions, members, past>>

----------------------------------------------------------------------------
MemberSteps(r) ==
  \/ \E u \in Users, role \in Roles, level \in Levels, p \in Projects \cup {None} :
       CreateMember(r, u, role, p, level)
  \/ InsertMember(r)
  \/ \E u \in Users : ResetMemberPassword(r, u)
  \/ ResetTo(r)
  \/ \E u \in Users, role \in Roles : ChangeRole(r, u, role)
  \/ UpdateRole(r)
  \/ \E u \in Users : DeleteMember(r, u)
  \/ DeleteAccount(r)
  \/ Guard(r)

AccessSteps(r) ==
  \/ \E p \in Projects : RequireManage(r, p)
  \/ \E u \in Users, level \in Levels : SetProjectAccess(r, u, level)
  \/ SetMembership(r)
  \/ \E u \in Users : RemoveProjectAccess(r, u)

AuthSteps(r) ==
  \/ FirstRun(r)
  \/ \E u \in Users : Register(r, u) \/ Login(r, u) \/ ResetPassword(r, u)
  \/ CreateSession(r)
  \/ ChangePassword(r) \/ UpdatePasswordHash(r) \/ ClearMustChange(r) \/ DropSessions(r)
  \/ CommandHash(r) \/ CommandDropSessions(r)

TokenSteps(r) == CreateToken(r) \/ StoreToken(r) \/ RevokeToken(r)

Step(r) ==
  Begin(r) \/ LoadActor(r) \/ Fail(r)
    \/ MemberSteps(r) \/ AccessSteps(r) \/ AuthSteps(r) \/ TokenSteps(r)

Next ==
  \/ \E r \in Requests : Step(r)
  \/ \E s \in sessions : EndSession(s)

Spec == Init /\ [][Next]_vars

----------------------------------------------------------------------------
(* Properties.                                                             *)

\* Once a guard has counted, at least two super admins are there until it has
\* written: two of them who remove or demote each other at the same moment, in
\* any order with every other request, cannot both go through.
CountHoldsUntilWrite == lock.by # None => Cardinality(SuperAdmins) > 1

\* An instance that has been set up keeps a super admin, whoever removes, demotes
\* or loses a race with whom, as long as nobody has been promoted to one: then no
\* unguarded write meets a super admin.
SuperAdminRemains ==
  \/ past.promoted
  \/ \A u \in Users : account[u].role = "absent"
  \/ SuperAdmins # {}

\* Once a password change, a reset or a removal has dropped an account's
\* sessions, none is left from before the new password, however its statements
\* interleave with logins and other changes and whichever statement failed; and
\* an operator's reset leaves no token from before it either.
EvictionIsTotal ==
  /\ \A s \in sessions : s.since >= past.evicted[s.user]
  /\ \A t \in tokens : t.since >= past.retired[t.user]

\* An account on a temporary password the dashboard handed out, with a new account
\* or by a reset, has to change it, whichever changes, resets and commands cross or
\* fail (CreateMember, resetTo, ChangePassword).  The code does not keep this for two
\* others, which are excepted: a reset that met a change of the owner's between its
\* two statements loses the flag to the second (calm), against user.go:83; and the
\* temporary password of the reset-password command is stored without the flag,
\* against CHANGELOG.md:81 (CommandHash).
TemporaryIsFlagged ==
  \A u \in Users :
    Exists(u) /\ account[u].from = "dashboard" /\ account[u].calm => account[u].must

\* An account has one row per project, so revoking it revokes access; and a row
\* outlives its account only if it was written by a grant that had read the
\* account before it was removed.
AccessIsRevocable ==
  /\ \A m, n \in members : m.user = n.user /\ m.project = n.project => m = n
  /\ \A m \in members : Exists(m.user) \/ m \in past.strays

=============================================================================
