------------------------------ MODULE Projects ------------------------------
(***************************************************************************)
(* Projects, their credentials, their stars and who is on them:            *)
(* ProjectService and ProjectRepo, the access panel of MemberService, the  *)
(* check of a device's credentials and the gates in front of them.         *)
(*                                                                         *)
(* A request is a goroutine and a statement of it is a step.  Statements   *)
(* see what is committed; what a transaction writes appears when it        *)
(* commits, and what it is deleting is locked until then.                  *)
(***************************************************************************)
EXTENDS Naturals, FiniteSets, Functions, FiniteSetsExt

CONSTANTS
  Users, Projects, Names,
  Keys,      \* GenerateRandomString: no key is drawn twice
  Requests,  \* each made once
  RoleOf,    \* the roles of the accounts, which do not change here
  None

Roles == {"super_admin", "admin", "member"}
Levels == {"viewer", "maintainer"}

ASSUME ProjectsAssumption ==
  /\ RoleOf \in [Users -> Roles]
  /\ IsFiniteSet(Projects) /\ IsFiniteSet(Requests) /\ IsFiniteSet(Names) /\ IsFiniteSet(Keys)
  /\ Cardinality(Names) >= Cardinality(Projects)
  /\ Cardinality(Keys) >= Cardinality(Projects) + Cardinality(Requests)
  /\ None \notin Users \cup Projects \cup Names \cup Keys \cup Requests \cup Levels

VARIABLES
  project,  \* the projects table: is the id free, live or soft-deleted; its name
  secret,   \* project_secrets, the rows per project, with their primary keys
  member,   \* project_members, per project
  star,     \* project_favorites
  lock,     \* per project: the request that holds its row
  req,
  past      \* what the properties remember: the key last committed per project,
            \* were rows written across or after a deletion

vars == <<project, secret, member, star, lock, req, past>>

Kinds == {"create", "rename", "rotate", "delete", "star", "grant", "revoke", "device"}

\* doomed: the rows a transaction has deleted and not committed yet.  stale: the
\* key a device came with was not in force then.
RequestType ==
  [pc: {"idle", "name", "insert", "lock", "write", "drop", "secrets", "stars",
        "members", "remove", "project", "star", "toggle", "manage", "target",
        "key", "admitted", "done"},
   op: Kinds, user: Users \cup {None}, project: Projects \cup {None},
   name: Names \cup {None}, target: Users \cup {None},
   level: Levels \cup {None}, key: Keys \cup {None},
   favorite: BOOLEAN, stale: BOOLEAN,
   doomed: [keys: SUBSET Keys, stars: SUBSET Users, members: SUBSET Users]]

TypeOK ==
  /\ project \in [Projects -> [state: {"free", "live", "deleted"}, name: Names \cup {None}]]
  /\ secret \in [Projects -> SUBSET [id: Nat, key: Keys]]
  /\ member \in [Projects -> [Users -> Levels \cup {None}]]
  /\ star \in [Projects -> SUBSET Users]
  /\ lock \in [Projects -> Requests \cup {None}]
  /\ req \in [Requests -> RequestType]
  /\ past \in [key: [Projects -> Keys \cup {None}], across: BOOLEAN]

Nothing == [keys |-> {}, stars |-> {}, members |-> {}]

Blank ==
  [pc |-> "idle", op |-> "create", user |-> None, project |-> None, name |-> None,
   target |-> None, level |-> None, key |-> None, favorite |-> FALSE,
   stale |-> FALSE, doomed |-> Nothing]

\* What the projects that exist at first are called, and their keys.
FirstName == CHOOSE f \in [Projects -> Names] : IsInjective(f)
FirstKey == CHOOSE f \in [Projects -> Keys] : IsInjective(f)

\* Projects not made yet, living with one key, a maintainer who may create
\* projects and whoever else is on them, or deleted with nothing left.
Init ==
  /\ \E state \in [Projects -> {"free", "live", "deleted"}] :
       /\ project = [p \in Projects |-> [state |-> state[p],
            name |-> IF state[p] = "free" THEN None ELSE FirstName[p]]]
       /\ secret = [p \in Projects |->
            IF state[p] = "live" THEN {[id |-> 1, key |-> FirstKey[p]]} ELSE {}]
       /\ member \in {f \in [Projects -> [Users -> Levels \cup {None}]] :
            \A p \in Projects :
              IF state[p] = "live"
              THEN \E u \in Users : RoleOf[u] # "member" /\ f[p][u] = "maintainer"
              ELSE f[p] = [u \in Users |-> None]}
  /\ star = [p \in Projects |-> {}]
  /\ lock = [p \in Projects |-> None]
  /\ req = [r \in Requests |-> Blank]
  /\ past = [key |-> [p \in Projects |-> 
               IF project[p].state = "free" THEN None ELSE FirstKey[p]],
             across |-> FALSE]

----------------------------------------------------------------------------
(* Rights.                                                                 *)

CanCreateProjects(u) == RoleOf[u] \in {"super_admin", "admin"}
IsSuperAdmin(u) == RoleOf[u] = "super_admin"

\* ResolveProjectAccess
CanRead(u, p) == IsSuperAdmin(u) \/ member[p][u] # None
CanManage(u, p) == IsSuperAdmin(u) \/ member[p][u] = "maintainer"
CanDelete(u, p) ==
  IsSuperAdmin(u) \/ (member[p][u] = "maintainer" /\ RoleOf[u] = "admin")

----------------------------------------------------------------------------
(* What is committed, and what is locked.                                  *)

Live(p) == project[p].state = "live"
At(r, pc) == req[r].pc = pc
Goes(r, pc) == req' = [req EXCEPT ![r].pc = pc]
Mine(r) == req[r].project

KeysOf(p) == {row.key : row \in secret[p]}

\* A key in use, or drawn by a rotation under way.
Drawn == (UNION {KeysOf(p) : p \in Projects})
           \cup {past.key[p] : p \in Projects} \cup {req[r].key : r \in Requests}

\* Keys are alike until they are compared.
FreshKey == CHOOSE k \in Keys : k \notin Drawn

Acquire(r) == lock' = [lock EXCEPT ![Mine(r)] = r]
Release(r) == lock' = [p \in Projects |-> IF lock[p] = r THEN None ELSE lock[p]]

\* Rows another transaction is deleting: a write to them waits for its commit.
StarHeld(u, p) == \E q \in Requests : Mine(q) = p /\ u \in req[q].doomed.stars
MemberHeld(u, p) == \E q \in Requests : Mine(q) = p /\ u \in req[q].doomed.members

\* The request is answered and nothing of it is left.
Ends(r) == req' = [req EXCEPT ![r] = [Blank EXCEPT !.pc = "done"]]

----------------------------------------------------------------------------
(* Requests come in, past the gate of their route.                         *)

Begin(r, fresh) == At(r, "idle") /\ req' = [req EXCEPT ![r] = fresh]

\* Bound of the model: an id is left for every creation under way.
IdLeft ==
  Cardinality({p \in Projects : project[p].state = "free"})
    > Cardinality({q \in Requests : req[q].op = "create" /\ req[q].pc \in {"name", "insert"}})

AskCreate(r, u, n) ==
  /\ CanCreateProjects(u) /\ IdLeft
  /\ Begin(r, [Blank EXCEPT !.pc = "name", !.op = "create", !.user = u, !.name = n])
  /\ UNCHANGED <<project, secret, member, star, lock, past>>

AskRename(r, u, p, n) ==
  /\ CanManage(u, p)
  /\ Begin(r, [Blank EXCEPT !.pc = "lock", !.op = "rename", !.user = u, !.project = p, !.name = n])
  /\ UNCHANGED <<project, secret, member, star, lock, past>>

\* The new key is drawn before the transaction.
AskRotate(r, u, p) ==
  /\ CanManage(u, p)
  /\ Begin(r, [Blank EXCEPT !.pc = "lock", !.op = "rotate", !.user = u, !.project = p, !.key = FreshKey])
  /\ UNCHANGED <<project, secret, member, star, lock, past>>

AskDelete(r, u, p) ==
  /\ CanDelete(u, p)
  /\ Begin(r, [Blank EXCEPT !.pc = "lock", !.op = "delete", !.user = u, !.project = p])
  /\ UNCHANGED <<project, secret, member, star, lock, past>>

AskStar(r, u, p) ==
  /\ CanRead(u, p)
  /\ Begin(r, [Blank EXCEPT !.pc = "project", !.op = "star", !.user = u, !.project = p])
  /\ UNCHANGED <<project, secret, member, star, lock, past>>

AskAccess(r, u, p, v, l) ==
  /\ CanManage(u, p)
  /\ Begin(r, [Blank EXCEPT !.pc = "manage", !.op = IF l = None THEN "revoke" ELSE "grant",
                            !.user = u, !.project = p, !.target = v, !.level = l])
  /\ UNCHANGED <<project, secret, member, star, lock, past>>

\* A device presents a key that was in force once.
AskDevice(r, p, k) ==
  /\ \E q \in Projects : k = past.key[q] \/ k \in KeysOf(q)
  /\ Begin(r, [Blank EXCEPT !.pc = "project", !.op = "device", !.project = p, !.key = k,
                            !.stale = ~Live(p) \/ past.key[p] # k])
  /\ UNCHANGED <<project, secret, member, star, lock, past>>

----------------------------------------------------------------------------
(* Names.                                                                  *)

\* GetByName finds no other live project of the name.
NameFree(p, n) == \A q \in Projects \ {p} : Live(q) => project[q].name # n

\* validateProjectName, outside the transaction for a new project and inside it
\* for a rename; a name in use rolls the rename back.
ValidateProjectName(r) ==
  /\ At(r, "name")
  /\ IF NameFree(Mine(r), req[r].name)
     THEN /\ Goes(r, IF req[r].op = "create" THEN "insert" ELSE "write")
          /\ UNCHANGED lock
     ELSE /\ Ends(r)
          /\ Release(r)
  /\ UNCHANGED <<project, secret, member, star, past>>

\* A new id is nobody's; which one does not matter.
Free(p) == project[p].state = "free"
NewId == CHOOSE p \in Projects : Free(p)

\* CreateProject's transaction: the project, its key, its creator and the people
\* ticked in the wizard, none of whom is a super admin, in one commit.
CreateProject(r) ==
  /\ At(r, "insert") /\ req[r].op = "create" /\ \E p \in Projects : Free(p)
  /\ \E ticked \in SUBSET (Users \ {req[r].user}) :
       LET p == NewId
           k == FreshKey IN
       /\ \A v \in ticked : ~IsSuperAdmin(v)
       /\ project' = [project EXCEPT ![p] = [state |-> "live", name |-> req[r].name]]
       /\ secret' = [secret EXCEPT ![p] = {[id |-> 1, key |-> k]}]
       /\ \E l \in Levels :
            member' = [member EXCEPT ![p] = [v \in Users |->
              IF v = req[r].user THEN "maintainer" ELSE IF v \in ticked THEN l ELSE None]]
       /\ past' = [past EXCEPT !.key[p] = k]
  /\ Ends(r)
  /\ UNCHANGED <<star, lock>>

----------------------------------------------------------------------------
(* Transactions on one project.                                            *)

FirstStatement(r) ==
  CASE req[r].op = "rename" -> "name"
    [] req[r].op = "rotate" -> "drop"
    [] req[r].op = "delete" -> "secrets"

\* Slip: the row is read and not locked.
ReadProject(r) ==
  /\ At(r, "lock")
  /\ IF Live(Mine(r)) THEN Goes(r, FirstStatement(r)) ELSE Ends(r)
  /\ UNCHANGED <<project, secret, member, star, lock, past>>

\* SELECT ... FOR UPDATE waits for the holder, and finds no deleted project.
LockProject(r) ==
  /\ At(r, "lock")
  /\ lock[Mine(r)] = None
  /\ IF Live(Mine(r))
     THEN Goes(r, FirstStatement(r)) /\ Acquire(r)
     ELSE Ends(r) /\ UNCHANGED lock
  /\ UNCHANGED <<project, secret, member, star, past>>

UpdateProject(r) ==
  /\ At(r, "write")
  /\ project' = [project EXCEPT ![Mine(r)].name = req[r].name]
  /\ Ends(r)
  /\ Release(r)
  /\ UNCHANGED <<secret, member, star, past>>

\* ReplaceSecret deletes every key it sees ...
DropSecrets(r) ==
  /\ At(r, "drop")
  /\ req' = [req EXCEPT ![r].pc = "insert", ![r].doomed.keys = KeysOf(Mine(r))]
  /\ UNCHANGED <<project, secret, member, star, lock, past>>

Kept(r) == {row \in secret[Mine(r)] : row.key \notin req[r].doomed.keys}

\* The primary key is a UUIDv7, ordered by the time of the insert: here, the place of
\* the row among those of its project.
NextId(rows) == 1 + Max({row.id : row \in rows} \cup {0})

\* ... and inserts the new one; the commit of RotateSecret.
ReplaceSecret(r) ==
  /\ At(r, "insert") /\ req[r].op = "rotate"
  /\ secret' = [secret EXCEPT ![Mine(r)] =
       Kept(r) \cup {[id |-> NextId(Kept(r)), key |-> req[r].key]}]
  /\ past' = [past EXCEPT !.key[Mine(r)] = req[r].key]
  /\ Ends(r)
  /\ Release(r)
  /\ UNCHANGED <<project, member, star>>

DeleteSecretsByProject(r) ==
  /\ At(r, "secrets")
  /\ req' = [req EXCEPT ![r].pc = "stars", ![r].doomed.keys = KeysOf(Mine(r))]
  /\ UNCHANGED <<project, secret, member, star, lock, past>>

DeleteFavoritesByProject(r) ==
  /\ At(r, "stars")
  /\ req' = [req EXCEPT ![r].pc = "members", ![r].doomed.stars = star[Mine(r)]]
  /\ UNCHANGED <<project, secret, member, star, lock, past>>

MembersOf(p) == {u \in Users : member[p][u] # None}

\* Slip: the memberships are left to the deletion of the project.
KeepsMembers(r) ==
  /\ At(r, "members")
  /\ Goes(r, "remove")
  /\ UNCHANGED <<project, secret, member, star, lock, past>>

RemoveAllForProject(r) ==
  /\ At(r, "members")
  /\ req' = [req EXCEPT ![r].pc = "remove", ![r].doomed.members = MembersOf(Mine(r))]
  /\ UNCHANGED <<project, secret, member, star, lock, past>>

\* A deletion has looked for stars, and maybe for members, and has not committed.
Deleting(p) == \E q \in Requests : Mine(q) = p /\ req[q].pc \in {"members", "remove"}

\* A request that has passed its last check of the project and will write a row
\* of it.
Underway(p) ==
  \E q \in Requests : Mine(q) = p /\ req[q].pc \in {"star", "toggle", "manage", "target"}

\* The soft delete and the commit of DeleteProject.  Logs and launches stay.
RemoveProject(r) ==
  LET p == Mine(r) IN
  /\ At(r, "remove")
  /\ project' = [project EXCEPT ![p].state = "deleted"]
  /\ secret' = [secret EXCEPT ![p] = Kept(r)]
  /\ star' = [star EXCEPT ![p] = @ \ req[r].doomed.stars]
  /\ member' = [member EXCEPT ![p] =
       [u \in Users |-> IF u \in req[r].doomed.members THEN None ELSE member[p][u]]]
  /\ past' = [past EXCEPT !.across = @ \/ Underway(p)]
  /\ Ends(r)
  /\ Release(r)

----------------------------------------------------------------------------
(* Single statements.                                                      *)

\* GetByID, for a star and for a device.
GetProject(r) ==
  /\ At(r, "project")
  /\ IF Live(Mine(r))
     THEN Goes(r, IF req[r].op = "star" THEN "star" ELSE "key")
     ELSE Ends(r)
  /\ UNCHANGED <<project, secret, member, star, lock, past>>

IsFavorite(r) ==
  /\ At(r, "star")
  /\ req' = [req EXCEPT ![r].pc = "toggle", ![r].favorite = req[r].user \in star[Mine(r)]]
  /\ UNCHANGED <<project, secret, member, star, lock, past>>

\* Adding what is there and removing what is not are no errors.
SetFavorite(r) ==
  /\ At(r, "toggle")
  /\ ~StarHeld(req[r].user, Mine(r))
  /\ star' = [star EXCEPT ![Mine(r)] =
       IF req[r].favorite THEN @ \ {req[r].user} ELSE @ \cup {req[r].user}]
  /\ past' = [past EXCEPT !.across = @ \/ Deleting(Mine(r))]
  /\ Ends(r)
  /\ UNCHANGED <<project, secret, member, lock>>

\* requireManage looks again; nobody takes their own access away.
RequireManage(r) ==
  /\ At(r, "manage")
  /\ IF /\ CanManage(req[r].user, Mine(r))
        /\ req[r].op = "revoke" => req[r].user # req[r].target
     THEN Goes(r, "target")
     ELSE Ends(r)
  /\ UNCHANGED <<project, secret, member, star, lock, past>>

\* SetMembership, for an account that is no super admin, or RemoveMembership.
SetAccess(r) ==
  LET p == Mine(r) v == req[r].target IN
  /\ At(r, "target")
  /\ ~MemberHeld(v, p)
  /\ member' = IF req[r].op = "grant" /\ IsSuperAdmin(v) THEN member
               ELSE [member EXCEPT ![p][v] = req[r].level]
  /\ past' = [past EXCEPT !.across = @ \/ Deleting(p) \/ (~Live(p) /\ IsSuperAdmin(req[r].user))]
  /\ Ends(r)
  /\ UNCHANGED <<project, secret, star, lock>>

\* Slip: no row is taken for a match.
MatchesUnlessOther(p, k) == secret[p] = {} \/ \E row \in secret[p] : row.key = k

\* GetSecret orders by primary key: the oldest row counts.
Matches(p, k) ==
  \E row \in secret[p] : row.key = k /\ \A other \in secret[p] : row.id <= other.id

ValidateProjectCredentials(r) ==
  /\ At(r, "key")
  /\ IF Matches(Mine(r), req[r].key) THEN req' = [req EXCEPT ![r] = [Blank EXCEPT !.pc = "admitted", !.stale = req[r].stale]]
     ELSE Ends(r)
  /\ UNCHANGED <<project, secret, member, star, lock, past>>

\* Slip: the transaction is left open.
FailsOpen(r) ==
  /\ ~(At(r, "idle") \/ At(r, "admitted") \/ At(r, "done"))
  /\ Ends(r)
  /\ UNCHANGED <<project, secret, member, star, lock, past>>

\* A statement fails: the request ends and its transaction is rolled back.
Fails(r) ==
  /\ ~(At(r, "idle") \/ At(r, "admitted") \/ At(r, "done"))
  /\ Ends(r)
  /\ Release(r)
  /\ UNCHANGED <<project, secret, member, star, past>>

----------------------------------------------------------------------------
\* Nobody knows the id of a project that is not made yet.
Made == {p \in Projects : ~Free(p)}

Ask(r) ==
  \/ \E u \in Users, n \in Names : AskCreate(r, u, n)
  \/ \E u \in Users, p \in Made, n \in Names : AskRename(r, u, p, n)
  \/ \E u \in Users, p \in Made : AskRotate(r, u, p) \/ AskDelete(r, u, p) \/ AskStar(r, u, p)
  \/ \E u, v \in Users, p \in Made, l \in Levels \cup {None} : AskAccess(r, u, p, v, l)
  \/ \E p \in Made, k \in Keys : AskDevice(r, p, k)

Serve(r) ==
  \/ ValidateProjectName(r) \/ CreateProject(r)
  \/ LockProject(r) \/ UpdateProject(r) \/ DropSecrets(r) \/ ReplaceSecret(r)
  \/ DeleteSecretsByProject(r) \/ DeleteFavoritesByProject(r)
  \/ RemoveAllForProject(r) \/ RemoveProject(r)
  \/ GetProject(r) \/ IsFavorite(r) \/ SetFavorite(r)
  \/ RequireManage(r) \/ SetAccess(r) \/ ValidateProjectCredentials(r)

Next == \E r \in Requests : Ask(r) \/ Serve(r) \/ Fails(r)

Spec == Init /\ [][Next]_vars

\* A request goroutine keeps running, and the database gives a row that is free
\* to one of those that wait for it.
FairSpec == Spec /\ \A r \in Requests : WF_vars(Serve(r))

----------------------------------------------------------------------------
(* Properties.                                                             *)

\* A living project has one key, the one its creation or its latest rotation
\* handed out, however rotations, deletions and failures cross; a deleted one
\* has none.  With two rows the older would go on being the one that counts.
KeyInForce ==
  \A p \in Projects :
    IF Live(p) THEN Cardinality(secret[p]) = 1 /\ KeysOf(p) = {past.key[p]}
               ELSE secret[p] = {}

\* A key that was not in force when a device came with it does not get it in,
\* although the project and the key are read by two statements.
DeadKeysRefused == \A r \in Requests : At(r, "admitted") => ~req[r].stale

\* One key opens a project, and no other does.
OneKeyOpens == TypeOK /\ KeyInForce /\ DeadKeysRefused

\* Deletion takes everything that points at the project with it, so that nobody
\* keeps access to what is left of it; unless somebody was just being added or a
\* star just being set, or a super admin, whose right needs no row and whose gate
\* does not ask for the project, put somebody on it afterwards.
DeletedGrantsNothing ==
  past.across \/
    \A p \in Projects : project[p].state = "deleted" => MembersOf(p) = {} /\ star[p] = {}

\* Nobody waits for ever: every transaction lets go of its project, whether it
\* commits, is refused or fails.
RequestsAreAnswered ==
  \A r \in Requests : ~At(r, "idle") ~> At(r, "done") \/ At(r, "admitted")
=============================================================================
