------------------------------ MODULE Screens ------------------------------
(***************************************************************************)
(* The dashboard's screens and the gates behind them: what each page,      *)
(* fragment, sheet and dialog offers, which of it the routes and services  *)
(* accept, and what the answer redraws.                                    *)
(*                                                                         *)
(* One reader has a browser open.  Other people change accounts, roles and *)
(* memberships behind that page, so it may offer what is no longer         *)
(* allowed.  A template is the set of controls it draws.  htmx drops the   *)
(* body of a refusal and leaves the page as it is.                         *)
(***************************************************************************)
EXTENDS Naturals, FiniteSets

CONSTANTS
  Users, Me,  \* the accounts, and the one whose browser this is
  MaxKey,     \* keys the project may get: the first and its rotations
  MaxChanges, \* changes other people make
  Nil

Roles == {"super_admin", "admin", "member"}
Levels == {"viewer", "maintainer"}

ASSUME ScreensAssumption ==
  /\ IsFiniteSet(Users) /\ Me \in Users
  /\ MaxKey \in Nat \ {0} /\ MaxChanges \in Nat
  /\ Nil \notin Users \cup Roles \cup Levels

VARIABLES
  role,     \* users.role; "free": no such account yet, "removed": no longer
  level,    \* project_members of the one project
  project,  \* "none", "live" or "deleted"
  key,      \* which of its keys the project is at
  session,  \* is the reader's cookie good
  must,     \* the reader's must_change_password
  page,     \* what the reader's browser shows
  last,     \* the last step: was it the reader's write, what it drew, was it the
            \* reader's own access that it changed
  changes   \* how often others have changed something

data == <<role, level, project, key, session, must>>
screensVars == <<role, level, project, key, session, must, page, last, changes>>

----------------------------------------------------------------------------
(* Controls: a link, button or form together with what it would send.      *)

\* Pages the browser navigates to; the rest is sent by htmx.
Links == {"home", "account", "instance", "members", "overview", "screen", "live",
          "settings", "login", "logout", "change_password"}

Public == {"login", "logout"}
TabOps == {"tab_general", "tab_sdk", "tab_access", "tab_danger"}

ReadRoutes == {"overview", "screen", "live", "pair", "star", "settings"} \cup TabOps
ManageRoutes ==
  {"save", "reveal", "hide", "rotate", "ask_rotate", "ask_delete", "grant", "remove"}
DeleteRoutes == {"delete"}
InstanceRoutes == {"save_instance", "update_check"}
\* These load the project first and answer 404 when it is gone.
LoadsProject ==
  {"overview", "live", "pair", "star", "settings", "ask_rotate", "ask_delete"} \cup TabOps
CreateRoutes == {"wizard_access", "create", "new_member"}

Ops ==
  Links \cup ReadRoutes \cup ManageRoutes \cup DeleteRoutes \cup InstanceRoutes
    \cup CreateRoutes
    \cup {"filter", "search", "new_project", "wizard_back", "close", "account_tokens",
          "account_password", "create_token", "revoke_token", "instance_general",
          "instance_members", "add", "reset", "role", "delete_member"}

Control ==
  [op: Ops, who: Users \cup {Nil}, role: Roles \cup {Nil}, level: Levels \cup {Nil}]

Do(op) == [op |-> op, who |-> Nil, role |-> Nil, level |-> Nil]
DoTo(op, u) == [Do(op) EXCEPT !.who = u]
Plain(ops) == {Do(op) : op \in ops}
Grants(op, u) == {[DoTo(op, u) EXCEPT !.level = l] : l \in Levels}
MakeRole(u, r) == [DoTo("role", u) EXCEPT !.role = r]
NewAccount(r, l) == [Do("add") EXCEPT !.role = r, !.level = l]

----------------------------------------------------------------------------
(* Rights.                                                                 *)

Accounts == {u \in Users : role[u] \in Roles}
SuperAdmins == {u \in Users : role[u] = "super_admin"}
Rank(r) == CASE r = "super_admin" -> 3 [] r = "admin" -> 2 [] r = "member" -> 1 [] OTHER -> 0
Outranks(r, s) == Rank(r) > Rank(s)

CanCreateProjects(u) == role[u] \in {"super_admin", "admin"}

CanRead(u) == role[u] = "super_admin" \/ (u \in Accounts /\ level[u] # Nil)

CanManage(u) == role[u] = "super_admin" \/ (u \in Accounts /\ level[u] = "maintainer")

\* Slip: a maintainer may delete, whatever the role.
MaintainersDelete(u) == CanManage(u)

CanDelete(u) ==
  role[u] = "super_admin" \/ (role[u] = "admin" /\ level[u] = "maintainer")

CanManageAccount(u, v) == u # v /\ v \in Accounts /\ Outranks(role[u], role[v])

\* Who the new project's access step offers.
ListCandidatesForNewProject(u) == {v \in Accounts : role[v] # "super_admin" /\ v # u}

\* Who a project's access panel offers to add.
ListAssignableAccounts == {v \in Accounts : role[v] # "super_admin" /\ level[v] = Nil}

----------------------------------------------------------------------------
(* Gates.                                                                  *)

\* Slip: only whole pages are turned away on a temporary password.
AdmitsFragments(c) ==
  c.op \in Public \/ (session /\ (must => c.op \notin Links \ {"change_password"}))

\* RequireSession, and the one page it leaves open on a temporary password.
Admitted(c) == c.op \in Public \/ (session /\ (must => c.op = "change_password"))

RequireProjectAccess(u, c) ==
  c.op \in ReadRoutes \cup ManageRoutes \cup DeleteRoutes => CanRead(u)

RequireProjectManage(u, c) == c.op \in ManageRoutes => CanManage(u)
RequireProjectDelete(u, c) == c.op \in DeleteRoutes => CanDelete(u)

RequireSuperAdmin(u, c) == c.op \in InstanceRoutes => role[u] = "super_admin"

\* The handler is reached and does not answer with an error status.
Routed(u, c) ==
  /\ RequireProjectAccess(u, c)
  /\ RequireProjectManage(u, c)
  /\ RequireProjectDelete(u, c)
  /\ RequireSuperAdmin(u, c)
  /\ c.op \in LoadsProject => project = "live"
  /\ c.op \in CreateRoutes => CanCreateProjects(u)

SetProjectAccess(u, c) ==
  c.op = "grant" => c.who \in Accounts /\ role[c.who] # "super_admin"

RemoveProjectAccess(u, c) == c.op = "remove" => c.who # u

CreateMember(u, c) ==
  c.op = "add" =>
    /\ CanCreateProjects(u)
    /\ Outranks(role[u], c.role)
    /\ c.level # Nil => CanManage(u)

ResetMemberPassword(u, c) == c.op = "reset" => CanManageAccount(u, c.who)

ChangeRole(u, c) ==
  c.op = "role" =>
    /\ role[u] = "super_admin"
    /\ c.who \in Accounts
    /\ role[c.who] = "super_admin" /\ c.role # "super_admin" => Cardinality(SuperAdmins) > 1

DeleteMember(u, c) ==
  c.op = "delete_member" =>
    /\ c.who \in Accounts
    /\ IF role[c.who] = "super_admin"
         THEN role[u] = "super_admin" /\ Cardinality(SuperAdmins) > 1
         ELSE CanManageAccount(u, c.who)

\* Rename, rotation and deletion find no row of a project that is gone.
LocksProject(c) == c.op \in {"save", "rotate", "delete"} => project = "live"

\* The service behind the handler does what it is asked.
Serves(u, c) ==
  /\ SetProjectAccess(u, c)
  /\ RemoveProjectAccess(u, c)
  /\ CreateMember(u, c)
  /\ ResetMemberPassword(u, c)
  /\ ChangeRole(u, c)
  /\ DeleteMember(u, c)
  /\ LocksProject(c)

May(u, c) == u \in Accounts /\ Routed(u, c) /\ Serves(u, c)

----------------------------------------------------------------------------
(* Templates: the controls each one draws for the reader.                  *)

AccountMenuItems == Plain({"account", "instance", "logout"})
AccountMenu == AccountMenuItems
TopNav == Plain({"home"}) \cup AccountMenu
SidebarAccountMenu == AccountMenuItems
ProjectNavItem(op) == Do(op)
ProjectSidebar ==
  Plain({"home"}) \cup {ProjectNavItem(op) : op \in {"overview", "screen", "live", "settings"}}
    \cup SidebarAccountMenu

AddProjectButton == Plain({"new_project"})
FilterTab == Plain({"filter"})
ProjectsToolbar == FilterTab \cup Plain({"search"}) \cup AddProjectButton
FavoriteStar == Plain({"star"})
ProjectCard == Plain({"overview"}) \cup FavoriteStar

\* ListProjects scoped to the reader.
Visible == project = "live" /\ CanRead(Me)

EmptyProjects == AddProjectButton
ProjectGrid == IF Visible THEN ProjectCard ELSE EmptyProjects

WizardDetails ==
  Plain({"close", IF ListCandidatesForNewProject(Me) # {} THEN "wizard_access" ELSE "create"})

CandidateRow(u) == Grants("create", u)

\* At most one box is ticked.
WizardAccess ==
  Plain({"close", "wizard_back", "create"})
    \cup UNION {CandidateRow(u) : u \in ListCandidatesForNewProject(Me)}

WizardConnect == Plain({"close"})

\* Slip: the danger tab comes with maintaining the project.
TabsOfAManager ==
  {"tab_general", "tab_access"} \cup (IF CanManage(Me) THEN {"tab_sdk", "tab_danger"} ELSE {})

SettingsTabs ==
  {"tab_general", "tab_access"}
    \cup (IF CanManage(Me) THEN {"tab_sdk"} ELSE {})
    \cup (IF CanDelete(Me) THEN {"tab_danger"} ELSE {})

\* A tab the reader does not have falls back to the first.
ActiveTab(t) == IF t \in SettingsTabs THEN t ELSE "tab_general"

GeneralForm == Plain({"save"})
CredentialsSection == Plain({"ask_rotate"})
SecretField(revealed) == Plain({IF revealed THEN "hide" ELSE "reveal"})
DangerZone == Plain({"ask_delete"})
PaneAccess == IF CanCreateProjects(Me) THEN Plain({"members"}) ELSE {}

LevelSelect(u) == Grants("grant", u)
RemoveForm(u) == IF u # Me THEN {DoTo("remove", u)} ELSE {}
AccessRow(u) == LevelSelect(u) \cup RemoveForm(u)
AddAccessForm == UNION {Grants("grant", u) : u \in ListAssignableAccounts}

AccessRows == UNION {AccessRow(u) : u \in {v \in Accounts : level[v] # Nil}}

\* manage: what the middleware resolved before the handler ran.
AccessPanel(manage) == IF manage THEN AccessRows \cup AddAccessForm ELSE {}

ConfirmModal(op) == Plain({op, "close"})

InstanceTabs ==
  IF role[Me] = "super_admin" THEN {"instance_general", "instance_members"}
                              ELSE {"instance_members"}

ActiveInstanceTab(t) ==
  IF t \in InstanceTabs THEN t
  ELSE IF role[Me] = "super_admin" THEN "instance_general" ELSE "instance_members"

DisplayForm == Plain({"save_instance"})
RetentionForm == Plain({"save_instance"})
LimitsForm == Plain({"save_instance"})
AboutCard == Plain({"update_check"})
InstanceForms == DisplayForm \cup RetentionForm \cup LimitsForm \cup AboutCard

CanRemove(u) ==
  /\ CanManageAccount(Me, u) \/ ({Me, u} \subseteq SuperAdmins /\ u # Me)
  /\ ~(u \in SuperAdmins /\ Cardinality(SuperAdmins) <= 1)

CanChangeRole(u) == role[Me] = "super_admin" /\ u # Me

RoleSelect(u) ==
  IF CanChangeRole(u) THEN {MakeRole(u, r) : r \in Roles} ELSE {}

RowButtons(u) ==
  (IF CanManageAccount(Me, u) THEN {DoTo("reset", u)} ELSE {})
    \cup (IF CanRemove(u) THEN {DoTo("delete_member", u)} ELSE {})

MemberTableRow(u) == RoleSelect(u) \cup RowButtons(u)
\* The cells say whether, on which projects, or to which accounts.
MatrixRow(superAdmin, admin, member) ==
  [super_admin |-> superAdmin, admin |-> admin, member |-> member]

RolesMatrix ==
  [visible |-> MatrixRow("yes", "on", "on"),
   create |-> MatrixRow("yes", "yes", "no"),
   delete |-> MatrixRow("yes", "maintained", "no"),
   settings |-> MatrixRow("yes", "maintained", "maintained"),
   access |-> MatrixRow("yes", "maintained", "maintained"),
   accounts |-> MatrixRow("yes", "members", "no"),
   reset |-> MatrixRow("admins and members", "members", "no"),
   roles |-> MatrixRow("yes", "no", "no"),
   instance |-> MatrixRow("yes", "no", "no")]

\* What a cell promises account u, towards accounts of role r where it matters.
Cell(value, u, r) ==
  CASE value = "yes" -> TRUE
    [] value = "on" -> level[u] # Nil
    [] value = "maintained" -> level[u] = "maintainer"
    [] value = "members" -> r = "member"
    [] value = "admins and members" -> r \in {"admin", "member"}
    [] OTHER -> FALSE

MembersTable == UNION {MemberTableRow(u) : u \in Accounts}

\* Slip: only super admins get the button.
MembersPaneOfSuperAdmins == IF role[Me] = "super_admin" THEN Plain({"new_member"}) ELSE {}

MembersPane == IF CanCreateProjects(Me) THEN Plain({"new_member"}) ELSE {}

NewMemberRoles == {"member"} \cup (IF role[Me] = "super_admin" THEN {"admin"} ELSE {})

\* The projects the form lists are the ones the reader sees.
NewMemberAccess == {Nil} \cup (IF Visible THEN Levels ELSE {})

AddMemberForm ==
  Plain({"close"}) \cup
    {NewAccount(r, l) : r \in NewMemberRoles, l \in NewMemberAccess}

MemberCreated == Plain({"close"})

TokenCreateForm == Plain({"create_token"})
TokenRows(some) == IF some THEN Plain({"revoke_token"}) ELSE {}
TokensPane(some) == TokenCreateForm \cup TokenRows(some)
PasswordPane == Plain({"change_password"})
AccountTabs == Plain({"account_tokens", "account_password"})

----------------------------------------------------------------------------
(* Pages.                                                                  *)

Regions == {"frame", "pane", "sheet", "dialog"}

\* shown and snippet: the key in the secret field and in the setup snippet,
\* 0 when masked.  rotated: the key was rotated from this page.
PageType ==
  [url: {"login", "change_password", "error", "home", "settings", "instance", "account",
         "screen", "live"},
   frame: SUBSET Control, pane: SUBSET Control, sheet: SUBSET Control,
   dialog: SUBSET Control, shown: 0..MaxKey, snippet: 0..MaxKey, rotated: BOOLEAN]

Page(url, frame, pane) ==
  [url |-> url, frame |-> frame, pane |-> pane, sheet |-> {}, dialog |-> {},
   shown |-> 0, snippet |-> 0, rotated |-> FALSE]

Login == Page("login", Plain({"login"}), {})

ChangePassword ==
  Page("change_password",
       Plain({"change_password", IF must THEN "logout" ELSE "home"}), {})

\* A bare error text: 403, 404.
ErrorPage == Page("error", {}, {})

Dashboard ==
  Page("home", TopNav \cup (IF Visible THEN ProjectsToolbar ELSE {}), ProjectGrid)

\* What a tab's body shows; a tab asked for by htmx is the same as in the page.
Pane(t) ==
  CASE t = "tab_sdk" -> SecretField(FALSE)
    [] t = "tab_access" -> AccessPanel(CanManage(Me))
    [] t = "tab_danger" -> {}
    [] OTHER -> GeneralForm

SettingsBody(t) ==
  Plain(SettingsTabs) \cup
    CASE t = "tab_sdk" -> CredentialsSection
      [] t = "tab_access" -> PaneAccess
      [] t = "tab_danger" -> DangerZone
      [] OTHER -> {}

SettingsPage(t) == Page("settings", ProjectSidebar \cup SettingsBody(t), Pane(t))

InstanceSettingsBody(t) ==
  Plain(InstanceTabs) \cup IF t = "instance_members" THEN MembersPane ELSE {}

InstanceSettingsPage(t) ==
  Page("instance", TopNav \cup InstanceSettingsBody(t),
       IF t = "instance_members" THEN MembersTable ELSE InstanceForms)

\* some: the reader has tokens.
AccountPage(t, some) ==
  Page("account", TopNav \cup AccountTabs,
       IF t = "account_password" THEN PasswordPane ELSE TokensPane(some))

\* The overview and the reading screens; the latter open without loading the
\* project.
ProjectScreen == Page("screen", ProjectSidebar, {})
LiveDevicesPage == Page("live", ProjectSidebar \cup Plain({"pair"}), {})

\* A sheet covers the page and a dialog covers everything.
Offered ==
  IF page.dialog # {} THEN page.dialog
  ELSE IF page.sheet # {} THEN page.sheet
  ELSE page.frame \cup page.pane

----------------------------------------------------------------------------
(* What an accepted request writes.                                        *)

\* Slip: the wizard's boxes are taken at their word.
TickedAsSent(u, c) == IF c.who = Nil THEN {} ELSE {c.who}

\* Only accounts the step would offer now are let on.
ParseMembers(u, c) == {c.who} \cap ListCandidatesForNewProject(u)

\* The creator maintains the project.  The model follows one project: another
\* one leaves it as it is.
CreateProject(u, c) ==
  /\ c.op = "create"
  /\ IF project = "none"
       THEN /\ project' = "live"
            /\ key' = 1
            /\ level' = [w \in Users |->
                 IF w = u THEN "maintainer"
                 ELSE IF w \in ParseMembers(u, c) THEN c.level ELSE Nil]
       ELSE UNCHANGED <<project, key, level>>
  /\ UNCHANGED <<role, session, must>>

RotateSecret(u, c) ==
  /\ c.op = "rotate" /\ key < MaxKey
  /\ key' = key + 1
  /\ UNCHANGED <<role, level, project, session, must>>

DeleteProject(u, c) ==
  /\ c.op = "delete"
  /\ project' = "deleted"
  /\ level' = [w \in Users |-> Nil]
  /\ UNCHANGED <<role, key, session, must>>

SetMembership(u, c) ==
  /\ c.op \in {"grant", "remove"}
  /\ level' = [level EXCEPT ![c.who] = c.level]
  /\ UNCHANGED <<role, project, key, session, must>>

\* Slip: with no project ticked the new account gets them all.
AddAccountToAll(u, c) ==
  /\ c.op = "add"
  /\ \E new \in {w \in Users : role[w] = "free"} :
       /\ role' = [role EXCEPT ![new] = c.role]
       /\ level' = [level EXCEPT ![new] = IF c.level = Nil THEN "viewer" ELSE c.level]
  /\ UNCHANGED <<project, key, session, must>>

AddAccount(u, c) ==
  /\ c.op = "add"
  /\ \E new \in {w \in Users : role[w] = "free"} :
       /\ role' = [role EXCEPT ![new] = c.role]
       /\ level' = [level EXCEPT ![new] = c.level]
  /\ UNCHANGED <<project, key, session, must>>

\* Signs the account out everywhere and leaves it on a temporary password.
ResetTo(u, c) ==
  /\ c.op = "reset"
  /\ session' = (session /\ c.who # Me)
  /\ must' = (must \/ c.who = Me)
  /\ UNCHANGED <<role, level, project, key>>

UpdateRole(u, c) ==
  /\ c.op = "role"
  /\ role' = [role EXCEPT ![c.who] = c.role]
  /\ UNCHANGED <<level, project, key, session, must>>

RemoveAccount(u, c) ==
  /\ c.op = "delete_member"
  /\ role' = [role EXCEPT ![c.who] = "removed"]
  /\ level' = [level EXCEPT ![c.who] = Nil]
  /\ session' = (session /\ c.who # Me)
  /\ UNCHANGED <<project, key, must>>

Writes == {"create", "rotate", "delete", "grant", "remove", "add", "reset", "role",
           "delete_member"}

Write(u, c) ==
  \/ CreateProject(u, c) \/ RotateSecret(u, c) \/ DeleteProject(u, c)
  \/ SetMembership(u, c) \/ AddAccount(u, c) \/ ResetTo(u, c)
  \/ UpdateRole(u, c) \/ RemoveAccount(u, c)

----------------------------------------------------------------------------
(* What a request is answered with, after what it wrote.  old: the page it *)
(* was sent from.                                                          *)

Fragment(old, region, controls) == [old EXCEPT ![region] = controls]

\* Slip: hiding the key leaves the snippet.
RevealOrHideField(old, hide) ==
  LET k == IF hide \/ project # "live" THEN 0 ELSE key
  IN [old EXCEPT !.pane = SecretField(k # 0), !.shown = k, !.snippet = IF k # 0 THEN k ELSE @]

RevealSecret(old, hide) ==
  LET k == IF hide \/ project # "live" THEN 0 ELSE key
  IN [old EXCEPT !.pane = SecretField(k # 0), !.shown = k,
                 !.snippet = IF k # 0 \/ hide THEN k ELSE @]

\* The field shows the new key and the dialog is dismissed; the snippet is left.
Rotated(old) ==
  [old EXCEPT !.pane = SecretField(TRUE), !.shown = key, !.dialog = {}, !.rotated = TRUE]

\* The credentials in the sheet, the list behind it out of band.
Created(old) ==
  [old EXCEPT !.sheet = WizardConnect, !.frame = Dashboard.frame, !.pane = ProjectGrid]

NewProjectWizard(old) == Fragment(old, "sheet", WizardDetails)

ConfirmDialog(old, op) == Fragment(old, "dialog", ConfirmModal(op))

RenderAccess(old, manage) == Fragment(old, "pane", AccessPanel(manage))

NewMember(old) == Fragment(old, "sheet", AddMemberForm)

\* The handoff, and the table behind the sheet out of band.
MemberMade(old) == [old EXCEPT !.sheet = MemberCreated, !.pane = MembersTable]

RenderMembers(old) == Fragment(old, "pane", MembersTable)

ChangedPassword(old) ==
  IF old.url = "account" THEN AccountPage("account_password", TRUE) ELSE Dashboard

SignedIn == IF ~session THEN Login ELSE IF must THEN ChangePassword ELSE Dashboard

Answers(c, manage, old) ==
  CASE c.op \in {"home", "delete"} -> {Dashboard}
    [] c.op = "login" -> {SignedIn}
    [] c.op = "logout" -> {Login}
    [] c.op = "change_password" -> {ChangedPassword(old)}
    [] c.op \in {"account", "account_tokens", "account_password", "create_token",
                 "revoke_token"} ->
         {AccountPage(c.op, some) : some \in IF c.op = "create_token" THEN {TRUE} ELSE BOOLEAN}
    [] c.op \in {"instance", "instance_general", "instance_members"} ->
         {InstanceSettingsPage(ActiveInstanceTab(c.op))}
    [] c.op = "members" -> {InstanceSettingsPage(ActiveInstanceTab("instance_members"))}
    [] c.op \in {"overview", "screen"} -> {ProjectScreen}
    [] c.op \in {"live", "pair"} -> {LiveDevicesPage}
    [] c.op \in {"settings"} \cup TabOps -> {SettingsPage(ActiveTab(c.op))}
    [] c.op \in {"filter", "search"} ->
         {Fragment(old, "pane", p) : p \in {ProjectGrid, {}}}
    [] c.op \in {"new_project", "wizard_back"} -> {NewProjectWizard(old)}
    [] c.op = "wizard_access" -> {Fragment(old, "sheet", WizardAccess)}
    [] c.op = "create" -> {Created(old)}
    [] c.op = "ask_rotate" -> {ConfirmDialog(old, "rotate")}
    [] c.op = "ask_delete" -> {ConfirmDialog(old, "delete")}
    [] c.op \in {"reveal", "hide"} -> {RevealSecret(old, c.op = "hide")}
    [] c.op = "rotate" -> {Rotated(old)}
    [] c.op \in {"grant", "remove"} -> {RenderAccess(old, manage)}
    [] c.op = "new_member" -> {NewMember(old)}
    [] c.op = "add" -> {MemberMade(old)}
    [] c.op \in {"role", "delete_member"} -> {RenderMembers(old)}
    [] OTHER -> {old}

\* The same when the service refused or failed: a form comes back.  A rotation
\* puts its error where the field was.
ErrorAnswers(c, manage, old) ==
  CASE c.op = "add" -> {NewMember(old)}
    [] c.op = "create" -> {NewProjectWizard(old)}
    [] c.op = "rotate" -> {[old EXCEPT !.pane = {}, !.shown = 0, !.rotated = TRUE]}
    [] c.op \in {"grant", "remove", "role", "delete_member"} -> Answers(c, manage, old)
    [] OTHER -> {old}

\* The regions that come with an answer.
DrawnBy(c) ==
  CASE c.op \in {"star", "reset", "close"} -> {}
    [] c.op \in {"filter", "search", "reveal", "hide", "grant", "remove", "role",
                 "delete_member", "save", "save_instance", "update_check"} -> {"pane"}
    [] c.op \in {"new_project", "wizard_back", "wizard_access", "new_member"} -> {"sheet"}
    [] c.op \in {"ask_rotate", "ask_delete"} -> {"dialog"}
    [] c.op = "rotate" -> {"pane", "dialog"}
    [] c.op = "add" -> {"pane", "sheet"}
    [] c.op = "create" -> {"frame", "pane", "sheet"}
    [] OTHER -> Regions

----------------------------------------------------------------------------
(* Steps.                                                                  *)

\* Nothing on the page is swapped without its target: the rotation's is the
\* secret field.
HasTarget(c) == c.op = "rotate" => page.pane # {}

\* RequireSession sends the whole window away, a fragment's request included.
TurnAway(c) ==
  /\ ~Admitted(c)
  /\ page' = IF session THEN ChangePassword ELSE Login
  /\ last' = [mine |-> FALSE, drawn |-> Regions, own |-> FALSE]
  /\ UNCHANGED data

\* A refusal replaces a page that was navigated to and leaves any other alone.
Refuse(c) ==
  /\ Admitted(c)
  /\ c.op \notin Public /\ ~Routed(Me, c)
  /\ page' = IF c.op \in Links THEN ErrorPage ELSE page
  /\ last' = [mine |-> FALSE, drawn |-> {}, own |-> FALSE]
  /\ UNCHANGED data

Credentials(c) ==
  /\ session' = IF c.op = "logout" THEN FALSE
                ELSE IF c.op = "login" THEN Me \in Accounts ELSE session
  /\ must' = (must /\ c.op # "change_password")
  /\ UNCHANGED <<role, level, project, key>>

\* With nobody to offer, the wizard's second step creates the project.
Meant(c) ==
  IF c.op = "wizard_access" /\ ListCandidatesForNewProject(Me) = {} THEN Do("create") ELSE c

Handle(c) ==
  /\ Admitted(c)
  /\ c.op \in Public \/ (Routed(Me, c) /\ Serves(Me, c))
  /\ IF c.op \in Writes THEN Write(Me, c) ELSE Credentials(c)
  /\ \E old \in {page}, manage \in {CanManage(Me)} : page' \in Answers(c, manage, old)'
  /\ last' = [mine |-> c.op \in Writes, drawn |-> DrawnBy(c), own |-> level'[Me] # level[Me]]

\* The service refuses, or a statement fails.
Fail(c) ==
  /\ Admitted(c)
  /\ c.op \in Writes \cup {"save"} /\ Routed(Me, c)
  /\ ~Serves(Me, c) \/ c.op \in {"create", "rotate", "delete", "save"}
  /\ UNCHANGED data
  /\ \E old \in {page}, manage \in {CanManage(Me)} : page' \in ErrorAnswers(c, manage, old)'
  /\ last' = [mine |-> FALSE, drawn |-> {}, own |-> FALSE]

\* Closing a sheet or dialog asks nobody.
Close ==
  /\ Do("close") \in Offered
  /\ page' = [page EXCEPT !.dialog = {}, !.sheet = IF page.dialog = {} THEN {} ELSE @]
  /\ last' = [mine |-> FALSE, drawn |-> {}, own |-> FALSE]
  /\ UNCHANGED <<data, changes>>

Click(c) ==
  /\ UNCHANGED changes
  /\ c \in Offered /\ c.op # "close" /\ HasTarget(c)
  /\ TurnAway(c) \/ Refuse(c) \/ Handle(Meant(c)) \/ Fail(Meant(c))

\* An address typed or bookmarked.
Visit(c) ==
  /\ UNCHANGED changes
  /\ c \in Plain({"home", "settings", "instance"} \cup TabOps)
  /\ \/ TurnAway(c)
     \/ Handle(c)
     \/ Admitted(c) /\ ~Routed(Me, c) /\ page' = ErrorPage
          /\ last' = [mine |-> FALSE, drawn |-> {}, own |-> FALSE] /\ UNCHANGED data

\* What other people may send.
SentElsewhere ==
  Plain({"create", "rotate", "delete"})
    \cup (UNION {Grants(op, u) : op \in {"create", "grant"}, u \in Users})
    \cup {DoTo(op, u) : op \in {"remove", "reset", "delete_member"}, u \in Users}
    \cup {MakeRole(u, r) : u \in Users, r \in Roles}
    \cup {NewAccount(r, l) : r \in {"admin", "member"}, l \in Levels \cup {Nil}}

\* Somebody else does what they may, behind the page.
Elsewhere(u, c) ==
  /\ u # Me /\ May(u, c) /\ changes < MaxChanges
  /\ changes' = changes + 1
  /\ Write(u, c)
  /\ data' # data
  /\ UNCHANGED page
  /\ last' = [mine |-> FALSE, drawn |-> {}, own |-> FALSE]

\* A session ends by itself.
Expire ==
  /\ session /\ session' = FALSE
  /\ UNCHANGED <<role, level, project, key, must, page, changes>>
  /\ last' = [mine |-> FALSE, drawn |-> {}, own |-> FALSE]

----------------------------------------------------------------------------
\* Any accounts with a super admin among them, on a project or without one; the
\* reader is signing in.
ScreensInit ==
  /\ role \in [Users -> Roles \cup {"free"}]
  /\ Me \in Accounts /\ SuperAdmins # {}
  /\ \/ project = "none" /\ level = [u \in Users |-> Nil] /\ key = 0
     \/ project = "live" /\ key = 1
        /\ level \in [Users -> Levels \cup {Nil}]
        /\ \A u \in Users : u \notin Accounts => level[u] = Nil
  /\ session = FALSE /\ must \in BOOLEAN
  /\ page = Login /\ changes = 0
  /\ last = [mine |-> FALSE, drawn |-> {}, own |-> FALSE]

ScreensNext ==
  \/ \E c \in Offered : Click(c)
  \/ Close
  \/ \E c \in Plain({"home", "settings", "instance"} \cup TabOps) : Visit(c)
  \/ \E u \in Accounts, c \in SentElsewhere : Elsewhere(u, c)
  \/ Expire

ScreensSpec == ScreensInit /\ [][ScreensNext]_screensVars

----------------------------------------------------------------------------
(* Properties.                                                             *)

\* Every variable keeps its type, and no page holds what is not a control.
ScreensTypeOK ==
  /\ role \in [Users -> Roles \cup {"free", "removed"}]
  /\ level \in [Users -> Levels \cup {Nil}]
  /\ project \in {"none", "live", "deleted"}
  /\ key \in 0..MaxKey
  /\ session \in BOOLEAN /\ must \in BOOLEAN /\ changes \in 0..MaxChanges
  /\ page \in PageType
  /\ last \in [mine: BOOLEAN, drawn: SUBSET Regions, own: BOOLEAN]

\* What the code draws and then refuses: the wizard of someone who may not
\* create projects, the form of a project somebody only views, the level of a
\* super admin who is on a project, the projects an admin only views in the form
\* for a new account, the panel on which a reader has just lowered their own
\* level, which is drawn with the rights they came with, and the way from a
\* deleted project's logs, which open, to its settings, which do not.  A stale
\* danger tab still opens its dialog, which asks for no more than managing.
DrawnAnyway(c) ==
  \/ c.op \in {"wizard_access", "create"} /\ ~CanCreateProjects(Me)
  \/ c.op = "save" /\ ~CanManage(Me)
  \/ c.op = "grant" /\ role[c.who] = "super_admin"
  \/ c.op = "add" /\ c.level # Nil /\ ~CanManage(Me)
  \/ c.op \in {"grant", "remove"} /\ last.own
  \/ c.op = "delete" /\ CanManage(Me) /\ changes > 0
  \/ c.op \in {"overview", "live", "settings"} /\ page.url = "screen" /\ project # "live"

\* A control that has just been drawn works: with the rights its template was
\* rendered under, the middleware and the service accept it, but for the seven
\* cases above (templates against routes.go and member_service.go).
DrawnControlsWork ==
  \A r \in last.drawn : \A c \in page[r] :
    c.op \in Public \cup {"close"} \/ May(Me, c) \/ DrawnAnyway(c)

\* What one more click away opens, from the controls in cs.
Opened(cs) ==
  cs \cup UNION {UNION {p.frame \cup p.pane \cup p.sheet \cup p.dialog :
                          p \in Answers(Meant(c), CanManage(Me), page)} :
                 c \in {d \in cs : May(Me, d) /\ d.op \notin Public}}

\* The requests that change something or show a project.
Wanted ==
  SentElsewhere \cup Plain({"save", "reveal", "star", "overview", "screen", "live", "pair",
                       "save_instance", "update_check", "create_token", "revoke_token",
                       "change_password"})

\* Nobody has to know an address by heart: whatever the gates let the reader do
\* is offered somewhere within five clicks of the projects page.  Not offered
\* are changes to the reader's own account by a super admin, taking someone off
\* a project they are not on, and a project that is deleted.
AllowedIsOffered ==
  page.url = "home" /\ last.drawn = Regions /\ session /\ ~must /\ project = "live" =>
    LET reached == Opened(Opened(Opened(Opened(Opened(page.frame \cup page.pane)))))
    IN \A c \in Wanted :
         \/ ~May(Me, c) \/ c \in reached
         \/ c.op \in {"role", "delete_member"} /\ c.who = Me
         \/ c.op = "remove" /\ level[c.who] = Nil
         \/ c.op = "create" /\ c.who \notin ListCandidatesForNewProject(Me) \cup {Nil}

\* The table of roles on the members screen is true of every account: what it
\* promises is what the routes and services accept.
MatrixIsTrue ==
  \A u \in Accounts :
    LET promised(row) == Cell(RolesMatrix[row][role[u]], u, Nil)
        promisedTo(row, r) == Cell(RolesMatrix[row][role[u]], u, r)
        may(op) == May(u, Do(op))
    IN /\ project = "live" => (may("overview") <=> promised("visible"))
       /\ may("create") <=> promised("create")
       /\ project = "live" =>
            /\ may("delete") <=> promised("delete")
            /\ \A op \in {"save", "reveal", "rotate"} : may(op) <=> promised("settings")
            /\ \A v \in Accounts \ {u} : May(u, DoTo("remove", v)) <=> promised("access")
       /\ \A r \in Roles \ {"super_admin"} :
            May(u, [Do("add") EXCEPT !.role = r]) <=> promisedTo("accounts", r)
       /\ \A v \in Accounts \ {u} :
            /\ May(u, DoTo("delete_member", v)) <=> promisedTo("accounts", role[v])
            /\ May(u, DoTo("reset", v)) <=> promisedTo("reset", role[v])
            /\ \A r \in Roles : May(u, [DoTo("role", v) EXCEPT !.role = r]) <=> promised("roles")
       /\ may("save_instance") <=> promised("instance")

\* A page that was drawn under rights since lost gives nothing away: whoever
\* clicks on it, access to the project is only handed out by somebody who manages
\* it then or has just created it, a role by somebody who outranks it or is a
\* super admin, and nobody raises themselves.
GrantsComeFromAbove ==
  [][last'.mine =>
       /\ \A w \in Users : level'[w] \notin {level[w], Nil} =>
            CanManage(Me) \/ (project = "none" /\ CanCreateProjects(Me))
       /\ \A w \in Users : role'[w] \in Roles /\ role'[w] # role[w] =>
            role[Me] = "super_admin" \/ (CanCreateProjects(Me) /\ Outranks(role[Me], role'[w]))
       /\ Rank(role'[Me]) <= Rank(role[Me])]_screensVars

\* A super admin gets a row on a project only by creating it, however old the
\* form is that ticked them ("a row would imply their access is revocable").
NoRowForSuperAdmins ==
  [][\A w \in SuperAdmins : level'[w] \notin {level[w], Nil} =>
       project = "none" /\ level'[w] = "maintainer"]_screensVars

\* An account on a temporary password gets nowhere and changes nothing until it
\* has chosen its own, whatever page was open when the password was reset.
TemporaryGoesNowhere ==
  [][must =>
       /\ ~last'.mine
       /\ last'.drawn # {} => page'.url \in {"login", "change_password"} \/ ~must']_screensVars

\* The setup snippet carries the key the field above it shows, or both are
\* masked, until the key is rotated from that very page (SetupSnippetOOB).
SnippetFollowsField == page.rotated \/ page.snippet = page.shown

\* What a page offers works, and what it says is so.
ScreensKeepTheirWord == ScreensTypeOK /\ DrawnControlsWork /\ MatrixIsTrue /\ SnippetFollowsField

\* What a page still offers and its reader may no longer do gives nothing away.
StalePagesGiveNothingAway ==
  GrantsComeFromAbove /\ NoRowForSuperAdmins /\ TemporaryGoesNowhere
============================================================================
