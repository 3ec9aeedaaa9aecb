------------------------------ MODULE Accounts -------------------------------
(***************************************************************************)
(* The people who use the dashboard: set-up of the first account, login,   *)
(* sessions, and the handlers by which a user creates projects and rotates *)
(* their keys.                                                             *)
(*                                                                         *)
(* Each handler runs one statement of the database at a time and other     *)
(* requests run between two of them; any statement may fail.  A console is *)
(* one browser, with its cookie and at most one request in flight.         *)
(***************************************************************************)
EXTENDS Keystore, FiniteSets

CONSTANTS
  Emails,      \* the accounts people may register
  Tokens,      \* the session tokens GenerateToken can make
  Consoles,
  SessionTTL

\* A request in flight: from its check on, one that is about a project has it.
Handlings ==
  [stage : {"setup", "session", "logout", "create", "rotate"}, user : Emails,
   project : {None}]
  \cup [stage : {"member", "rotating"}, user : Emails, project : Projects]

ASSUME AccountsAssumption ==
  /\ SessionTTL \in Nat \ {0}
  /\ None \notin Tokens /\ None \notin Handlings
  /\ None \notin [user : Emails, expiresAt : Nat]
  /\ None \notin [admin : BOOLEAN]

VARIABLES
  users,       \* per email, whether its account is an administrator, or None
  sessions,    \* per token, its user and its expiry, or None
  minted,      \* the tokens made so far
  members,     \* project_members: who owns which project
  cookie,      \* per console, the token in its cookie, or None
  console,     \* per console, the request in flight, or None
  created      \* history: the projects whose creation was answered 201, each
               \* with its creator, and those it was answered an error for

accountVars == <<users, sessions, minted, members, cookie, console, created>>

AccountsTypeOK ==
  /\ users \in [Emails -> [admin : BOOLEAN] \cup {None}]
  /\ sessions \in [Tokens -> [user : Emails, expiresAt : Nat] \cup {None}]
  /\ minted \subseteq Tokens
  /\ members \subseteq Emails \X Projects
  /\ cookie \in [Consoles -> Tokens \cup {None}]
  /\ console \in [Consoles -> Handlings \cup {None}]
  /\ created \subseteq Emails \X Projects \X BOOLEAN

AccountsInit ==
  /\ users = [e \in Emails |-> None]
  /\ sessions = [t \in Tokens |-> None]
  /\ minted = {}
  /\ members = {}
  /\ cookie = [c \in Consoles |-> None]
  /\ console = [c \in Consoles |-> None]
  /\ created = {}

------------------------------------------------------------------------------

Idle(c) == console[c] = None

At(c, stage) == console[c] # None /\ console[c].stage = stage

Enter(c, stage, u, p) == console' = [console EXCEPT ![c] =
  [stage |-> stage, user |-> u, project |-> p]]

Return(c) == console' = [console EXCEPT ![c] = None]

\* UserStore.Count
Registered == {e \in Emails : users[e] # None}

\* A statement fails, and the handler answers an error and leaves the rest.
Fail(c) ==
  /\ console[c] # None
  /\ console[c].stage \in {"setup", "session", "create", "rotating"}
  /\ Return(c)
  /\ UNCHANGED <<keyVars, users, sessions, minted, members, cookie, created>>

HandleSetupUnchecked(c, e) ==
  /\ Idle(c)
  /\ Enter(c, "setup", e, None)
  /\ UNCHANGED <<keyVars, users, sessions, minted, members, cookie, created>>

\* HandleSetup up to the answer of Count; with users there it answers 410.
HandleSetup(c, e) ==
  /\ Idle(c)
  /\ Registered = {}
  /\ Enter(c, "setup", e, None)
  /\ UNCHANGED <<keyVars, users, sessions, minted, members, cookie, created>>

\* The rest of HandleSetup, up to startSession.  The column email is unique.
CreateFirstUser(c) ==
  /\ At(c, "setup")
  /\ users[console[c].user] = None
  /\ users' = [users EXCEPT ![console[c].user] = [admin |-> TRUE]]
  /\ Enter(c, "session", console[c].user, None)
  /\ UNCHANGED <<keyVars, sessions, minted, members, cookie, created>>

\* FindByEmail and VerifyPassword, given the right password.
HandleLogin(c, e) ==
  /\ Idle(c)
  /\ users[e] # None
  /\ Enter(c, "session", e, None)
  /\ UNCHANGED <<keyVars, users, sessions, minted, members, cookie, created>>

\* startSession
StartSession(c, t) ==
  /\ At(c, "session")
  /\ t \notin minted
  /\ minted' = minted \cup {t}
  /\ sessions' = [sessions EXCEPT ![t] =
       [user |-> console[c].user, expiresAt |-> now + SessionTTL]]
  /\ cookie' = [cookie EXCEPT ![c] = t]
  /\ Return(c)
  /\ UNCHANGED <<keyVars, users, members, created>>

\* RequireUser: the session of the cookie, its expiry and its user.  What is
\* asked for runs as that user from here on.
Authenticate(c, stage) ==
  /\ Idle(c)
  /\ cookie[c] # None
  /\ sessions[cookie[c]] # None
  /\ now <= sessions[cookie[c]].expiresAt
  /\ users[sessions[cookie[c]].user] # None
  /\ Enter(c, stage, sessions[cookie[c]].user, None)
  /\ UNCHANGED <<keyVars, users, sessions, minted, members, cookie, created>>

\* The cookie goes even when the session could not be deleted.
HandleLogout(c) ==
  /\ At(c, "logout")
  /\ \/ cookie[c] # None /\ sessions' = [sessions EXCEPT ![cookie[c]] = None]
     \/ UNCHANGED sessions
  /\ cookie' = [cookie EXCEPT ![c] = None]
  /\ Return(c)
  /\ UNCHANGED <<keyVars, users, minted, members, created>>

------------------------------------------------------------------------------
(* handleCreateProject, handleRotateKeys and the lists of projects. *)

CreateProject(c, p, w, s) ==
  /\ At(c, "create")
  /\ projects[p] = None
  /\ WriteRow(p, w, s)
  /\ Enter(c, "member", console[c].user, p)
  /\ UNCHANGED <<users, sessions, minted, members, cookie, created>>

AddMemberUnchecked(c) ==
  /\ At(c, "member")
  /\ \E added \in BOOLEAN :
       /\ members' = members \cup
            (IF added THEN {<<console[c].user, console[c].project>>} ELSE {})
       /\ created' = created \cup {<<console[c].user, console[c].project, TRUE>>}
  /\ Return(c)
  /\ UNCHANGED <<keyVars, users, sessions, minted, cookie>>

\* The project stays when its owner cannot be added.
AddMember(c) ==
  /\ At(c, "member")
  /\ \E added \in BOOLEAN :
       /\ members' = members \cup
            (IF added THEN {<<console[c].user, console[c].project>>} ELSE {})
       /\ created' = created \cup
            {<<console[c].user, console[c].project, added>>}
  /\ Return(c)
  /\ UNCHANGED <<keyVars, users, sessions, minted, cookie>>

\* handleListProjects, and what handleGetProject shows
ListUserProjects(u) == {p \in Projects : <<u, p>> \in members}

CheckUserOnly(c, p) ==
  /\ At(c, "rotate")
  /\ Enter(c, "rotating", console[c].user, p)
  /\ UNCHANGED <<keyVars, users, sessions, minted, members, cookie, created>>

\* IsMember; nobody is made a member in any other role than owner.
CheckOwner(c, p) ==
  /\ At(c, "rotate")
  /\ IF p \in ListUserProjects(console[c].user)
     THEN Enter(c, "rotating", console[c].user, p)
     ELSE Return(c)
  /\ UNCHANGED <<keyVars, users, sessions, minted, members, cookie, created>>

\* RotateKeys finds no row, and answers as if the statement had failed, when
\* the project is not there.
RotateKeys(c, w, s) ==
  /\ At(c, "rotating")
  /\ projects[console[c].project] # None
  /\ WriteRow(console[c].project, w, s)
  /\ Return(c)
  /\ UNCHANGED <<users, sessions, minted, members, cookie, created>>

Handler(c) ==
  \/ Fail(c)
  \/ \E e \in Emails : HandleSetup(c, e) \/ HandleLogin(c, e)
  \/ CreateFirstUser(c)
  \/ \E t \in Tokens : StartSession(c, t)
  \/ \E stage \in {"logout", "create", "rotate"} : Authenticate(c, stage)
  \/ HandleLogout(c)
  \/ \E p \in Projects, w \in WriteKeys, s \in SecretKeys : CreateProject(c, p, w, s)
  \/ AddMember(c)
  \/ \E p \in Projects : CheckOwner(c, p)
  \/ \E w \in WriteKeys, s \in SecretKeys : RotateKeys(c, w, s)

------------------------------------------------------------------------------

SettingUp == {c \in Consoles : At(c, "setup")}

\* From the first account on, the accounts and the set-ups still running
\* together only get fewer: no more accounts come of set-up than requests had
\* counted no users when the first was made, and none once those are over
\* (handlers.go, HandleSetup, which counts and creates in two statements).
SetupCloses == [][Registered # {} =>
  Cardinality(Registered') + Cardinality(SettingUp')
    <= Cardinality(Registered) + Cardinality(SettingUp)]_<<users, console>>

\* Every project is either one its owner was told of and finds in the list,
\* or one whose creator got an error for an answer; it is never left without
\* an owner behind an answer of success (router.go, handleCreateProject).
ProjectsAccountedFor == \A p \in Projects : projects[p] # None =>
  \/ \E c \in Consoles : At(c, "member") /\ console[c].project = p
  \/ \E u \in Emails : <<u, p, TRUE>> \in created /\ p \in ListUserProjects(u)
  \/ \E u \in Emails : <<u, p, FALSE>> \in created

\* The keys of a project change only by the hand of someone who then owns it
\* and has an account, whatever ran between the check and the update, and
\* then both keys change (router.go, handleRotateKeys).
RotatedByOwners == [][\A p \in Projects :
  projects[p] # None /\ projects'[p] # projects[p] =>
    /\ projects'[p].write # projects[p].write
    /\ projects'[p].secret # projects[p].secret
    /\ \E c \in Consoles :
         /\ At(c, "rotating") /\ ~(At(c, "rotating"))'
         /\ users[console[c].user] # None
         /\ p \in ListUserProjects(console[c].user)]_projects
==============================================================================
