------------------------------- MODULE Manage -------------------------------
(***************************************************************************)
(* The management API (manage.py): organizations, their members with their *)
(* roles (rbac.py), the tree organization / workspace / project / key, and *)
(* the activity log (activity.py).                                         *)
(*                                                                         *)
(* A handler loads its target, checks the role of its principal in the     *)
(* target's organization, commits its change, and then commits the row of  *)
(* the activity log.  Requests run concurrently; an action is what one     *)
(* does between two awaits that touch shared rows.  Requests without valid *)
(* credentials are answered 401 and change nothing: they are left out, as  *)
(* are the routes that only read.  Foreign keys are enforced (Postgres).   *)
(***************************************************************************)
EXTENDS Integers, FiniteSets

CONSTANTS
    Handlers,       \* the requests that can be at work at the same time
    SuperUser,      \* the principal of the admin token
    Users, Orgs, Workspaces, Projects, Keys,    \* the ids rows may have
    Models,
    NoOrg,          \* the org_id of a workspace that was seeded without one
    Missing,        \* an id that names no row; an e-mail address left out
    OpeningRows, OpeningParent, OpeningRole,    \* the database at the start
    MaxRequests,    \* BOUND on the requests
    MaxFaults       \* BOUND on failed commits and crashes

Rows == Users \cup Orgs \cup Workspaces \cup Projects \cup Keys
OrgIds == Orgs \cup {NoOrg, Missing}
Roles == {"member", "admin", "owner"}

ASSUME ManageAssumption ==
    /\ SuperUser \notin Users
    /\ {NoOrg, Missing} \cap Rows = {}
    /\ Users \cap (Orgs \cup Workspaces \cup Projects \cup Keys) = {}
    /\ Orgs \cap (Workspaces \cup Projects \cup Keys) = {}
    /\ Workspaces \cap (Projects \cup Keys) = {}
    /\ Projects \cap Keys = {}
    /\ OpeningRows \subseteq Rows
    /\ OpeningParent \in [Workspaces \cup Projects \cup Keys -> Rows \cup {NoOrg, Missing}]
    /\ \A w \in OpeningRows \cap Workspaces : OpeningParent[w] \in OpeningRows \cap Orgs
                                              \/ OpeningParent[w] = NoOrg
    /\ \A p \in OpeningRows \cap Projects : OpeningParent[p] \in OpeningRows \cap Workspaces
    /\ \A k \in OpeningRows \cap Keys : OpeningParent[k] \in OpeningRows \cap Projects
    /\ OpeningRole \in [Users \X OrgIds -> Roles \cup {"none"}]
    /\ \A u \in Users, o \in OrgIds : OpeningRole[<<u, o>>] # "none" => {u, o} \subseteq OpeningRows
    /\ Models # {}
    /\ MaxRequests \in Nat /\ MaxFaults \in Nat

\* The routes that change something, by what they act on.
OrgRoutes == {"member.add", "workspace.create"}
WorkspaceRoutes == {"budget.set", "project.create"}
ProjectRoutes == {"model.enable", "model.disable", "key.create"}
KeyRoutes == {"key.revoke"}
Scoped == OrgRoutes \cup WorkspaceRoutes \cup ProjectRoutes \cup KeyRoutes
SuperUserRoutes == {"user.create", "session.create"}

\* The routes that call activity.record.
Recorded == {"org.create", "member.add", "workspace.create", "budget.set",
             "project.create", "key.create", "key.revoke"}

VARIABLES
    \* the database
    present,    \* the ids in Rows that have a row
    parent,     \* org_id of a workspace, workspace_id of a project, project_id of a key
    role,       \* Membership.role of a user in an organization
    sessions,   \* the users with a session token
    allowlist,  \* the ProjectModel rows
    revoked,    \* the keys with a revoked_at
    log,        \* the ActivityLog rows
    \* the handlers
    stage, job, \* where a handler is, and the request it serves
    entry,      \* the activity row it is about to write
    \* history
    changes,    \* what has been committed: who did what, to what, in which organization
    founder,    \* whom an organization was created for
    lost,       \* the activity rows whose commit failed
    requests, faults

database == <<present, parent, role, sessions, allowlist, revoked>>
bounds == <<requests, faults>>
vars == <<database, log, stage, job, entry, changes, founder, lost, bounds>>

Actions == Scoped \cup SuperUserRoutes \cup {"org.create"}

Jobs == [actor : Users \cup {SuperUser}, action : Actions,
         on : Rows \cup {Missing}, org : OrgIds, whom : Users \cup {Missing},
         role : Roles, model : Models]

NoJob == [actor |-> SuperUser, action |-> "org.create", on |-> Missing, org |-> NoOrg,
          whom |-> Missing, role |-> "member", model |-> CHOOSE m \in Models : TRUE]

NoEntry == [actor |-> SuperUser, action |-> "none", org |-> NoOrg, target |-> Missing]

Entries == [actor : Users \cup {SuperUser}, action : Actions \cup {"none"},
            org : OrgIds, target : Rows \cup {Missing}]

\* The organization a row belongs to, along the foreign keys.
OrgOf(x) ==
    CASE x \in Orgs -> x
      [] x \in Workspaces -> parent[x]
      [] x \in Projects -> parent[parent[x]]
      [] x \in Keys -> parent[parent[parent[x]]]
      [] OTHER -> NoOrg

Rank == [none |-> 0, member |-> 1, admin |-> 2, owner |-> 3]

RoleAtLeast(r, minimum) == Rank[r] >= Rank[minimum]

Init ==
    /\ present = OpeningRows
    /\ parent = OpeningParent
    /\ role = OpeningRole
    /\ sessions = OpeningRows \cap Users
    /\ allowlist = {}
    /\ revoked = {}
    /\ log = {}
    /\ stage = [h \in Handlers |-> "idle"]
    /\ job = [h \in Handlers |-> NoJob]
    /\ entry = [h \in Handlers |-> NoEntry]
    /\ changes = {}
    /\ founder = [o \in Orgs |-> Missing]
    /\ lost = {}
    /\ requests = 0 /\ faults = 0

-----------------------------------------------------------------------------
GoTo(h, s) == stage' = [stage EXCEPT ![h] = s]

\* The request is answered, and the handler is free for another one.
Answer(h) ==
    /\ stage' = [stage EXCEPT ![h] = "idle"]
    /\ job' = [job EXCEPT ![h] = NoJob]
    /\ entry' = [entry EXCEPT ![h] = NoEntry]

\* What a committed change says, when x is what it was made to.
Change(h, x, org) == [actor |-> job[h].actor, action |-> job[h].action, org |-> org, target |-> x]

\* Whom create_org makes an organization for: the user named by owner_email, or
\* else whoever asks.
Founder(j) == IF j.whom # Missing THEN j.whom ELSE j.actor

\* The change of handler h to x is committed; org is where the foreign keys of
\* x lead.  A route that calls activity.record goes on to it, with the
\* organization the handler had loaded; the others answer.
Commit(h, x, org) ==
    /\ changes' = changes \cup {Change(h, x, org)}
    /\ founder' = IF job[h].action # "org.create" THEN founder
                   ELSE [founder EXCEPT ![x] = Founder(job[h])]
    /\ IF job[h].action \in Recorded
         THEN /\ GoTo(h, "record")
              /\ entry' = [entry EXCEPT ![h] =
                             Change(h, x, IF job[h].action = "org.create" THEN x ELSE job[h].org)]
              /\ UNCHANGED job
         ELSE Answer(h)
    /\ UNCHANGED <<log, lost, bounds>>

\* What a request may name: rows there are, or an id without one.
Targets(a) ==
    CASE a \in OrgRoutes -> (present \cap Orgs) \cup {Missing}
      [] a \in WorkspaceRoutes -> (present \cap Workspaces) \cup {Missing}
      [] a \in ProjectRoutes -> (present \cap Projects) \cup {Missing}
      [] a \in KeyRoutes -> (present \cap Keys) \cup {Missing}
      [] OTHER -> {Missing}

\* ... and whom, by an e-mail address that may be nobody's or left out.
Named(a) ==
    CASE a \in SuperUserRoutes \cup {"member.add"} -> Users
      [] a = "org.create" -> Users \cup {Missing}
      [] OTHER -> {Missing}

FirstStage(a) ==
    CASE a \in OrgRoutes -> "role"
      [] a \in SuperUserRoutes -> "superuser"
      [] a = "org.create" -> "commit"
      [] OTHER -> "load"

\* A request arrives and get_principal resolves its credentials.
Arrive(h) ==
    /\ stage[h] = "idle"
    /\ requests < MaxRequests
    /\ requests' = requests + 1
    /\ \E actor \in sessions \cup {SuperUser}, a \in Actions :
          /\ \E on \in Targets(a), whom \in Named(a),
                r \in (IF a = "member.add" THEN Roles ELSE {NoJob.role}),
                m \in (IF a \in ProjectRoutes \ {"key.create"} THEN Models ELSE {NoJob.model}) :
                job' = [job EXCEPT ![h] =
                          [actor |-> actor, action |-> a, on |-> on, whom |-> whom,
                           org |-> IF a \in OrgRoutes THEN on ELSE NoOrg,
                           role |-> r, model |-> m]]
          /\ GoTo(h, FirstStage(a))
    /\ UNCHANGED <<database, log, entry, changes, founder, lost, faults>>

\* Mutant: every member may manage.
MayManageAsMember(actor, org) == actor # SuperUser => RoleAtLeast(role[<<actor, org>>], "member")

\* The superuser may do everything, also in an organization that is not there.
MayManage(actor, org) == actor # SuperUser => RoleAtLeast(role[<<actor, org>>], "admin")

\* The superuser is no user, and owns nothing.
OwnerOf(j) == {Founder(j)} \ {SuperUser}

\* Why a request is answered with an error where it stands: no such row or user
\* (404), not allowed (403), or a constraint that its commit would violate
\* (unique e-mail address, one membership per user and organization, primary
\* and foreign keys).
Refused(h) ==
    LET j == job[h]
        committing(action) == stage[h] = "commit" /\ j.action = action
    IN
    \/ stage[h] = "load" /\ j.on \notin present
    \/ stage[h] = "role" /\ ~MayManage(j.actor, j.org)
    \/ stage[h] = "superuser" /\ j.actor # SuperUser
    \/ committing("user.create") /\ j.whom \in present
    \/ committing("session.create") /\ j.whom \notin present
    \/ committing("org.create") /\ ~(OwnerOf(j) \subseteq present)
    \/ committing("workspace.create") /\ j.on = Missing
    \/ committing("member.add") /\ \/ j.whom \notin present
                                   \/ j.org = Missing
                                   \/ role[<<j.whom, j.org>>] # "none"
    \/ (committing("model.enable") \/ stage[h] = "insert") /\ <<j.on, j.model>> \in allowlist

\* It then leaves everything as it was.  A model that is already enabled is not
\* an error: enable_model answers 200 and changes nothing either.
Refuse(h) ==
    /\ Refused(h)
    /\ Answer(h)
    /\ UNCHANGED <<database, log, changes, founder, lost, bounds>>

\* _org_of_workspace, _org_of_project, and the key's lookup.
Load(h) ==
    /\ stage[h] = "load" /\ ~Refused(h)
    /\ job' = [job EXCEPT ![h].org = OrgOf(job[h].on)]
    /\ GoTo(h, "role")
    /\ UNCHANGED <<database, log, entry, changes, founder, lost, bounds>>

\* require_role(session, principal, org_id, "admin"), or _require_superuser.
CheckRole(h) ==
    /\ stage[h] \in {"role", "superuser"} /\ ~Refused(h)
    /\ GoTo(h, "commit")
    /\ UNCHANGED <<database, log, job, entry, changes, founder, lost, bounds>>

-----------------------------------------------------------------------------
(* What each route commits.                                                *)

At(h, action) == stage[h] = "commit" /\ job[h].action = action /\ ~Refused(h)

CreateUser(h) ==
    /\ At(h, "user.create")
    /\ present' = present \cup {job[h].whom}
    /\ Commit(h, job[h].whom, NoOrg)
    /\ UNCHANGED <<parent, role, sessions, allowlist, revoked>>

CreateSession(h) ==
    /\ At(h, "session.create")
    /\ sessions' = sessions \cup {job[h].whom}
    /\ Commit(h, job[h].whom, NoOrg)
    /\ UNCHANGED <<present, parent, role, allowlist, revoked>>

\* A new organization, owned by the users in S.
InsertOrg(h, S) ==
    /\ \E o \in Orgs \ present :
          /\ present' = present \cup {o}
          /\ role' = [ur \in Users \X OrgIds |->
                        IF ur[1] \in S /\ ur[2] = o THEN "owner" ELSE role[ur]]
          /\ Commit(h, o, o)
    /\ UNCHANGED <<parent, sessions, allowlist, revoked>>

\* Mutant: an owner_email of nobody is passed over.
CreateOrgUnowned(h) ==
    /\ stage[h] = "commit" /\ job[h].action = "org.create"
    /\ InsertOrg(h, OwnerOf(job[h]) \cap present)

\* The organization is flushed, but committed only together with its owner.
CreateOrg(h) == At(h, "org.create") /\ InsertOrg(h, OwnerOf(job[h]))

InsertMember(h) ==
    /\ role' = [role EXCEPT ![<<job[h].whom, job[h].org>>] = job[h].role]
    /\ Commit(h, job[h].whom, job[h].org)
    /\ UNCHANGED <<present, parent, sessions, allowlist, revoked>>

\* Mutant: a second membership replaces the first.
AddMemberAgain(h) ==
    /\ stage[h] = "commit" /\ job[h].action = "member.add"
    /\ job[h].whom \in present /\ job[h].org # Missing
    /\ InsertMember(h)

AddMember(h) == At(h, "member.add") /\ InsertMember(h)

\* Mutant: the foreign key of the new row is not set.
InsertDetached(h, x, up) ==
    /\ present' = present \cup {x}
    /\ Commit(h, x, OrgOf(up))
    /\ UNCHANGED <<parent, role, sessions, allowlist, revoked>>

\* A new row x under the row up.
Insert(h, x, up) ==
    /\ present' = present \cup {x}
    /\ parent' = [parent EXCEPT ![x] = up]
    /\ Commit(h, x, OrgOf(up))
    /\ UNCHANGED <<role, sessions, allowlist, revoked>>

CreateWorkspace(h) ==
    /\ At(h, "workspace.create")
    /\ \E w \in Workspaces \ present : Insert(h, w, job[h].on)

CreateProject(h) ==
    /\ At(h, "project.create")
    /\ \E p \in Projects \ present : Insert(h, p, job[h].on)

\* Mutant: the row of the activity log is forgotten.
CreateKeyUnrecorded(h) ==
    /\ At(h, "key.create")
    /\ \E k \in Keys \ present :
          /\ present' = present \cup {k}
          /\ parent' = [parent EXCEPT ![k] = job[h].on]
          /\ changes' = changes \cup {Change(h, k, OrgOf(job[h].on))}
    /\ Answer(h)
    /\ UNCHANGED <<role, sessions, allowlist, revoked, log, founder, lost, bounds>>

CreateKey(h) ==
    /\ At(h, "key.create")
    /\ \E k \in Keys \ present : Insert(h, k, job[h].on)

\* The amount is left out here: it is SetBudget of Proxy.
SetBudget(h) ==
    /\ At(h, "budget.set")
    /\ Commit(h, job[h].on, OrgOf(job[h].on))
    /\ UNCHANGED database

\* Mutant: a key that is revoked a second time is in use again.
RevokeKeyToggles(h) ==
    /\ At(h, "key.revoke")
    /\ revoked' = (revoked \cup {job[h].on}) \ (revoked \cap {job[h].on})
    /\ Commit(h, job[h].on, OrgOf(job[h].on))
    /\ UNCHANGED <<present, parent, role, sessions, allowlist>>

RevokeKey(h) ==
    /\ At(h, "key.revoke")
    /\ revoked' = revoked \cup {job[h].on}
    /\ Commit(h, job[h].on, OrgOf(job[h].on))
    /\ UNCHANGED <<present, parent, role, sessions, allowlist>>

\* enable_model looks for the row first, and inserts it if there was none.
LookForModel(h) ==
    /\ At(h, "model.enable")
    /\ GoTo(h, "insert")
    /\ UNCHANGED <<database, log, job, entry, changes, founder, lost, bounds>>

EnableModel(h) ==
    /\ stage[h] = "insert" /\ ~Refused(h)
    /\ allowlist' = allowlist \cup {<<job[h].on, job[h].model>>}
    /\ Commit(h, job[h].on, OrgOf(job[h].on))
    /\ UNCHANGED <<present, parent, role, sessions, revoked>>

DisableModel(h) ==
    /\ At(h, "model.disable")
    /\ allowlist' = allowlist \ {<<job[h].on, job[h].model>>}
    /\ Commit(h, job[h].on, OrgOf(job[h].on))
    /\ UNCHANGED <<present, parent, role, sessions, revoked>>

-----------------------------------------------------------------------------
\* activity.record: a transaction of its own, after the change.
Record(h) ==
    /\ stage[h] = "record"
    /\ log' = log \cup {entry[h]}
    /\ Answer(h)
    /\ UNCHANGED <<database, changes, founder, lost, bounds>>

\* Mutant: the activity row is written although the commit failed.
FailRecorded(h) ==
    /\ stage[h] \in {"commit", "insert", "record"}
    /\ faults < MaxFaults
    /\ faults' = faults + 1
    /\ log' = log \cup {Change(h, job[h].on, job[h].org)}
    /\ Answer(h)
    /\ UNCHANGED <<database, changes, founder, lost, requests>>

\* The commit a handler is at fails, or its process dies there.  What was
\* committed stays.
Fail(h) ==
    /\ stage[h] \in {"commit", "insert", "record"}
    /\ faults < MaxFaults
    /\ faults' = faults + 1
    /\ lost' = IF stage[h] = "record" THEN lost \cup {entry[h]} ELSE lost
    /\ Answer(h)
    /\ UNCHANGED <<database, log, changes, founder, requests>>

Authorise(h) == Load(h) \/ CheckRole(h) \/ Refuse(h)

Act(h) ==
    \/ CreateUser(h) \/ CreateSession(h) \/ CreateOrg(h) \/ AddMember(h)
    \/ CreateWorkspace(h) \/ CreateProject(h) \/ CreateKey(h)
    \/ SetBudget(h) \/ RevokeKey(h)
    \/ LookForModel(h) \/ EnableModel(h) \/ DisableModel(h)

Next == \E h \in Handlers : Arrive(h) \/ Authorise(h) \/ Act(h) \/ Record(h) \/ Fail(h)

Spec == Init /\ [][Next]_vars

-----------------------------------------------------------------------------
(* Properties.                                                             *)

\* Rows, handlers and history have their types; a row hangs under a row.
TypeOK ==
    /\ present \subseteq Rows
    /\ parent \in [Workspaces \cup Projects \cup Keys -> Rows \cup {NoOrg, Missing}]
    /\ \A w \in present \cap Workspaces : parent[w] \in (present \cap Orgs) \cup {NoOrg}
    /\ \A p \in present \cap Projects : parent[p] \in present \cap Workspaces
    /\ \A k \in present \cap Keys : parent[k] \in present \cap Projects
    /\ role \in [Users \X OrgIds -> Roles \cup {"none"}]
    /\ sessions \subseteq present \cap Users
    /\ allowlist \subseteq (present \cap Projects) \X Models
    /\ revoked \subseteq present \cap Keys
    /\ stage \in [Handlers -> {"idle", "load", "role", "superuser", "commit", "insert", "record"}]
    /\ job \in [Handlers -> Jobs]
    /\ entry \in [Handlers -> Entries] /\ changes \subseteq Entries
    /\ founder \in [Orgs -> Users \cup {SuperUser, Missing}]
    /\ requests \in 0..MaxRequests /\ faults \in 0..MaxFaults

\* Whoever changed anything in an organization was the superuser or held at
\* least the role admin in the organization that the foreign keys of the row
\* lead to, however the lookups, the check and other requests interleaved;
\* users and sessions are made by the superuser only.
ChangesAuthorised ==
    \A c \in changes :
        /\ c.action \in Scoped =>
              c.actor = SuperUser \/ role[<<c.actor, c.org>>] \in {"admin", "owner"}
        /\ c.action \in SuperUserRoutes => c.actor = SuperUser

\* The activity log lists only what was committed, under the principal who did
\* it and in the organization it was done in.
ActivityTruthful == log \subseteq changes

\* A change of a route that records misses its row only while its handler is
\* on the way to it, or because that second commit failed.
AuditGapExplained ==
    \A c \in changes : c.action \in Recorded =>
        \/ c \in log \cup lost
        \/ \E h \in Handlers : stage[h] = "record" /\ entry[h] = c

\* An organization created since the start is owned by just the user it was
\* created for, the one named or else the one who asked, in every state it is to
\* be seen in; only one that the superuser creates for nobody is without owner.
OrgsAreOwned ==
    \A o \in (present \cap Orgs) \ OpeningRows :
        founder[o] # SuperUser => founder[o] \in present /\ role[<<founder[o], o>>] = "owner"

\* Of two requests that add the same user, whatever their order, the first
\* one to commit decides the role: no request changes or takes away a role.
RolesNeverChange ==
    [][\A u \in Users, o \in OrgIds : role[<<u, o>>] # "none" => role'[<<u, o>>] = role[<<u, o>>]]_vars

\* What the request path takes for granted between two awaits (and Proxy in its
\* constants): no request takes a row away, hangs a workspace, project or key
\* under another one, or gives a revoked key back.
RowsStayInPlace ==
    [][/\ \A x \in present : x \in present' /\ (x \in DOMAIN parent => parent'[x] = parent[x])
       /\ revoked \subseteq revoked']_vars
=============================================================================
