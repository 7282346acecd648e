---------------------------- MODULE ManageProofs ----------------------------
(***************************************************************************)
(* The management API for any number of requests, users, organizations and *)
(* rows: who may change what, what the activity log says, and who owns an  *)
(* organization.  The argument rests on what a step never does (Grows): it *)
(* takes no row away, moves none, and changes no role.  A role or a place  *)
(* in the tree that a handler has read is therefore still true when its    *)
(* change is committed, awaits later.                                      *)
(***************************************************************************)
EXTENDS Manage, TLAPS

\* What a step never takes back.
Grows ==
    /\ present \subseteq present'
    /\ \A x \in present \cap (Workspaces \cup Projects \cup Keys) : parent'[x] = parent[x]
    /\ \A u \in Users, o \in OrgIds : role[<<u, o>>] # "none" => role'[<<u, o>>] = role[<<u, o>>]

\* A handler on its way through a request.
\* It is at a stage that its route has, and acts on a row of the kind its
\* route names.
RouteOK(h) ==
    /\ stage[h] \in {"load", "role"} => job[h].action \in Scoped
    /\ stage[h] = "load" => job[h].action \notin OrgRoutes
    /\ stage[h] = "superuser" => job[h].action \in SuperUserRoutes
    /\ stage[h] = "insert" => job[h].action = "model.enable"

TargetOK(h) ==
    stage[h] # "idle" =>
        /\ job[h].action \in OrgRoutes => job[h].on \in (present \cap Orgs) \cup {Missing}
        /\ job[h].action \in WorkspaceRoutes => job[h].on \in Workspaces \cup {Missing}
        /\ job[h].action \in ProjectRoutes => job[h].on \in Projects \cup {Missing}
        /\ job[h].action \in KeyRoutes => job[h].on \in Keys \cup {Missing}
        /\ job[h].action \in SuperUserRoutes \cup {"member.add"} => job[h].whom \in Users

\* The organization it has loaded is the one its target belongs to.
OrgLoaded(h) ==
    stage[h] \in {"role", "commit", "insert"} =>
        /\ job[h].action \in OrgRoutes => job[h].org = job[h].on
        /\ job[h].action \in Scoped \ OrgRoutes =>
              job[h].on \in present /\ job[h].org = OrgOf(job[h].on)

\* Past the check of its role, it has that role.
Allowed(h) ==
    stage[h] \in {"commit", "insert"} =>
        /\ job[h].action \in Scoped => MayManage(job[h].actor, job[h].org)
        /\ job[h].action \in SuperUserRoutes => job[h].actor = SuperUser

\* The activity row it is about to write is of a committed change.
EntryOK(h) == stage[h] = "record" => entry[h] \in changes

JobOK(h) == RouteOK(h) /\ TargetOK(h) /\ OrgLoaded(h) /\ Allowed(h) /\ EntryOK(h)

JobInv == \A h \in Handlers : JobOK(h)

\* Only users there are have roles, in organizations there are.
RolesInv == \A u \in Users, o \in OrgIds : role[<<u, o>>] # "none" => {u, o} \subseteq present

IInv == TypeOK /\ JobInv /\ RolesInv

-----------------------------------------------------------------------------
(* Ranks, and the tree.                                                    *)

\* admin is what admins and owners are.
LEMMA AdminRank ==
    ASSUME NEW r \in Roles \cup {"none"}
    PROVE  RoleAtLeast(r, "admin") <=> r \in {"admin", "owner"}
BY DEF RoleAtLeast, Rank, Roles

\* Rows of the tree lead to an organization that is there, or to none.
LEMMA OrgOfType ==
    ASSUME TypeOK, NEW x \in present, x \notin Users
    PROVE  OrgOf(x) \in (present \cap Orgs) \cup {NoOrg}
<1>1. CASE x \in Orgs
  BY <1>1, ManageAssumption DEF OrgOf
<1>2. CASE x \in Workspaces
  BY <1>2, ManageAssumption DEF OrgOf, TypeOK
<1>3. CASE x \in Projects
  BY <1>3, ManageAssumption DEF OrgOf, TypeOK
<1>4. CASE x \in Keys
  <2>1. parent[x] \in present \cap Projects
    BY <1>4 DEF TypeOK
  <2>2. parent[parent[x]] \in present \cap Workspaces
    BY <2>1 DEF TypeOK
  <2>3. OrgOf(x) = parent[parent[parent[x]]]
    BY <1>4, ManageAssumption DEF OrgOf
  <2> QED BY <2>2, <2>3 DEF TypeOK
<1> QED BY <1>1, <1>2, <1>3, <1>4 DEF TypeOK, Rows

\* ... and a step that only lets the tree grow leaves them where they are.
LEMMA OrgOfStable ==
    ASSUME TypeOK, Grows, NEW x \in present, x \notin Users
    PROVE  OrgOf(x)' = OrgOf(x)
<1>1. CASE x \in Orgs
  BY <1>1 DEF OrgOf
<1>2. CASE x \in Workspaces
  BY <1>2, ManageAssumption DEF OrgOf, TypeOK, Grows
<1>3. CASE x \in Projects
  <2>1. parent[x] \in present \cap Workspaces
    BY <1>3 DEF TypeOK
  <2>2. OrgOf(x) = parent[parent[x]] /\ OrgOf(x)' = parent'[parent'[x]]
    BY <1>3, ManageAssumption DEF OrgOf
  <2> QED BY <1>3, <2>1, <2>2 DEF Grows
<1>4. CASE x \in Keys
  <2>1. parent[x] \in present \cap Projects
    BY <1>4 DEF TypeOK
  <2>2. parent[parent[x]] \in present \cap Workspaces
    BY <2>1 DEF TypeOK
  <2>3. OrgOf(x) = parent[parent[parent[x]]] /\ OrgOf(x)' = parent'[parent'[parent'[x]]]
    BY <1>4, ManageAssumption DEF OrgOf
  <2> QED BY <1>4, <2>1, <2>2, <2>3 DEF Grows
<1> QED BY <1>1, <1>2, <1>3, <1>4 DEF TypeOK, Rows

\* A role that suffices goes on to suffice.
LEMMA MayManageStable ==
    ASSUME TypeOK, Grows, NEW a \in Users \cup {SuperUser}, NEW o \in OrgIds, MayManage(a, o)
    PROVE  MayManage(a, o)'
<1>1. CASE a = SuperUser
  BY <1>1 DEF MayManage
<1>2. CASE a # SuperUser
  <2>1. role[<<a, o>>] \in {"admin", "owner"}
    BY <1>2, AdminRank DEF MayManage, TypeOK
  <2>2. role'[<<a, o>>] = role[<<a, o>>]
    BY <1>2, <2>1 DEF Grows
  <2> QED BY <1>2, <2>1, <2>2 DEF MayManage
<1> QED BY <1>1, <1>2

\* A handler that a step of another one leaves alone stays in order.
LEMMA JobQuiet ==
    ASSUME TypeOK, Grows, changes \subseteq changes', NEW h \in Handlers, JobOK(h),
           stage'[h] = stage[h], job'[h] = job[h], entry'[h] = entry[h]
    PROVE  JobOK(h)'
<1>1. job[h] \in Jobs
  BY DEF TypeOK
<1>2. RouteOK(h)' /\ EntryOK(h)'
  BY DEF JobOK, RouteOK, EntryOK
<1>3. TargetOK(h)'
  BY DEF JobOK, TargetOK, Grows
<1>4. OrgLoaded(h)'
  <2>1. ASSUME stage[h] \in {"role", "commit", "insert"}, job[h].action \in Scoped \ OrgRoutes
        PROVE  job[h].on \in present' /\ job[h].org = OrgOf(job[h].on)'
    <3>1. job[h].on \in present /\ job[h].org = OrgOf(job[h].on)
      BY <2>1 DEF JobOK, OrgLoaded
    <3>2. job[h].on \notin Users
      BY <2>1, <3>1, ManageAssumption
      DEF JobOK, TargetOK, TypeOK, Rows, Scoped, OrgRoutes, WorkspaceRoutes, ProjectRoutes, KeyRoutes
    <3>3. OrgOf(job[h].on)' = OrgOf(job[h].on)
      BY <3>1, <3>2, OrgOfStable
    <3> QED BY <3>1, <3>3 DEF Grows
  <2> QED BY <2>1 DEF JobOK, OrgLoaded, OrgOf
<1>5. Allowed(h)'
  <2>1. job[h].actor \in Users \cup {SuperUser} /\ job[h].org \in OrgIds
    BY <1>1 DEF Jobs
  <2>2. MayManage(job[h].actor, job[h].org) => MayManage(job[h].actor, job[h].org)'
    BY <2>1, MayManageStable
  <2> QED BY <2>2 DEF JobOK, Allowed, MayManage
<1> QED BY <1>2, <1>3, <1>4, <1>5 DEF JobOK

-----------------------------------------------------------------------------
(* Steps.                                                                  *)

\* IInv holds at the start.
LEMMA IInvInit == Init => IInv
<1> SUFFICES ASSUME Init PROVE IInv
  OBVIOUS
<1>1. NoJob \in Jobs /\ NoEntry \in Entries
  BY ManageAssumption DEF NoJob, Jobs, NoEntry, Entries, Actions, OrgIds, Roles
<1>2. TypeOK
  BY <1>1, ManageAssumption DEF Init, TypeOK
<1>3. JobInv
  BY DEF Init, JobInv, JobOK, RouteOK, TargetOK, OrgLoaded, Allowed, EntryOK
<1>4. RolesInv
  BY ManageAssumption DEF Init, RolesInv
<1> QED BY <1>2, <1>3, <1>4 DEF IInv

\* A step of handler h that keeps the rows' types and leaves h in order keeps
\* everything in order.
LEMMA OneHandler ==
    ASSUME IInv, NEW h \in Handlers, TypeOK', Grows, RolesInv', changes \subseteq changes',
           JobOK(h)',
           \A g \in Handlers \ {h} :
               stage'[g] = stage[g] /\ job'[g] = job[g] /\ entry'[g] = entry[g]
    PROVE  IInv'
<1>1. ASSUME NEW g \in Handlers \ {h} PROVE JobOK(g)'
  BY <1>1, JobQuiet DEF IInv, JobInv
<1> QED BY <1>1 DEF IInv, JobInv

\* Nothing is asked of an idle handler.
LEMMA IdleOK == ASSUME NEW h, stage'[h] = "idle" PROVE JobOK(h)'
BY DEF JobOK, RouteOK, TargetOK, OrgLoaded, Allowed, EntryOK

\* Steps that leave the database alone.
LEMMA SameRows ==
    ASSUME TypeOK, RolesInv, UNCHANGED database
    PROVE  Grows /\ RolesInv'
BY DEF database, Grows, RolesInv

\* Arrivals.
LEMMA ArriveStep == ASSUME IInv, NEW h \in Handlers, Arrive(h) PROVE IInv'
<1> USE DEF IInv
<1>0. PICK actor \in sessions \cup {SuperUser}, a \in Actions :
        /\ \E on \in Targets(a), whom \in Named(a),
              r \in (IF a = "member.add" THEN Roles ELSE {NoJob.role}),
              m \in (IF a \in ProjectRoutes \ {"key.create"} THEN Models ELSE {NoJob.model}) :
              job' = [job EXCEPT ![h] =
                       [actor |-> actor, action |-> a, on |-> on, whom |-> whom,
                        org |-> IF a \in OrgRoutes THEN on ELSE NoOrg,
                        role |-> r, model |-> m]]
        /\ GoTo(h, FirstStage(a))
  BY Zenon DEF Arrive
<1>1. PICK on \in Targets(a), whom \in Named(a),
           r \in (IF a = "member.add" THEN Roles ELSE {NoJob.role}),
           m \in (IF a \in ProjectRoutes \ {"key.create"} THEN Models ELSE {NoJob.model}) :
        job' = [job EXCEPT ![h] =
                 [actor |-> actor, action |-> a, on |-> on, whom |-> whom,
                  org |-> IF a \in OrgRoutes THEN on ELSE NoOrg,
                  role |-> r, model |-> m]]
  BY <1>0
<1>a. r \in Roles /\ m \in Models
  <2>1. NoJob.role \in Roles /\ NoJob.model \in Models
    BY ManageAssumption DEF NoJob, Roles
  <2> QED BY <2>1
<1>2. /\ UNCHANGED <<database, log, entry, changes, founder, lost, faults>>
      /\ requests' \in 0..MaxRequests
  BY ManageAssumption DEF Arrive, TypeOK
<1>3. /\ on \in present \cup {Missing}
      /\ a \in OrgRoutes => on \in (present \cap Orgs) \cup {Missing}
      /\ a \in WorkspaceRoutes => on \in Workspaces \cup {Missing}
      /\ a \in ProjectRoutes => on \in Projects \cup {Missing}
      /\ a \in KeyRoutes => on \in Keys \cup {Missing}
  BY <1>1 DEF Targets, OrgRoutes, WorkspaceRoutes, ProjectRoutes, KeyRoutes
<1>4. /\ whom \in Users \cup {Missing}
      /\ a \in SuperUserRoutes \cup {"member.add"} => whom \in Users
  BY <1>1 DEF Named, SuperUserRoutes
<1>5. /\ FirstStage(a) \in {"load", "role", "superuser", "commit"}
      /\ FirstStage(a) = "load" => a \in Scoped \ OrgRoutes
      /\ FirstStage(a) = "role" => a \in OrgRoutes
      /\ FirstStage(a) = "superuser" => a \in SuperUserRoutes
      /\ FirstStage(a) = "commit" => a \notin Scoped \cup SuperUserRoutes
  BY <1>1 DEF FirstStage, Actions, Scoped, OrgRoutes, WorkspaceRoutes, ProjectRoutes, KeyRoutes,
     SuperUserRoutes
<1>6. /\ job'[h] \in Jobs
      /\ job'[h].actor = actor /\ job'[h].action = a /\ job'[h].on = on /\ job'[h].whom = whom
      /\ job'[h].org = IF a \in OrgRoutes THEN on ELSE NoOrg
      /\ stage'[h] = FirstStage(a)
      /\ \A g \in Handlers \ {h} :
            stage'[g] = stage[g] /\ job'[g] = job[g] /\ entry'[g] = entry[g]
  <2>1. actor \in Users \cup {SuperUser} /\ on \in Rows \cup {Missing}
    BY <1>3 DEF TypeOK
  <2>2. (IF a \in OrgRoutes THEN on ELSE NoOrg) \in OrgIds
    BY <1>3 DEF OrgIds
  <2>3. [actor |-> actor, action |-> a, on |-> on, whom |-> whom,
         org |-> IF a \in OrgRoutes THEN on ELSE NoOrg, role |-> r, model |-> m] \in Jobs
    BY <1>a, <1>4, <2>1, <2>2 DEF Jobs
  <2> QED BY <1>0, <1>1, <1>2, <2>3 DEF TypeOK, GoTo
<1>7. TypeOK'
  BY <1>0, <1>1, <1>2, <1>5, <1>6 DEF TypeOK, GoTo, database
<1>8. JobOK(h)'
  BY <1>2, <1>3, <1>4, <1>5, <1>6
  DEF JobOK, RouteOK, TargetOK, OrgLoaded, Allowed, EntryOK, database, Scoped, OrgRoutes, WorkspaceRoutes, ProjectRoutes, KeyRoutes, SuperUserRoutes
<1> QED BY <1>2, <1>6, <1>7, <1>8, SameRows, OneHandler

\* Answers without a change: refusals, failures, and the row of the log.
LEMMA AnswerStep ==
    ASSUME IInv, NEW h \in Handlers, Answer(h), UNCHANGED database,
           changes' = changes, founder' = founder,
           requests' = requests, faults' \in 0..MaxFaults
    PROVE  IInv'
<1> USE DEF IInv
<1>1. NoJob \in Jobs /\ NoEntry \in Entries
  BY ManageAssumption DEF NoJob, Jobs, NoEntry, Entries, Actions, OrgIds, Roles
<1>2. TypeOK'
  BY <1>1 DEF TypeOK, Answer, database
<1>3. /\ stage'[h] = "idle"
      /\ \A g \in Handlers \ {h} :
            stage'[g] = stage[g] /\ job'[g] = job[g] /\ entry'[g] = entry[g]
  BY DEF Answer, TypeOK
<1> QED BY <1>2, <1>3, IdleOK, SameRows, OneHandler

\* The two stages before the commit, and the look at the allowlist.
LEMMA CheckStep ==
    ASSUME IInv, NEW h \in Handlers, Load(h) \/ CheckRole(h) \/ LookForModel(h)
    PROVE  IInv'
<1> USE DEF IInv
<1>0. JobOK(h) /\ job[h] \in Jobs
  BY DEF JobInv, TypeOK
<1>1. CASE Load(h)
  <2>1. /\ stage[h] = "load" /\ job[h].on \in present
        /\ job[h].action \in Scoped \ OrgRoutes
    BY <1>0, <1>1 DEF Load, Refused, JobOK, RouteOK
  <2>2. job[h].on \notin Users
    BY <1>0, <2>1, ManageAssumption
    DEF JobOK, TargetOK, TypeOK, Rows, Scoped, OrgRoutes, WorkspaceRoutes, ProjectRoutes, KeyRoutes
  <2>3. OrgOf(job[h].on) \in OrgIds
    BY <2>1, <2>2, OrgOfType DEF OrgIds
  <2>4. /\ job'[h] \in Jobs
        /\ job'[h].actor = job[h].actor /\ job'[h].action = job[h].action
        /\ job'[h].on = job[h].on /\ job'[h].whom = job[h].whom
        /\ job'[h].org = OrgOf(job[h].on)
        /\ stage'[h] = "role"
        /\ \A g \in Handlers \ {h} : stage'[g] = stage[g] /\ job'[g] = job[g]
        /\ UNCHANGED <<database, log, entry, changes, founder, lost, bounds>>
    <3>1. [job[h] EXCEPT !.org = OrgOf(job[h].on)] \in Jobs
      BY <1>0, <2>3 DEF Jobs
    <3>2. job' = [job EXCEPT ![h] = [job[h] EXCEPT !.org = OrgOf(job[h].on)]]
      BY <1>1 DEF Load
    <3>3. job'[h] = [job[h] EXCEPT !.org = OrgOf(job[h].on)]
      BY <3>2 DEF TypeOK
    <3>4. \A g \in Handlers \ {h} : job'[g] = job[g]
      BY <3>2 DEF TypeOK
    <3>5. /\ stage' = [stage EXCEPT ![h] = "role"]
          /\ UNCHANGED <<database, log, entry, changes, founder, lost, bounds>>
      BY <1>1 DEF Load, GoTo
    <3> HIDE DEF IInv
    <3>6. stage'[h] = "role" /\ \A g \in Handlers \ {h} : stage'[g] = stage[g]
      BY <3>5 DEF IInv, TypeOK
    <3>7. /\ job'[h].actor = job[h].actor /\ job'[h].action = job[h].action
          /\ job'[h].on = job[h].on /\ job'[h].whom = job[h].whom
          /\ job'[h].org = OrgOf(job[h].on)
      BY <1>0, <3>3 DEF Jobs
    <3> QED BY <3>1, <3>3, <3>4, <3>5, <3>6, <3>7
  <2>5. TypeOK'
    <3>1. job' \in [Handlers -> Jobs]
      BY <1>1, <2>4 DEF TypeOK, Load
    <3>2. stage' \in [Handlers -> {"idle", "load", "role", "superuser", "commit", "insert", "record"}]
      BY <1>1 DEF TypeOK, Load, GoTo
    <3> QED BY <2>4, <3>1, <3>2 DEF TypeOK, database, bounds
  <2>6. JobOK(h)'
    <3>1. OrgOf(job[h].on)' = OrgOf(job[h].on)
      BY <2>4 DEF OrgOf, database
    <3>2. present' = present /\ stage'[h] = "role" /\ stage[h] # "idle"
      BY <2>1, <2>4 DEF database
    <3>3. RouteOK(h)' /\ Allowed(h)' /\ EntryOK(h)'
      BY <2>1, <2>4 DEF RouteOK, Allowed, EntryOK
    <3>4. TargetOK(h)'
      BY <1>0, <2>4, <3>2 DEF JobOK, TargetOK
    <3>5. OrgLoaded(h)'
      BY <2>1, <2>4, <3>1, <3>2 DEF OrgLoaded, OrgOf
    <3> QED BY <3>3, <3>4, <3>5 DEF JobOK
  <2> QED BY <2>4, <2>5, <2>6, SameRows, OneHandler
<1>2. CASE CheckRole(h) \/ LookForModel(h)
  <2>1. /\ stage'[h] \in {"commit", "insert"}
        /\ stage' = [stage EXCEPT ![h] = stage'[h]]
        /\ UNCHANGED <<database, log, job, entry, changes, founder, lost, bounds>>
    BY <1>2 DEF CheckRole, LookForModel, GoTo, TypeOK
  <2>2. TypeOK'
    BY <2>1 DEF TypeOK, database, bounds
  <2>3. /\ stage[h] \in {"role", "superuser", "commit"}
        /\ stage'[h] = "insert" => job[h].action = "model.enable" /\ stage[h] = "commit"
        /\ stage[h] = "role" => MayManage(job[h].actor, job[h].org) /\ job[h].action \in Scoped
        /\ stage[h] = "superuser" =>
              job[h].actor = SuperUser /\ job[h].action \in SuperUserRoutes
    BY <1>0, <1>2, <2>1 DEF CheckRole, LookForModel, At, Refused, JobOK, RouteOK, GoTo, TypeOK
  <2>4. JobOK(h)'
    <3>1. RouteOK(h)' /\ EntryOK(h)'
      BY <2>1, <2>3 DEF RouteOK, EntryOK
    <3>2. TargetOK(h)'
      BY <1>0, <2>1, <2>3 DEF JobOK, TargetOK, database
    <3>3. OrgLoaded(h)'
      <4>1. job[h].action \in Scoped => stage[h] \in {"role", "commit"}
        BY <2>3 DEF Scoped, SuperUserRoutes, OrgRoutes, WorkspaceRoutes, ProjectRoutes, KeyRoutes
      <4>2. job'[h] = job[h] /\ present' = present /\ OrgOf(job[h].on)' = OrgOf(job[h].on)
        BY <2>1 DEF database, OrgOf
      <4> QED BY <1>0, <4>1, <4>2 DEF JobOK, OrgLoaded, OrgOf, Scoped
    <3>4. Allowed(h)'
      <4>1. job'[h] = job[h] /\ role' = role
        BY <2>1 DEF database
      <4>2. Scoped \cap SuperUserRoutes = {}
        BY DEF Scoped, SuperUserRoutes, OrgRoutes, WorkspaceRoutes, ProjectRoutes, KeyRoutes
      <4> QED BY <1>0, <2>1, <2>3, <4>1, <4>2 DEF JobOK, Allowed, MayManage
    <3> QED BY <3>1, <3>2, <3>3, <3>4 DEF JobOK
  <2> QED BY <2>1, <2>2, <2>4, SameRows, OneHandler DEF TypeOK
<1> QED BY <1>1, <1>2

-----------------------------------------------------------------------------
(* Commits.                                                                *)

\* What the rows and the founders are, apart from the handlers that work on them.
RowsOK ==
    /\ present \subseteq Rows
    /\ parent \in [Workspaces \cup Projects \cup Keys -> Rows \cup {NoOrg, Missing}]
    /\ \A w \in present \cap Workspaces : parent[w] \in (present \cap Orgs) \cup {NoOrg}
    /\ \A p \in present \cap Projects : parent[p] \in present \cap Workspaces
    /\ \A k \in present \cap Keys : parent[k] \in present \cap Projects
    /\ role \in [Users \X OrgIds -> Roles \cup {"none"}]
    /\ sessions \subseteq present \cap Users
    /\ allowlist \subseteq (present \cap Projects) \X Models
    /\ revoked \subseteq present \cap Keys
    /\ founder \in [Orgs -> Users \cup {SuperUser, Missing}]

\* Whom an organization was created for owns it; or it was for nobody.
Owned(o) == founder[o] # SuperUser => founder[o] \in present /\ role[<<founder[o], o>>] = "owner"

\* Handler h commits a change that it may make to x, and records it under the
\* organization of x.
Lawful(h, x, org) ==
    /\ Commit(h, x, org)
    /\ stage[h] \in {"commit", "insert"}
    /\ org \in OrgIds
    /\ job[h].action \in Scoped => MayManage(job[h].actor, org)
    /\ job[h].action \in SuperUserRoutes => job[h].actor = SuperUser
    /\ job[h].action \in Recorded =>
          org = IF job[h].action = "org.create" THEN x ELSE job[h].org

\* ... while the rows grow and new organizations have owners.
Effect(h, x, org) ==
    /\ Lawful(h, x, org)
    /\ RowsOK' /\ Grows /\ RolesInv'
    /\ \A o \in (present' \ present) \cap Orgs : Owned(o)'
    /\ \A o \in present \cap Orgs : founder'[o] = founder[o]

\* Only a new organization gets a founder.
LEMMA FounderStays ==
    ASSUME IInv, NEW h \in Handlers, NEW x, NEW org, Commit(h, x, org),
           job[h].action # "org.create"
    PROVE  founder' = founder /\ founder' \in [Orgs -> Users \cup {SuperUser, Missing}]
BY DEF Commit, IInv, TypeOK

\* A handler at its commit has a target that is there, in the organization it
\* was checked for.
LEMMA AtCommit ==
    ASSUME IInv, NEW h \in Handlers, stage[h] \in {"commit", "insert"}, ~Refused(h),
           job[h].action \in Scoped
    PROVE  /\ job[h] \in Jobs /\ job[h].org \in OrgIds
           /\ MayManage(job[h].actor, job[h].org)
           /\ job[h].action \in OrgRoutes =>
                 job[h].org \in present \cap Orgs /\ job[h].on = job[h].org
           /\ job[h].action \in Scoped \ OrgRoutes =>
                 job[h].on \in present /\ job[h].org = OrgOf(job[h].on)
           /\ job[h].action \in WorkspaceRoutes => job[h].on \in present \cap Workspaces
           /\ job[h].action \in ProjectRoutes => job[h].on \in present \cap Projects
           /\ job[h].action \in KeyRoutes => job[h].on \in present \cap Keys
<1>1. JobOK(h) /\ job[h] \in Jobs /\ job[h].org \in OrgIds
  BY DEF IInv, JobInv, TypeOK, Jobs
<1>2. Missing \notin present
  BY ManageAssumption DEF IInv, TypeOK
<1>3. job[h].action \in OrgRoutes => job[h].on # Missing /\ job[h].org = job[h].on
  <2>1. job[h].action \in OrgRoutes => job[h].org = job[h].on
    BY <1>1 DEF JobOK, OrgLoaded
  <2>2. job[h].action \in OrgRoutes => stage[h] = "commit"
    BY <1>1 DEF JobOK, RouteOK, OrgRoutes
  <2> QED BY <2>1, <2>2 DEF Refused, OrgRoutes
<1>4. job[h].action \in Scoped \ OrgRoutes =>
         job[h].on \in present /\ job[h].org = OrgOf(job[h].on)
  BY <1>1 DEF JobOK, OrgLoaded
<1>5. Scoped \ OrgRoutes = WorkspaceRoutes \cup ProjectRoutes \cup KeyRoutes
  BY DEF Scoped, OrgRoutes, WorkspaceRoutes, ProjectRoutes, KeyRoutes
<1>6. MayManage(job[h].actor, job[h].org)
  BY <1>1 DEF JobOK, Allowed
<1>7. /\ job[h].action \in OrgRoutes => job[h].on \in (present \cap Orgs) \cup {Missing}
      /\ job[h].action \in WorkspaceRoutes => job[h].on \in Workspaces \cup {Missing}
      /\ job[h].action \in ProjectRoutes => job[h].on \in Projects \cup {Missing}
      /\ job[h].action \in KeyRoutes => job[h].on \in Keys \cup {Missing}
  BY <1>1 DEF JobOK, TargetOK
<1> QED BY <1>1, <1>2, <1>3, <1>4, <1>5, <1>6, <1>7

\* New workspaces, projects and keys.
LEMMA InsertEffect ==
    ASSUME IInv, NEW h \in Handlers, stage[h] = "commit", ~Refused(h),
           NEW x \in Rows \ present, Insert(h, x, job[h].on),
           \/ x \in Workspaces /\ job[h].action = "workspace.create"
           \/ x \in Projects /\ job[h].action = "project.create"
           \/ x \in Keys /\ job[h].action = "key.create"
    PROVE  Effect(h, x, OrgOf(job[h].on))
<1> DEFINE up == job[h].on
<1>1. /\ job[h].action \in Scoped
      /\ job[h].action \notin SuperUserRoutes /\ job[h].action # "org.create"
  BY DEF Scoped, OrgRoutes, WorkspaceRoutes, ProjectRoutes, KeyRoutes, SuperUserRoutes
<1>2. /\ x \in Workspaces => up \in present \cap Orgs
      /\ x \in Projects => up \in present \cap Workspaces
      /\ x \in Keys => up \in present \cap Projects
  BY <1>1, AtCommit, ManageAssumption DEF OrgRoutes, WorkspaceRoutes, ProjectRoutes
<1>3. OrgOf(up) = job[h].org
  <2>1. CASE job[h].action = "workspace.create"
    BY <1>1, <2>1, AtCommit, ManageAssumption DEF OrgOf, OrgRoutes
  <2>2. CASE job[h].action # "workspace.create"
    BY <1>1, <2>2, AtCommit DEF OrgRoutes
  <2> QED BY <2>1, <2>2
<1>4. Lawful(h, x, OrgOf(up))
  BY <1>1, <1>3, AtCommit DEF Lawful, Insert
<1>5. /\ present' = present \cup {x}
      /\ parent' = [parent EXCEPT ![x] = up]
      /\ UNCHANGED <<role, sessions, allowlist, revoked>>
      /\ founder' = founder /\ founder' \in [Orgs -> Users \cup {SuperUser, Missing}]
  BY <1>1, FounderStays DEF Insert
<1>6. Grows /\ RolesInv'
  BY <1>5 DEF IInv, TypeOK, Grows, RolesInv
<1>7. RowsOK'
  <2>1. /\ parent'[x] = up /\ up \in Rows
        /\ \A y \in Workspaces \cup Projects \cup Keys : y # x => parent'[y] = parent[y]
        /\ parent' \in [Workspaces \cup Projects \cup Keys -> Rows \cup {NoOrg, Missing}]
    BY <1>2, <1>5 DEF IInv, TypeOK, Rows
  <2>2. \A w \in present' \cap Workspaces : parent'[w] \in (present' \cap Orgs) \cup {NoOrg}
    BY <1>2, <1>5, <2>1 DEF IInv, TypeOK
  <2>3. \A p \in present' \cap Projects : parent'[p] \in present' \cap Workspaces
    BY <1>2, <1>5, <2>1 DEF IInv, TypeOK
  <2>4. \A k \in present' \cap Keys : parent'[k] \in present' \cap Projects
    BY <1>2, <1>5, <2>1 DEF IInv, TypeOK
  <2>5. /\ present' \subseteq Rows /\ sessions' \subseteq present' \cap Users
        /\ allowlist' \subseteq (present' \cap Projects) \X Models
        /\ revoked' \subseteq present' \cap Keys
        /\ role' \in [Users \X OrgIds -> Roles \cup {"none"}]
    BY <1>5 DEF IInv, TypeOK
  <2> QED BY <1>5, <2>1, <2>2, <2>3, <2>4, <2>5 DEF RowsOK
<1>8. x \notin Orgs
  BY ManageAssumption
<1> QED BY <1>4, <1>5, <1>6, <1>7, <1>8 DEF Effect

\* Changes of a row that is there: a budget, a revoked key, the allowlist.
LEMMA TouchEffect ==
    ASSUME IInv, NEW h \in Handlers, stage[h] \in {"commit", "insert"}, ~Refused(h),
           job[h].action \in Scoped \ OrgRoutes,
           Commit(h, job[h].on, OrgOf(job[h].on)),
           UNCHANGED <<present, parent, role, sessions>>,
           allowlist' \subseteq (present \cap Projects) \X Models,
           revoked' \subseteq present \cap Keys
    PROVE  Effect(h, job[h].on, OrgOf(job[h].on))
<1>1. job[h].action \notin SuperUserRoutes /\ job[h].action # "org.create"
  BY DEF Scoped, OrgRoutes, WorkspaceRoutes, ProjectRoutes, KeyRoutes, SuperUserRoutes
<1>2. Lawful(h, job[h].on, OrgOf(job[h].on))
  BY <1>1, AtCommit DEF Lawful
<1>3. founder' = founder /\ founder' \in [Orgs -> Users \cup {SuperUser, Missing}]
  BY <1>1, FounderStays
<1>4. Grows /\ RolesInv' /\ RowsOK'
  BY <1>3 DEF IInv, TypeOK, RowsOK, Grows, RolesInv
<1> QED BY <1>2, <1>3, <1>4 DEF Effect

\* New users and sessions.
LEMMA UserEffect ==
    ASSUME IInv, NEW h \in Handlers, CreateUser(h) \/ CreateSession(h)
    PROVE  Effect(h, job[h].whom, NoOrg)
<1>1. /\ stage[h] = "commit" /\ ~Refused(h)
      /\ job[h].action \in SuperUserRoutes
      /\ job[h].action = "session.create" => job[h].whom \in present
      /\ Commit(h, job[h].whom, NoOrg)
  BY DEF CreateUser, CreateSession, At, SuperUserRoutes, Refused
<1>2. job[h].actor = SuperUser /\ job[h].whom \in Users
  BY <1>1 DEF IInv, JobInv, JobOK, Allowed, TargetOK
<1>3. job[h].action \notin Scoped \cup Recorded
  BY <1>1 DEF Scoped, OrgRoutes, WorkspaceRoutes, ProjectRoutes, KeyRoutes, SuperUserRoutes, Recorded
<1>4. Lawful(h, job[h].whom, NoOrg)
  BY <1>1, <1>2, <1>3 DEF Lawful, OrgIds
<1>5. /\ present \subseteq present' /\ present' \subseteq present \cup {job[h].whom}
      /\ sessions' \subseteq sessions \cup {job[h].whom} /\ sessions' \subseteq present'
      /\ UNCHANGED <<parent, role, allowlist, revoked>>
      /\ founder' = founder /\ founder' \in [Orgs -> Users \cup {SuperUser, Missing}]
  <2>1. job[h].action # "org.create"
    BY <1>1 DEF SuperUserRoutes
  <2>2. founder' = founder /\ founder' \in [Orgs -> Users \cup {SuperUser, Missing}]
    BY <1>1, <2>1, FounderStays
  <2> QED BY <1>1, <2>2 DEF IInv, TypeOK, CreateUser, CreateSession, At
<1>6. Grows /\ RolesInv'
  BY <1>5 DEF Grows, IInv, RolesInv
<1>7. RowsOK'
  <2>1. present' \cap (Orgs \cup Workspaces \cup Projects \cup Keys)
          = present \cap (Orgs \cup Workspaces \cup Projects \cup Keys)
    BY <1>2, <1>5, ManageAssumption
  <2>2. present' \subseteq Rows
    BY <1>2, <1>5 DEF IInv, TypeOK, Rows
  <2> QED BY <1>2, <1>5, <2>1, <2>2 DEF IInv, TypeOK, RowsOK
<1>8. (present' \ present) \cap Orgs = {}
  BY <1>2, <1>5, ManageAssumption
<1> QED BY <1>4, <1>5, <1>6, <1>7, <1>8 DEF Effect

\* New organizations.
LEMMA OrgEffect ==
    ASSUME IInv, NEW h \in Handlers, CreateOrg(h)
    PROVE  \E o \in Orgs : Effect(h, o, o)
<1> DEFINE S == OwnerOf(job[h])
<1>1. PICK o \in Orgs \ present :
        /\ present' = present \cup {o}
        /\ role' = [ur \in Users \X OrgIds |->
                      IF ur[1] \in S /\ ur[2] = o THEN "owner" ELSE role[ur]]
        /\ Commit(h, o, o)
  BY DEF CreateOrg, InsertOrg
<1>2. UNCHANGED <<parent, sessions, allowlist, revoked>>
  BY DEF CreateOrg, InsertOrg
<1>3. /\ stage[h] = "commit" /\ job[h].action = "org.create"
      /\ S \subseteq present /\ job[h] \in Jobs
  BY DEF CreateOrg, At, Refused, IInv, TypeOK
<1>4. /\ Founder(job[h]) \in Users \cup {SuperUser}
      /\ S = {Founder(job[h])} \ {SuperUser} /\ S \subseteq Users
  BY <1>3 DEF OwnerOf, Founder, Jobs
<1>f. /\ founder' \in [Orgs -> Users \cup {SuperUser, Missing}]
      /\ founder'[o] = Founder(job[h])
      /\ \A p \in Orgs \ {o} : founder'[p] = founder[p]
  BY <1>1, <1>3, <1>4 DEF Commit, IInv, TypeOK
<1> HIDE DEF S
<1>5. Lawful(h, o, o)
  BY <1>1, <1>3
  DEF Lawful, OrgIds, Scoped, OrgRoutes, WorkspaceRoutes, ProjectRoutes, KeyRoutes, SuperUserRoutes
<1>6. \A u \in Users, p \in OrgIds :
        role'[<<u, p>>] = IF u \in S /\ p = o THEN "owner" ELSE role[<<u, p>>]
  BY <1>1
<1>7. \A u \in Users : role[<<u, o>>] = "none"
  BY DEF IInv, RolesInv, OrgIds
<1>8. Grows /\ RolesInv'
  <2>1. Grows
    BY <1>1, <1>2, <1>6, <1>7 DEF Grows
  <2>2. RolesInv'
    BY <1>1, <1>3, <1>6 DEF IInv, RolesInv
  <2> QED BY <2>1, <2>2
<1>9. RowsOK'
  <2>1. role' \in [Users \X OrgIds -> Roles \cup {"none"}]
    BY <1>1 DEF IInv, TypeOK, Roles
  <2>2. o \in Rows /\ o \notin Workspaces /\ o \notin Projects /\ o \notin Keys
    BY ManageAssumption DEF Rows
  <2> QED BY <1>1, <1>2, <1>f, <2>1, <2>2 DEF IInv, TypeOK, RowsOK
<1>10. Owned(o)'
  <2> SUFFICES ASSUME Founder(job[h]) # SuperUser
               PROVE  Founder(job[h]) \in present' /\ role'[<<Founder(job[h]), o>>] = "owner"
    BY <1>f DEF Owned
  <2>1. Founder(job[h]) \in S
    BY <1>4
  <2> QED BY <1>1, <1>3, <1>4, <1>6, <2>1 DEF OrgIds
<1> QED BY <1>1, <1>5, <1>8, <1>9, <1>10, <1>f DEF Effect

\* New members.
LEMMA MemberEffect ==
    ASSUME IInv, NEW h \in Handlers, AddMember(h)
    PROVE  Effect(h, job[h].whom, job[h].org)
<1>1. /\ stage[h] = "commit" /\ ~Refused(h) /\ job[h].action = "member.add"
      /\ role' = [role EXCEPT ![<<job[h].whom, job[h].org>>] = job[h].role]
      /\ Commit(h, job[h].whom, job[h].org)
      /\ UNCHANGED <<present, parent, sessions, allowlist, revoked>>
  BY DEF AddMember, InsertMember, At
<1>2. /\ job[h].action \in OrgRoutes /\ job[h].action \in Scoped
      /\ job[h].action \notin SuperUserRoutes /\ job[h].action # "org.create"
  BY <1>1 DEF Scoped, OrgRoutes, SuperUserRoutes
<1>3. /\ job[h].org \in present /\ job[h].org \in OrgIds /\ job[h].role \in Roles
      /\ MayManage(job[h].actor, job[h].org)
  BY <1>1, <1>2, AtCommit DEF Jobs
<1>4. job[h].whom \in present \cap Users /\ role[<<job[h].whom, job[h].org>>] = "none"
  BY <1>1 DEF Refused, IInv, JobInv, JobOK, TargetOK
<1>5. Lawful(h, job[h].whom, job[h].org)
  BY <1>1, <1>2, <1>3 DEF Lawful
<1>6. \A u \in Users, o \in OrgIds :
        role'[<<u, o>>] = IF u = job[h].whom /\ o = job[h].org THEN job[h].role ELSE role[<<u, o>>]
  BY <1>1 DEF IInv, TypeOK
<1>7. Grows /\ RolesInv'
  BY <1>1, <1>3, <1>4, <1>6 DEF IInv, Grows, RolesInv
<1>8. founder' = founder /\ founder' \in [Orgs -> Users \cup {SuperUser, Missing}]
  BY <1>1, <1>2, FounderStays
<1>9. RowsOK'
  BY <1>1, <1>3, <1>8 DEF IInv, TypeOK, RowsOK
<1> QED BY <1>1, <1>5, <1>7, <1>8, <1>9 DEF Effect

\* Every route that commits does so lawfully.
LEMMA ActEffect ==
    ASSUME IInv, NEW h \in Handlers, Act(h), ~LookForModel(h)
    PROVE  \E x \in Rows, org \in OrgIds : Effect(h, x, org)
<1>1. CASE CreateUser(h) \/ CreateSession(h)
  <2>1. Effect(h, job[h].whom, NoOrg)
    BY <1>1, UserEffect
  <2>2. job[h].whom \in Rows
    BY <1>1 DEF CreateUser, CreateSession, At, SuperUserRoutes, IInv, JobInv, JobOK, TargetOK, Rows
  <2> QED BY <2>1, <2>2 DEF OrgIds
<1>2. CASE CreateOrg(h)
  BY <1>2, OrgEffect DEF Rows, OrgIds
<1>3. CASE AddMember(h)
  <2>1. Effect(h, job[h].whom, job[h].org)
    BY <1>3, MemberEffect
  <2>2. job[h].whom \in Rows
    BY <1>3 DEF AddMember, At, IInv, JobInv, JobOK, TargetOK, Rows
  <2> QED BY <2>1, <2>2 DEF Effect, Lawful
<1>4. CASE CreateWorkspace(h) \/ CreateProject(h) \/ CreateKey(h)
  <2>1. PICK x \in Rows \ present :
          /\ stage[h] = "commit" /\ ~Refused(h) /\ Insert(h, x, job[h].on)
          /\ \/ x \in Workspaces /\ job[h].action = "workspace.create"
             \/ x \in Projects /\ job[h].action = "project.create"
             \/ x \in Keys /\ job[h].action = "key.create"
    BY <1>4 DEF CreateWorkspace, CreateProject, CreateKey, At, Rows
  <2>2. Effect(h, x, OrgOf(job[h].on))
    BY <2>1, InsertEffect
  <2> QED BY <2>2 DEF Effect, Lawful
<1>5. CASE SetBudget(h) \/ RevokeKey(h) \/ EnableModel(h) \/ DisableModel(h)
  <2>1. /\ stage[h] \in {"commit", "insert"} /\ ~Refused(h)
        /\ Commit(h, job[h].on, OrgOf(job[h].on))
        /\ UNCHANGED <<present, parent, role, sessions>>
    BY <1>5 DEF SetBudget, RevokeKey, EnableModel, DisableModel, At, database
  <2>2. /\ SetBudget(h) => job[h].action = "budget.set"
        /\ RevokeKey(h) => job[h].action = "key.revoke"
        /\ EnableModel(h) => job[h].action = "model.enable"
        /\ DisableModel(h) => job[h].action = "model.disable"
    BY DEF SetBudget, RevokeKey, DisableModel, At, EnableModel, IInv, JobInv, JobOK, RouteOK
  <2>3. job[h].action \in Scoped \ OrgRoutes
    BY <1>5, <2>2 DEF Scoped, OrgRoutes, WorkspaceRoutes, ProjectRoutes, KeyRoutes
  <2>4. /\ job[h].action \in ProjectRoutes => job[h].on \in present \cap Projects
        /\ job[h].action \in KeyRoutes => job[h].on \in present \cap Keys
        /\ job[h].model \in Models /\ job[h].on \in present
    BY <2>1, <2>3, AtCommit DEF Jobs
  <2>5. /\ allowlist' \subseteq (present \cap Projects) \X Models
        /\ revoked' \subseteq present \cap Keys
    BY <1>5, <2>2, <2>4
    DEF SetBudget, RevokeKey, EnableModel, DisableModel, database, IInv, TypeOK, ProjectRoutes, KeyRoutes
  <2>6. Effect(h, job[h].on, OrgOf(job[h].on))
    BY <2>1, <2>3, <2>5, TouchEffect
  <2>7. job[h].on \in Rows
    BY <2>4 DEF IInv, TypeOK
  <2> QED BY <2>6, <2>7 DEF Effect, Lawful
<1> QED BY <1>1, <1>2, <1>3, <1>4, <1>5 DEF Act

\* A lawful commit keeps everything in order.
LEMMA EffectStep ==
    ASSUME IInv, NEW h \in Handlers, NEW x \in Rows, NEW org \in OrgIds, Effect(h, x, org)
    PROVE  IInv'
<1>0. JobOK(h) /\ job[h] \in Jobs /\ NoJob \in Jobs /\ NoEntry \in Entries
  BY ManageAssumption
  DEF IInv, JobInv, TypeOK, NoJob, Jobs, NoEntry, Entries, Actions, OrgIds, Roles
<1>1. /\ Commit(h, x, org) /\ RowsOK' /\ Grows /\ RolesInv'
      /\ stage[h] \in {"commit", "insert"}
  BY DEF Effect, Lawful
<1>2. /\ changes' = changes \cup {Change(h, x, org)}
      /\ UNCHANGED <<log, lost, bounds>>
  BY <1>1 DEF Commit
<1>a. /\ \A o \in OrgIds : Change(h, x, o) \in Entries
      /\ job[h].action \in Recorded =>
            (IF job[h].action = "org.create" THEN x ELSE job[h].org) \in OrgIds
  BY <1>0 DEF Change, Entries, Jobs, Effect, Lawful
<1>3. CASE job[h].action \in Recorded
  <2>1. /\ stage' = [stage EXCEPT ![h] = "record"]
        /\ entry' = [entry EXCEPT ![h] =
                       Change(h, x, IF job[h].action = "org.create" THEN x ELSE job[h].org)]
        /\ job' = job
    BY <1>1, <1>3 DEF Commit, GoTo
  <2>2. TypeOK'
    BY <1>1, <1>2, <1>3, <1>a, <2>1 DEF IInv, TypeOK, RowsOK, bounds
  <2>3. stage'[h] = "record" /\ job'[h] = job[h] /\ stage[h] # "idle"
    BY <1>1, <2>1 DEF IInv, TypeOK
  <2>4. TargetOK(h)'
    BY <1>0, <1>1, <2>3 DEF JobOK, TargetOK, Grows
  <2>5. EntryOK(h)'
    BY <1>2, <1>3, <2>1 DEF EntryOK, Effect, Lawful, IInv, TypeOK
  <2>6. JobOK(h)'
    BY <2>3, <2>4, <2>5 DEF JobOK, RouteOK, OrgLoaded, Allowed
  <2>7. \A g \in Handlers \ {h} :
          stage'[g] = stage[g] /\ job'[g] = job[g] /\ entry'[g] = entry[g]
    BY <2>1 DEF IInv, TypeOK
  <2> QED BY <1>1, <1>2, <2>2, <2>6, <2>7, OneHandler
<1>4. CASE job[h].action \notin Recorded
  <2>1. Answer(h)
    BY <1>1, <1>4 DEF Commit
  <2>2. TypeOK'
    BY <1>0, <1>1, <1>2, <1>a, <2>1 DEF IInv, TypeOK, RowsOK, bounds, Answer
  <2>3. /\ stage'[h] = "idle"
        /\ \A g \in Handlers \ {h} :
              stage'[g] = stage[g] /\ job'[g] = job[g] /\ entry'[g] = entry[g]
    BY <2>1 DEF Answer, IInv, TypeOK
  <2> QED BY <1>1, <1>2, <2>2, <2>3, IdleOK, OneHandler
<1> QED BY <1>3, <1>4

\* Every step preserves IInv, and takes nothing back.
LEMMA IInvStep == IInv /\ [Next]_vars => IInv' /\ Grows
<1> SUFFICES ASSUME IInv, [Next]_vars PROVE IInv' /\ Grows
  OBVIOUS
<1>0. TypeOK /\ RolesInv
  BY DEF IInv
<1>1. ASSUME NEW h \in Handlers, Arrive(h) PROVE IInv' /\ Grows
  BY <1>0, <1>1, ArriveStep, SameRows DEF Arrive
<1>2. ASSUME NEW h \in Handlers, Authorise(h) PROVE IInv' /\ Grows
  <2>1. CASE Load(h) \/ CheckRole(h)
    BY <1>0, <2>1, CheckStep, SameRows DEF Load, CheckRole
  <2>2. CASE Refuse(h)
    BY <1>0, <2>2, AnswerStep, SameRows DEF Refuse, TypeOK, bounds
  <2> QED BY <1>2, <2>1, <2>2 DEF Authorise
<1>3. ASSUME NEW h \in Handlers, Act(h) PROVE IInv' /\ Grows
  <2>1. CASE LookForModel(h)
    BY <1>0, <2>1, CheckStep, SameRows DEF LookForModel
  <2>2. CASE ~LookForModel(h)
    <3>1. PICK x \in Rows, org \in OrgIds : Effect(h, x, org)
      BY <1>3, <2>2, ActEffect
    <3> QED BY <3>1, EffectStep DEF Effect
  <2> QED BY <2>1, <2>2
<1>4. ASSUME NEW h \in Handlers, Record(h) PROVE IInv' /\ Grows
  BY <1>0, <1>4, AnswerStep, SameRows DEF Record, TypeOK, bounds
<1>5. ASSUME NEW h \in Handlers, Fail(h) PROVE IInv' /\ Grows
  <2>1. faults' \in 0..MaxFaults
    BY <1>0, <1>5, ManageAssumption DEF Fail, TypeOK
  <2> QED BY <1>0, <1>5, <2>1, AnswerStep, SameRows DEF Fail
<1>6. CASE UNCHANGED vars
  <2>1. Grows /\ RolesInv'
    BY <1>0, <1>6, SameRows DEF vars
  <2>2. TypeOK'
    BY <1>0, <1>6 DEF vars, database, bounds, TypeOK
  <2>3. ASSUME NEW h \in Handlers PROVE JobOK(h)'
    BY <1>0, <1>6, <2>1, JobQuiet DEF vars, IInv, JobInv
  <2> QED BY <2>1, <2>2, <2>3 DEF IInv, JobInv
<1> QED BY <1>1, <1>2, <1>3, <1>4, <1>5, <1>6 DEF Next

\* The rows and the handlers always have their types, and every row hangs
\* under a row that is there.
THEOREM TypeCorrect == Spec => []TypeOK
BY IInvInit, IInvStep, PTL DEF Spec, IInv

\* No request changes or takes away a role that another has given.
THEOREM RolesNeverChangeAlways == Spec => RolesNeverChange
<1>1. IInv /\ [Next]_vars =>
        [\A u \in Users, o \in OrgIds :
            role[<<u, o>>] # "none" => role'[<<u, o>>] = role[<<u, o>>]]_vars
  BY IInvStep DEF Grows
<1> QED BY <1>1, IInvInit, IInvStep, PTL DEF Spec, RolesNeverChange

\* A revocation is for good.
LEMMA RevocationsStay == [Next]_vars => revoked \subseteq revoked'
<1> SUFFICES ASSUME [Next]_vars, revoked' # revoked PROVE revoked \subseteq revoked'
  OBVIOUS
<1>1. PICK h \in Handlers : Act(h)
  BY DEF Next, vars, database, Arrive, Authorise, Load, CheckRole, Refuse, Record, Fail
<1>2. RevokeKey(h)
  BY <1>1 DEF Act, database, CreateUser, CreateSession, CreateOrg, InsertOrg, AddMember,
              InsertMember, CreateWorkspace, CreateProject, CreateKey, Insert, SetBudget,
              LookForModel, EnableModel, DisableModel
<1> QED BY <1>2 DEF RevokeKey

\* Rows stay where they are, and revoked keys stay revoked: with it the proxy's
\* handlers may read a key's project and a project's workspace once.
THEOREM RowsAlwaysStayInPlace == Spec => RowsStayInPlace
<1>1. IInv /\ [Next]_vars =>
        [/\ \A x \in present : x \in present' /\ (x \in DOMAIN parent => parent'[x] = parent[x])
         /\ revoked \subseteq revoked']_vars
  BY IInvStep, RevocationsStay DEF Grows, IInv, TypeOK
<1> QED BY <1>1, IInvInit, IInvStep, PTL DEF Spec, RowsStayInPlace

-----------------------------------------------------------------------------
(* What the changes and the activity log say.                              *)

History == ChangesAuthorised /\ ActivityTruthful /\ AuditGapExplained /\ OrgsAreOwned

\* Who was allowed to make a change still is, and owners still own, as long as
\* no change is added.
LEMMA AuthorityStays ==
    ASSUME IInv, Grows, ChangesAuthorised, NEW c \in changes
    PROVE  /\ c.action \in Scoped =>
                 c.actor = SuperUser \/ role'[<<c.actor, c.org>>] \in {"admin", "owner"}
           /\ c.action \in SuperUserRoutes => c.actor = SuperUser
<1>1. c.actor \in Users \cup {SuperUser} /\ c.org \in OrgIds
  BY DEF IInv, TypeOK, Entries
<1> QED BY <1>1 DEF ChangesAuthorised, Grows

LEMMA OwnersStay ==
    ASSUME IInv, Grows, OrgsAreOwned,
           \A o \in present \cap Orgs : founder'[o] = founder[o],
           \A o \in (present' \ present) \cap Orgs : Owned(o)'
    PROVE  OrgsAreOwned'
<1> SUFFICES ASSUME NEW o \in (present' \cap Orgs) \ OpeningRows PROVE Owned(o)'
  BY DEF OrgsAreOwned, Owned
<1>1. CASE o \notin present
  BY <1>1
<1>2. CASE o \in present
  <2>1. Owned(o) /\ founder'[o] = founder[o]
    BY <1>2 DEF OrgsAreOwned, Owned
  <2>2. CASE founder[o] = SuperUser
    BY <2>1, <2>2 DEF Owned
  <2>3. CASE founder[o] # SuperUser
    <3>1. founder[o] \in present /\ role[<<founder[o], o>>] = "owner"
      BY <2>1, <2>3 DEF Owned
    <3>2. founder[o] \in Users
      BY <2>3, <3>1, ManageAssumption DEF IInv, TypeOK
    <3> QED BY <2>1, <3>1, <3>2 DEF Owned, Grows, OrgIds
  <2> QED BY <2>2, <2>3
<1> QED BY <1>1, <1>2

\* A lawful commit adds an authorised change, and its handler records it.
LEMMA HistoryEffect ==
    ASSUME IInv, History, NEW h \in Handlers, NEW x \in Rows, NEW org \in OrgIds,
           Effect(h, x, org)
    PROVE  History'
<1> USE DEF History
<1>0. job[h] \in Jobs
  BY DEF IInv, TypeOK
<1>1. /\ changes' = changes \cup {Change(h, x, org)}
      /\ UNCHANGED <<log, lost>>
      /\ stage[h] \in {"commit", "insert"} /\ Grows
  BY DEF Effect, Lawful, Commit
<1>2. /\ Change(h, x, org).actor = job[h].actor /\ Change(h, x, org).action = job[h].action
      /\ Change(h, x, org).org = org
  BY DEF Change
<1>3. ChangesAuthorised'
  <2>1. job[h].action \in Scoped =>
          job[h].actor = SuperUser \/ role'[<<job[h].actor, org>>] \in {"admin", "owner"}
    <3>1. CASE job[h].action \in Scoped /\ job[h].actor # SuperUser
      <4>1. job[h].actor \in Users /\ RoleAtLeast(role[<<job[h].actor, org>>], "admin")
        BY <1>0, <3>1 DEF Effect, Lawful, MayManage, Jobs
      <4>2. role[<<job[h].actor, org>>] \in {"admin", "owner"}
        BY <4>1, AdminRank DEF IInv, TypeOK
      <4> QED BY <1>1, <4>1, <4>2 DEF Grows
    <3> QED BY <3>1
  <2>2. job[h].action \in SuperUserRoutes => job[h].actor = SuperUser
    BY DEF Effect, Lawful
  <2>3. ASSUME NEW c \in changes'
        PROVE  /\ c.action \in Scoped =>
                     c.actor = SuperUser \/ role'[<<c.actor, c.org>>] \in {"admin", "owner"}
               /\ c.action \in SuperUserRoutes => c.actor = SuperUser
    <3>1. CASE c \in changes
      BY <1>1, <3>1, AuthorityStays
    <3>2. CASE c = Change(h, x, org)
      BY <1>2, <2>1, <2>2, <3>2
    <3> QED BY <1>1, <3>1, <3>2
  <2> QED BY <2>3 DEF ChangesAuthorised
<1>4. ActivityTruthful'
  BY <1>1 DEF ActivityTruthful
<1>5. AuditGapExplained'
  <2> SUFFICES ASSUME NEW c \in changes', c.action \in Recorded
               PROVE  \/ c \in log' \cup lost'
                      \/ \E g \in Handlers : stage'[g] = "record" /\ entry'[g] = c
    BY DEF AuditGapExplained
  <2>1. \A g \in Handlers \ {h} : stage'[g] = stage[g] /\ entry'[g] = entry[g]
    BY DEF Effect, Lawful, Commit, GoTo, Answer, IInv, TypeOK
  <2>2. CASE c \in changes
    BY <1>1, <2>1, <2>2 DEF AuditGapExplained
  <2>3. CASE c = Change(h, x, org)
    <3>1. job[h].action \in Recorded
      BY <1>2, <2>3
    <3>2. /\ stage' = [stage EXCEPT ![h] = "record"]
          /\ entry' = [entry EXCEPT ![h] =
                         Change(h, x, IF job[h].action = "org.create" THEN x ELSE job[h].org)]
          /\ org = IF job[h].action = "org.create" THEN x ELSE job[h].org
      BY <3>1 DEF Effect, Lawful, Commit, GoTo
    <3>3. stage'[h] = "record" /\ entry'[h] = Change(h, x, org)
      BY <3>2 DEF IInv, TypeOK
    <3> QED BY <2>3, <3>3
  <2> QED BY <1>1, <2>2, <2>3
<1>6. OrgsAreOwned'
  BY <1>1, OwnersStay DEF Effect
<1> QED BY <1>3, <1>4, <1>5, <1>6

\* A step that commits no change keeps the history in order, if every change
\* on its way to the log stays on its way, gets there, or is lost.
LEMMA HistoryQuiet ==
    ASSUME IInv, History, UNCHANGED <<database, changes, founder>>,
           log \subseteq log', log' \subseteq changes, lost \subseteq lost',
           \A g \in Handlers : stage[g] = "record" =>
               \/ stage'[g] = "record" /\ entry'[g] = entry[g]
               \/ entry[g] \in log' \cup lost'
    PROVE  History'
<1> USE DEF History
<1>1. ChangesAuthorised' /\ OrgsAreOwned'
  BY DEF ChangesAuthorised, OrgsAreOwned, database
<1>2. ActivityTruthful'
  BY DEF ActivityTruthful
<1>3. AuditGapExplained'
  BY DEF AuditGapExplained
<1> QED BY <1>1, <1>2, <1>3

\* Every step keeps the history in order.
LEMMA HistoryStep == IInv /\ History /\ [Next]_vars => History'
<1> SUFFICES ASSUME IInv, History, [Next]_vars PROVE History'
  OBVIOUS
<1>0. TypeOK /\ log \subseteq changes
  BY DEF IInv, History, ActivityTruthful
<1> USE DEF GoTo, Answer
<1>1. ASSUME NEW h \in Handlers, Arrive(h) \/ Authorise(h) \/ LookForModel(h) PROVE History'
  <2>1. /\ stage[h] # "record" \/ Refuse(h)
        /\ UNCHANGED <<database, log, changes, founder, lost>>
        /\ \A g \in Handlers \ {h} : stage'[g] = stage[g] /\ entry'[g] = entry[g]
    BY <1>0, <1>1 DEF Arrive, Authorise, Load, CheckRole, Refuse, LookForModel, At, TypeOK
  <2>2. stage[h] # "record"
    BY <2>1 DEF Refuse, Refused
  <2> QED BY <1>0, <2>1, <2>2, HistoryQuiet
<1>2. ASSUME NEW h \in Handlers, Act(h), ~LookForModel(h) PROVE History'
  <2>1. PICK x \in Rows, org \in OrgIds : Effect(h, x, org)
    BY <1>2, ActEffect
  <2> QED BY <2>1, HistoryEffect
<1>3. ASSUME NEW h \in Handlers, Record(h) PROVE History'
  <2>1. /\ log' = log \cup {entry[h]} /\ entry[h] \in changes
        /\ UNCHANGED <<database, changes, founder, lost>>
        /\ \A g \in Handlers \ {h} : stage'[g] = stage[g] /\ entry'[g] = entry[g]
    BY <1>0, <1>3 DEF Record, TypeOK, IInv, JobInv, JobOK, EntryOK
  <2> QED BY <1>0, <2>1, HistoryQuiet
<1>4. ASSUME NEW h \in Handlers, Fail(h) PROVE History'
  <2>1. /\ lost \subseteq lost'
        /\ stage[h] = "record" => entry[h] \in lost'
        /\ UNCHANGED <<database, log, changes, founder>>
        /\ \A g \in Handlers \ {h} : stage'[g] = stage[g] /\ entry'[g] = entry[g]
    BY <1>0, <1>4 DEF Fail, TypeOK
  <2> QED BY <1>0, <2>1, HistoryQuiet
<1>5. CASE UNCHANGED vars
  BY <1>0, <1>5, HistoryQuiet DEF vars
<1> QED BY <1>1, <1>2, <1>3, <1>4, <1>5 DEF Next

LEMMA HistoryAlways == Spec => []History
<1>1. Init => History
  BY DEF Init, History, ChangesAuthorised, ActivityTruthful, AuditGapExplained, OrgsAreOwned
<1> QED BY <1>1, IInvInit, IInvStep, HistoryStep, PTL DEF Spec

\* Nobody changes anything in an organization without the role admin there.
THEOREM ChangesAlwaysAuthorised == Spec => []ChangesAuthorised
BY HistoryAlways, PTL DEF History

\* The activity log lists only what was committed, by whom and where it was.
THEOREM ActivityAlwaysTruthful == Spec => []ActivityTruthful
BY HistoryAlways, PTL DEF History

\* A recorded change misses its row only on the way to it, or for a failure.
THEOREM AuditGapAlwaysExplained == Spec => []AuditGapExplained
BY HistoryAlways, PTL DEF History

\* An organization made by or for a user is owned by that user.
THEOREM OrgsAreAlwaysOwned == Spec => []OrgsAreOwned
BY HistoryAlways, PTL DEF History
=============================================================================
