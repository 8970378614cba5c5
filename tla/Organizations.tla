--------------------------- MODULE Organizations ---------------------------
(***************************************************************************)
(* Users, the organization each request puts them in                       *)
(* (organizations/organizations.service.ts), and what a request may then   *)
(* reach: projects, and through them applications, deployments and          *)
(* environments.  ensureForUser runs at the start of nearly every request,  *)
(* the first ones create the user's organization, and nothing keeps two    *)
(* first requests apart.                                                   *)
(*                                                                         *)
(* The organization and its owner's membership are inserted in one         *)
(* transaction: their ids are drawn at the insert and seen at the commit,   *)
(* so a membership can appear with an id below one that is seen already.   *)
(* An organization goes by the id of its membership.                       *)
(*                                                                         *)
(* Environments stand for every row that hangs on an application and that  *)
(* a request checks for access before it reads or writes it.  met is a     *)
(* history variable: the users with two first requests at once.            *)
(***************************************************************************)
EXTENDS Naturals, FiniteSets, Sequences

CONSTANTS
  User,
  Project,            \* a project stands for its applications too
  Environment,
  Ensurer,            \* requests that can run at once
  NoUser, NoOrg,
  MaxOrgs             \* bound on the organizations

ASSUME NobodyAssumption == NoUser \notin User /\ NoOrg \notin Nat
ASSUME EnsurerAssumption == IsFiniteSet(Ensurer)

VARIABLES
  membership,   \* by id: the user, and whether the transaction has committed
  projects,     \* by project: the user that owns it, its organization
  environments, \* by environment: the project of its application, or none
  ensuring,     \* the running requests
  met

orgVars == <<membership, projects, environments, ensuring, met>>

NoProject == [owner |-> NoUser, org |-> NoOrg]
FreeEnsurer == [at |-> "free", user |-> NoUser, org |-> NoOrg]

\* Projects from before organizations have none.
OrganizationsInit ==
  /\ membership = <<>>
  /\ projects \in [Project -> {NoProject} \cup [owner : User, org : {NoOrg}]]
  /\ environments = [e \in Environment |-> {}]
  /\ ensuring = [r \in Ensurer |-> FreeEnsurer]
  /\ met = {}

-----------------------------------------------------------------------------
\* findFirst of the user's memberships by ascending id.
MembershipsOf(u) == {o \in DOMAIN membership : membership[o] = [user |-> u, committed |-> TRUE]}

Home(u) ==
  IF MembershipsOf(u) = {} THEN NoOrg
  ELSE CHOOSE o \in MembershipsOf(u) : \A p \in MembershipsOf(u) : o <= p

AtFirst(u) == {r \in Ensurer : ensuring[r].user = u
                                /\ ensuring[r].at \in {"create", "commit", "adopt"}}

\* MUTANT: only the memberships of organizations with projects are found.
EnsureFindUsed(r, u) ==
  /\ ensuring[r].at = "free"
  /\ LET found == \E p \in Project : projects[p].org # NoOrg /\ projects[p].org = Home(u)
     IN  ensuring' = [ensuring EXCEPT ![r] =
           [at |-> IF found THEN "acting" ELSE "create", user |-> u, org |-> Home(u)]]
  /\ met' = IF Home(u) = NoOrg /\ AtFirst(u) # {} THEN met \cup {u} ELSE met
  /\ UNCHANGED <<membership, projects, environments>>

EnsureFind(r, u) ==
  /\ ensuring[r].at = "free"
  /\ ensuring' = [ensuring EXCEPT ![r] =
       [at |-> IF Home(u) = NoOrg THEN "create" ELSE "acting", user |-> u, org |-> Home(u)]]
  /\ met' = IF Home(u) = NoOrg /\ AtFirst(u) # {} THEN met \cup {u} ELSE met
  /\ UNCHANGED <<membership, projects, environments>>

EnsureCreate(r) ==
  /\ ensuring[r].at = "create"
  /\ Len(membership) < MaxOrgs
  /\ membership' = Append(membership, [user |-> ensuring[r].user, committed |-> FALSE])
  /\ ensuring' = [ensuring EXCEPT ![r].at = "commit", ![r].org = Len(membership')]
  /\ UNCHANGED <<projects, environments, met>>

EnsureCommit(r) ==
  /\ ensuring[r].at = "commit"
  /\ membership' = [membership EXCEPT ![ensuring[r].org].committed = TRUE]
  /\ ensuring' = [ensuring EXCEPT ![r].at = "adopt"]
  /\ UNCHANGED <<projects, environments, met>>

\* MUTANT: the projects of every user are adopted.
AdoptAll(r) ==
  /\ ensuring[r].at = "adopt"
  /\ projects' = [p \in Project |->
       IF projects[p].owner # NoUser /\ projects[p].org = NoOrg
         THEN [projects[p] EXCEPT !.org = ensuring[r].org] ELSE projects[p]]
  /\ ensuring' = [ensuring EXCEPT ![r].at = "acting"]
  /\ UNCHANGED <<membership, environments, met>>

\* The preference row, then the user's projects that have no organization.
EnsureAdopt(r) ==
  /\ ensuring[r].at = "adopt"
  /\ projects' = [p \in Project |->
       IF projects[p] = [owner |-> ensuring[r].user, org |-> NoOrg]
         THEN [projects[p] EXCEPT !.org = ensuring[r].org] ELSE projects[p]]
  /\ ensuring' = [ensuring EXCEPT ![r].at = "acting"]
  /\ UNCHANGED <<membership, environments, met>>

-----------------------------------------------------------------------------
(* The request goes on with the organization it was given. *)

EndsRequest(r) == ensuring' = [ensuring EXCEPT ![r] = FreeEnsurer]

\* An import creates a project of the organization.
ImportProject(r, p) ==
  /\ ensuring[r].at = "acting" /\ projects[p] = NoProject
  /\ projects' = [projects EXCEPT ![p] = [owner |-> ensuring[r].user, org |-> ensuring[r].org]]
  /\ EndsRequest(r)
  /\ UNCHANGED <<membership, environments, met>>

\* getAccessibleProjectIds: the user's own projects, and those of the organization.
Accessible(u, org) ==
  {p \in Project : projects[p] # NoProject /\ (projects[p].owner = u \/ projects[p].org = org)}

Reached(r) == Accessible(ensuring[r].user, ensuring[r].org)

EnvironmentCreate(r, e, p) ==
  /\ ensuring[r].at = "acting" /\ p \in Reached(r)
  /\ environments[e] = {}
  /\ environments' = [environments EXCEPT ![e] = {[project |-> p, by |-> ensuring[r].user]}]
  /\ EndsRequest(r)
  /\ UNCHANGED <<membership, projects, met>>

EnvironmentDelete(r, e) ==
  /\ ensuring[r].at = "acting"
  /\ \E row \in environments[e] : row.project \in Reached(r)
  /\ environments' = [environments EXCEPT ![e] = {}]
  /\ EndsRequest(r)
  /\ UNCHANGED <<membership, projects, met>>

(* What a request that only reads is answered: its user's organization is looked up anew. *)

reachable(u) == Accessible(u, Home(u))
RowsOf(reached) == {e \in Environment : \E row \in environments[e] : row.project \in reached}

loadGraph(u) == [projects |-> reachable(u), rows |-> RowsOf(reachable(u))]
search(u, matching) == [projects |-> loadGraph(u).projects \cap matching,
                        rows |-> loadGraph(u).rows \cap RowsOf(matching)]
findProjects(u) == {p \in Project : projects[p] # NoProject
                                    /\ (projects[p].owner = u \/ projects[p].org = Home(u))}
findApplications(u) == reachable(u)

\* With the projects of applications for the applications; none when there is no such one.
findApplication(u, p) == {p} \cap reachable(u)
assertApplicationAccess(u, p) == p \in reachable(u)
findEvents(u, p) == RowsOf(findApplication(u, p))

\* The deployments of an application, or of all when the query names none.
findDeployments(u, query) ==
  IF query \subseteq findApplications(u)
    THEN RowsOf(IF query = {} THEN findApplications(u) ELSE query) ELSE {}
findDeployment(u, e) == {e} \cap RowsOf(reachable(u))

\* A request that only reads, or fails: a failed transaction leaves no membership.
EnsureEnd(r) ==
  /\ ensuring[r].at # "free" /\ EndsRequest(r)
  /\ UNCHANGED <<membership, projects, environments, met>>

OrganizationsNext ==
  \E r \in Ensurer :
    \/ \E u \in User : EnsureFind(r, u)
    \/ EnsureCreate(r) \/ EnsureCommit(r) \/ EnsureAdopt(r) \/ EnsureEnd(r)
    \/ \E p \in Project : ImportProject(r, p)
    \/ \E e \in Environment : EnvironmentDelete(r, e) \/ \E p \in Project : EnvironmentCreate(r, e, p)

-----------------------------------------------------------------------------
\* A user reaches no project of another user and has written nothing under one, whatever
\* organizations the first requests created and whoever adopted the old projects; and all
\* the ways to read tell a user the same.
Isolation ==
  \A u \in User :
    /\ \A org \in {NoOrg, Home(u)} \ {NoOrg} : \A p \in Accessible(u, org) : projects[p].owner = u
    /\ \A e \in Environment : \A row \in environments[e] :
         row.by = u => projects[row.project].owner = u
    /\ Home(u) # NoOrg =>
         /\ findProjects(u) = loadGraph(u).projects /\ findDeployments(u, {}) = loadGraph(u).rows
         /\ \A p \in Project :
              /\ findApplication(u, p) # {} <=> p \in findApplications(u)
              /\ assertApplicationAccess(u, p) <=> p \in findProjects(u)
              /\ findEvents(u, p) = findDeployments(u, {p}) /\ search(u, {p}).rows = findEvents(u, p)
         /\ \A e \in Environment : findDeployment(u, e) \subseteq findDeployments(u, {})

\* A user whose first requests did not meet has one organization, and every project of
\* the user that is in one is in that one; those that met left no more organizations than
\* requests run at once, and later requests add none.
OneHome ==
  \A u \in User :
    /\ Cardinality(MembershipsOf(u)) <= IF u \in met THEN Cardinality(Ensurer) ELSE 1
    /\ u \notin met => \A p \in Project :
         projects[p].owner = u => projects[p].org \in MembershipsOf(u) \cup {NoOrg}
=============================================================================
