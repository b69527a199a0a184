---------------------------- MODULE Administration ----------------------------
(***************************************************************************)
(* What operators set up before and around products: organizations and     *)
(* their members, secrets, and the connected repositories with the         *)
(* organizations they are mapped to.  A product is seeded from a connected *)
(* repository, which takes minutes in one transaction, and reads its token *)
(* there for as long as it lives; repositories may only be unmapped or     *)
(* archived while no product needs them.  Adopted products, which need no  *)
(* token to be registered, are left out.  Other requests are short and are *)
(* single steps.  Names of people, labels of secrets and branches are left *)
(* out; a GitHub name is one value for owner and repository.               *)
(***************************************************************************)
EXTENDS Naturals

CONSTANTS
  Users, Dev,    \* users, and the one the API creates at its start
  Orgs, Home,    \* organizations there may be, and the configured one
  Repos, Names,  \* rows for repositories, and what GitHub calls them
  Secrets,
  Products, OrgOf, NameOf,  \* products, with the organization and repository of each
  None,
  MaxRequests    \* bound of the model

Kinds == {"pat", "other"}
Membership == [active : BOOLEAN, default : BOOLEAN]
Repository == [name : Names, home : Orgs, mapped : SUBSET Orgs, archived : BOOLEAN, secret : Secrets]

ASSUME AdministrationAssumption ==
  /\ Dev \in Users /\ Home \in Orgs
  /\ OrgOf \in [Products -> Orgs] /\ NameOf \in [Products -> Names]
  /\ None \notin Kinds /\ None \notin Repository
  /\ MaxRequests \in Nat

VARIABLES
  orgs,      \* the organizations there are
  member,    \* memberships; one that was never made is as one that was left
  secret,    \* the kind of each secret
  repo,      \* the connected repositories
  product,   \* "none", "seeding" or "live"
  requests,
  spoiled    \* for the properties: products whose repository was changed in a way
             \* that no check looks at

vars == <<orgs, member, secret, repo, product, requests, spoiled>>

TypeOK ==
  /\ orgs \in SUBSET Orgs /\ Home \in orgs
  /\ member \in [Users -> [Orgs -> Membership]]
  /\ secret \in [Secrets -> Kinds \cup {None}]
  /\ repo \in [Repos -> Repository \cup {None}]
  /\ product \in [Products -> {"none", "seeding", "live"}]
  /\ requests \in 0 .. MaxRequests
  /\ spoiled \in SUBSET Products

Left == [active |-> FALSE, default |-> FALSE]
MainMember == [active |-> TRUE, default |-> TRUE]

Init ==
  /\ orgs = {Home}
  /\ member = [u \in Users |-> [o \in Orgs |-> IF u = Dev /\ o = Home THEN MainMember ELSE Left]]
  /\ secret = [s \in Secrets |-> None]
  /\ repo = [r \in Repos |-> None]
  /\ product = [p \in Products |-> "none"]
  /\ requests = 0
  /\ spoiled = {}

Request == requests < MaxRequests /\ requests' = requests + 1

-----------------------------------------------------------------------------
(* Organizations and members *)

Members == UNCHANGED <<secret, repo, product, spoiled>>

HasDefault(u) == \E o \in Orgs : member[u][o].active /\ member[u][o].default

\* A user's first membership is the default one.  A row that was left is taken
\* up again with the default it has.
Joined(u, o) ==
  [member EXCEPT ![u][o] = [active |-> TRUE, default |-> @.default \/ ~HasDefault(u)]]

CreateOrganization(u, o) ==
  /\ Request /\ o \notin orgs
  /\ orgs' = orgs \cup {o}
  /\ member' = Joined(u, o)
  /\ Members

AddMember(u, o) ==
  /\ Request /\ o \in orgs /\ ~member[u][o].active
  /\ member' = Joined(u, o)
  /\ UNCHANGED orgs /\ Members

\* A mutant: a membership that was the default keeps that when it is left.
RemoveMemberOnly(u, o) ==
  /\ Request /\ o \in orgs
  /\ member' = [member EXCEPT ![u][o].active = FALSE]
  /\ UNCHANGED orgs /\ Members

RemoveMember(u, o) ==
  /\ Request /\ o \in orgs
  /\ member' = [member EXCEPT ![u][o] = Left]
  /\ UNCHANGED orgs /\ Members

\* All active memberships of the user lose the default, then this one gets it.
Defaulted(u, o) ==
  [member EXCEPT ![u] = [x \in Orgs |->
     [active |-> @[x].active,
      default |-> IF @[x].active THEN x = o ELSE @[x].default]]]

SetDefault(u, o) ==
  /\ Request /\ o \in orgs /\ member[u][o].active
  /\ member' = Defaulted(u, o)
  /\ UNCHANGED orgs /\ Members

\* ensure_runtime_state at every start of the API, which also ends a seed.
Restart ==
  /\ Request
  /\ member' = [member EXCEPT ![Dev][Home] = MainMember]
  /\ product' = [p \in Products |-> IF product[p] = "seeding" THEN "none" ELSE product[p]]
  /\ UNCHANGED <<orgs, secret, repo, spoiled>>

-----------------------------------------------------------------------------
(* Secrets *)

NotMembers == UNCHANGED <<orgs, member, product>>

\* Products a repository row is for: the check of an update or an archival
\* looks at live ones of the same name and of certain organizations.
Matching(name, os) == {p \in Products : NameOf[p] = name /\ OrgOf[p] \in os}
Live(ps) == {p \in ps : product[p] = "live"}
Seeding == {p \in Products : product[p] = "seeding"}

Uses(s) == {r \in Repos : repo[r] # None /\ repo[r].secret = s}

\* Products whose token comes from one of the rows.
Named(rs) == {p \in Products : \E r \in rs : repo[r] # None /\ repo[r].name = NameOf[p]}

CreateSecret(s, kind) ==
  /\ Request /\ secret[s] = None
  /\ secret' = [secret EXCEPT ![s] = kind]
  /\ UNCHANGED <<repo, spoiled>> /\ NotMembers

\* The kind may change, whoever uses the secret.
UpdateSecret(s, kind) ==
  /\ Request /\ secret[s] # None
  /\ secret' = [secret EXCEPT ![s] = kind]
  /\ spoiled' = IF kind = "pat" THEN spoiled ELSE spoiled \cup Named(Uses(s))
  /\ UNCHANGED repo /\ NotMembers

\* The foreign key of the repositories refuses.
Unused(s) == Uses(s) = {}

DeleteSecret(s) ==
  /\ Request /\ secret[s] # None /\ Unused(s)
  /\ secret' = [secret EXCEPT ![s] = None]
  /\ UNCHANGED <<repo, spoiled>> /\ NotMembers

-----------------------------------------------------------------------------
(* Connected repositories *)

Repositories == UNCHANGED secret /\ NotMembers

\* _repo_org_ids.
OrgsOf(row) == IF row.mapped = {} THEN {row.home} ELSE row.mapped

NameTaken(name) == \E r \in Repos : repo[r] # None /\ repo[r].name = name

ConnectNew(r, name, o, os, s) ==
  /\ repo[r] = None /\ ~NameTaken(name)
  /\ repo' = [repo EXCEPT ![r] = [name |-> name, home |-> o, mapped |-> os, archived |-> FALSE,
                                  secret |-> s]]

\* A repository that is there gets the new organizations and keeps its secret.
Extended(row, os) ==
  [row EXCEPT !.mapped = OrgsOf(row) \cup os, !.archived = FALSE]

ConnectExisting(r, name, os) ==
  /\ repo[r] # None /\ repo[r].name = name
  /\ Extended(repo[r], os) # repo[r]
  /\ repo' = [repo EXCEPT ![r] = Extended(@, os)]

CreateRepo(r, name, o, os, s) ==
  /\ Request /\ os \subseteq orgs /\ o \in os /\ secret[s] = "pat"
  /\ ConnectNew(r, name, o, os, s) \/ ConnectExisting(r, name, os)
  /\ Repositories /\ UNCHANGED spoiled

\* A mutant: only the repository's own organization counts.
RemovedHome(row, os) == IF os = {} THEN {} ELSE {row.home} \ os

\* The organizations that an update takes from a repository; os is {} when it
\* names none.
Removed(row, os) == IF os = {} THEN {} ELSE OrgsOf(row) \ os

\* "Cannot remove organization mapping while products use this repository":
\* products of the name that the row is about to have.
Blocking(name, removed) == Live(Matching(name, removed))

Updated(row, name, s, os, first) ==
  [row EXCEPT !.name = name, !.secret = s,
              !.mapped = IF os = {} THEN @ ELSE os,
              !.home = IF @ \in Removed(row, os) THEN first ELSE @]

UpdateRepo(r, name, s, os, first) ==
  /\ Request /\ repo[r] # None /\ os \subseteq orgs
  /\ IF os = {} THEN first = repo[r].home ELSE first \in os
  /\ s = repo[r].secret \/ secret[s] = "pat"
  /\ Blocking(name, Removed(repo[r], os)) = {}
  /\ \A other \in Repos \ {r} : repo[other] # None => repo[other].name # name
  /\ repo' = [repo EXCEPT ![r] = Updated(@, name, s, os, first)]
  /\ spoiled' = spoiled \cup IF name # repo[r].name
                             THEN Matching(repo[r].name, Orgs)
                             ELSE Matching(name, Removed(repo[r], os)) \cap Seeding
  /\ Repositories

\* Archived, and found no more, unless live products of its organizations need it.
DeleteRepo(r) ==
  /\ Request /\ repo[r] # None /\ ~repo[r].archived
  /\ Blocking(repo[r].name, OrgsOf(repo[r])) = {}
  /\ repo' = [repo EXCEPT ![r].archived = TRUE]
  /\ spoiled' = spoiled \cup (Matching(repo[r].name, Orgs) \cap Seeding)
  /\ Repositories

-----------------------------------------------------------------------------
(* Products *)

\* load_repository_token.
Serves(r, p) ==
  /\ repo[r] # None /\ ~repo[r].archived /\ repo[r].name = NameOf[p]
  /\ OrgOf[p] \in OrgsOf(repo[r])
  /\ secret[repo[r].secret] = "pat"

Served(p) == \E r \in Repos : Serves(r, p)

Seeds == UNCHANGED <<orgs, member, secret, repo>>

\* A seed takes the token once; its product is seen when it commits.
StartSeed(p) ==
  /\ Request /\ product[p] = "none" /\ Served(p)
  /\ product' = [product EXCEPT ![p] = "seeding"]
  /\ spoiled' = spoiled \ {p}
  /\ Seeds

FinishSeed(p) ==
  /\ product[p] = "seeding"
  /\ \E new \in {"live", "none"} : product' = [product EXCEPT ![p] = new]
  /\ UNCHANGED <<requests, spoiled>> /\ Seeds

Next ==
  \/ \E u \in Users, o \in Orgs :
       CreateOrganization(u, o) \/ AddMember(u, o) \/ RemoveMember(u, o) \/ SetDefault(u, o)
  \/ Restart
  \/ \E s \in Secrets :
       \/ \E kind \in Kinds : CreateSecret(s, kind) \/ UpdateSecret(s, kind)
       \/ DeleteSecret(s)
  \/ \E r \in Repos, name \in Names, o \in Orgs, os \in SUBSET Orgs, s \in Secrets :
       CreateRepo(r, name, o, os, s) \/ UpdateRepo(r, name, s, os, o)
  \/ \E r \in Repos : DeleteRepo(r)
  \/ \E p \in Products : StartSeed(p) \/ FinishSeed(p)

Spec == Init /\ [][Next]_vars

-----------------------------------------------------------------------------
(* What always holds *)

\* A user has one default organization, whatever they join, leave and come
\* back to, and /me tells it; only the restart, which makes the developer's
\* own organization the default again, leaves that user a second one.
DefaultIsOne ==
  \A u \in Users : \A a, b \in Orgs :
    /\ member[u][a].default => member[u][a].active
    /\ member[u][a].default /\ member[u][b].default /\ a # b => u = Dev /\ Home \in {a, b}

\* A product that lives has the token of its repository, whatever is mapped,
\* unmapped, archived, connected again or deleted, unless the repository was
\* renamed, its secret made another kind, or it was changed during the seed.
ProductsStayServed == \A p \in Products : product[p] = "live" /\ p \notin spoiled => Served(p)

\* The two places that say which organizations a repository belongs to agree,
\* so that the list of an organization shows no repository it may not use.
HomeIsMapped == \A r \in Repos : repo[r] # None => repo[r].home \in repo[r].mapped
=============================================================================
