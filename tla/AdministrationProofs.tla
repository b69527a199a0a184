------------------------- MODULE AdministrationProofs -------------------------
(* Theorems about Administration, for any users, organizations, repositories, *)
(* secrets and products, and any number of requests.                          *)
EXTENDS Administration, TLAPS

\* A seed under way is like a product that lives: it took a token, and has it
\* still unless its repository was changed since.
SeedsStayServed ==
  \A p \in Products : product[p] # "none" /\ p \notin spoiled => Served(p)

\* Nobody is a member of an organization that was not made.
MembersAreOfOrgs == \A u \in Users, o \in Orgs : member[u][o].active => o \in orgs

IInv == TypeOK /\ DefaultIsOne /\ MembersAreOfOrgs /\ SeedsStayServed /\ HomeIsMapped

\* Steps of members touch nothing that products need.
MembersOnly == UNCHANGED <<secret, repo, spoiled>>

\* Counting a request keeps the bound.
LEMMA RequestCounts ==
  ASSUME TypeOK, Request
  PROVE  requests' \in 0 .. MaxRequests
  BY AdministrationAssumption DEF TypeOK, Request

-----------------------------------------------------------------------------
(* Members *)

\* Joining gives a default only to a user who has none.
LEMMA JoinKeeps ==
  ASSUME TypeOK, DefaultIsOne, NEW u \in Users, NEW o \in Orgs, ~member[u][o].active,
         member' = Joined(u, o)
  PROVE  DefaultIsOne' /\ member' \in [Users -> [Orgs -> Membership]]
<1> DEFINE new == [active |-> TRUE, default |-> member[u][o].default \/ ~HasDefault(u)]
<1>1. member' = [member EXCEPT ![u] = [member[u] EXCEPT ![o] = new]]
  BY DEF Joined, TypeOK
<1>2. new \in Membership /\ new.active = TRUE
  BY DEF Membership, TypeOK
<1>3. ~member[u][o].default
  BY DEF DefaultIsOne
<1>4. new.default => \A a \in Orgs : ~member[u][a].default
  BY <1>3 DEF HasDefault, DefaultIsOne
<1> HIDE DEF new
<1>5. member' \in [Users -> [Orgs -> Membership]]
  BY <1>1, <1>2 DEF TypeOK
<1>6. \A v \in Users, a \in Orgs :
        member'[v][a] = IF v = u /\ a = o THEN new ELSE member[v][a]
  BY <1>1 DEF TypeOK
<1>7. DefaultIsOne'
  BY <1>2, <1>4, <1>6 DEF DefaultIsOne
<1> QED
  BY <1>5, <1>7

\* Leaving takes the default along.
LEMMA LeaveKeeps ==
  ASSUME TypeOK, DefaultIsOne, NEW u \in Users, NEW o \in Orgs,
         member' = [member EXCEPT ![u][o] = Left]
  PROVE  DefaultIsOne' /\ member' \in [Users -> [Orgs -> Membership]]
<1>1. Left \in Membership /\ Left.default = FALSE
  BY DEF Left, Membership
<1>2. \A v \in Users, a \in Orgs :
        member'[v][a] = IF v = u /\ a = o THEN Left ELSE member[v][a]
  BY DEF TypeOK
<1>3. DefaultIsOne'
  BY <1>1, <1>2 DEF DefaultIsOne
<1>4. member' \in [Users -> [Orgs -> Membership]]
  BY <1>1 DEF TypeOK
<1> QED
  BY <1>3, <1>4

\* Choosing a default clears all others of the user.
LEMMA ChooseKeeps ==
  ASSUME TypeOK, DefaultIsOne, NEW u \in Users, NEW o \in Orgs, member[u][o].active,
         member' = Defaulted(u, o)
  PROVE  DefaultIsOne' /\ member' \in [Users -> [Orgs -> Membership]]
<1> DEFINE new == [x \in Orgs |->
                     [active |-> member[u][x].active,
                      default |-> IF member[u][x].active THEN x = o ELSE member[u][x].default]]
<1>1. member' = [member EXCEPT ![u] = new]
  BY DEF Defaulted, TypeOK
<1>2. \A x \in Orgs : /\ new[x] \in Membership
                      /\ new[x].active = member[u][x].active
                      /\ new[x].default => x = o /\ member[u][x].active
  <2> SUFFICES ASSUME NEW x \in Orgs
               PROVE  /\ new[x] \in Membership
                      /\ new[x].active = member[u][x].active
                      /\ new[x].default => x = o /\ member[u][x].active
    OBVIOUS
  <2>1. member[u][x].active \in BOOLEAN /\ member[u][x].default \in BOOLEAN
    BY DEF TypeOK, Membership
  <2>2. member[u][x].default => member[u][x].active
    BY DEF DefaultIsOne
  <2>3. new[x] = [active |-> member[u][x].active,
                  default |-> IF member[u][x].active THEN x = o ELSE member[u][x].default]
    OBVIOUS
  <2> DEFINE d == IF member[u][x].active THEN x = o ELSE member[u][x].default
  <2>4. d \in BOOLEAN /\ (d => x = o /\ member[u][x].active)
    BY <2>1, <2>2
  <2> HIDE DEF new, d
  <2>5. new[x] = [active |-> member[u][x].active, default |-> d]
    BY <2>3 DEF d
  <2> QED
    BY <2>1, <2>4, <2>5 DEF Membership
<1>3. new \in [Orgs -> Membership]
  BY <1>2
<1> HIDE DEF new
<1>4. member' \in [Users -> [Orgs -> Membership]]
  BY <1>1, <1>3 DEF TypeOK
<1>5. \A v \in Users : member'[v] = IF v = u THEN new ELSE member[v]
  BY <1>1 DEF TypeOK
<1>6. DefaultIsOne'
  BY <1>2, <1>5 DEF DefaultIsOne
<1> QED
  BY <1>4, <1>6

\* The restart only touches the developer's own organization.
LEMMA RestartKeeps ==
  ASSUME TypeOK, DefaultIsOne, member' = [member EXCEPT ![Dev][Home] = MainMember]
  PROVE  DefaultIsOne' /\ member' \in [Users -> [Orgs -> Membership]]
<1>1. MainMember \in Membership /\ MainMember.active
  BY DEF MainMember, Membership
<1>2. \A v \in Users, a \in Orgs :
        member'[v][a] = IF v = Dev /\ a = Home THEN MainMember ELSE member[v][a]
  BY AdministrationAssumption DEF TypeOK
<1>3. DefaultIsOne'
  BY <1>1, <1>2 DEF DefaultIsOne
<1>4. member' \in [Users -> [Orgs -> Membership]]
  BY <1>1, AdministrationAssumption DEF TypeOK
<1> QED
  BY <1>3, <1>4

\* What products have is kept where repositories, secrets and the history are
\* untouched and no seed starts.
LEMMA ServedUntouched ==
  ASSUME MembersOnly, SeedsStayServed, \A p \in Products : product'[p] # "none" => product[p] # "none"
  PROVE  SeedsStayServed'
  BY DEF MembersOnly, SeedsStayServed, Served, Serves, OrgsOf

\* A step of members keeps the invariant if it leaves members well.
LEMMA MemberStep ==
  ASSUME IInv, Members, Request, orgs' \in SUBSET Orgs, orgs \subseteq orgs',
         DefaultIsOne', member' \in [Users -> [Orgs -> Membership]],
         \A u \in Users, o \in Orgs : member'[u][o].active => o \in orgs' \/ member[u][o].active
  PROVE  IInv'
<1>1. TypeOK'
  BY RequestCounts DEF IInv, TypeOK, Members
<1>2. MembersAreOfOrgs'
  BY DEF IInv, MembersAreOfOrgs
<1>3. SeedsStayServed'
  BY ServedUntouched DEF IInv, Members, MembersOnly
<1>4. HomeIsMapped'
  BY DEF IInv, HomeIsMapped, Members
<1> QED
  BY <1>1, <1>2, <1>3, <1>4 DEF IInv

\* Every request about members keeps the invariant.
LEMMA MemberSteps ==
  ASSUME IInv, NEW u \in Users, NEW o \in Orgs,
         CreateOrganization(u, o) \/ AddMember(u, o) \/ RemoveMember(u, o) \/ SetDefault(u, o)
  PROVE  IInv'
<1> USE DEF IInv
<1>1. CASE CreateOrganization(u, o)
  <2>1. ~member[u][o].active
    BY <1>1 DEF CreateOrganization, MembersAreOfOrgs
  <2>2. DefaultIsOne' /\ member' \in [Users -> [Orgs -> Membership]]
    BY <1>1, <2>1, JoinKeeps DEF CreateOrganization
  <2>3. \A v \in Users, a \in Orgs : member'[v][a].active => a = o \/ member[v][a].active
    BY <1>1 DEF CreateOrganization, Joined, TypeOK
  <2> QED
    BY <1>1, <2>2, <2>3, MemberStep DEF CreateOrganization, TypeOK
<1>2. CASE AddMember(u, o)
  <2>1. DefaultIsOne' /\ member' \in [Users -> [Orgs -> Membership]]
    BY <1>2, JoinKeeps DEF AddMember
  <2>2. \A v \in Users, a \in Orgs : member'[v][a].active => a = o \/ member[v][a].active
    BY <1>2 DEF AddMember, Joined, TypeOK
  <2> QED
    BY <1>2, <2>1, <2>2, MemberStep DEF AddMember, TypeOK
<1>3. CASE RemoveMember(u, o)
  <2>1. DefaultIsOne' /\ member' \in [Users -> [Orgs -> Membership]]
    BY <1>3, LeaveKeeps DEF RemoveMember
  <2>2. \A v \in Users, a \in Orgs : member'[v][a].active => member[v][a].active
    BY <1>3 DEF RemoveMember, Left, TypeOK
  <2> QED
    BY <1>3, <2>1, <2>2, MemberStep DEF RemoveMember, TypeOK
<1>4. CASE SetDefault(u, o)
  <2>1. DefaultIsOne' /\ member' \in [Users -> [Orgs -> Membership]]
    BY <1>4, ChooseKeeps DEF SetDefault
  <2>2. \A v \in Users, a \in Orgs : member'[v][a].active => member[v][a].active
    BY <1>4 DEF SetDefault, Defaulted, TypeOK
  <2> QED
    BY <1>4, <2>1, <2>2, MemberStep DEF SetDefault, TypeOK
<1> QED
  BY <1>1, <1>2, <1>3, <1>4

\* A restart ends the seeds under way and keeps the invariant.
LEMMA RestartStep ==
  ASSUME IInv, Restart
  PROVE  IInv'
<1> USE DEF IInv
<1>1. DefaultIsOne' /\ member' \in [Users -> [Orgs -> Membership]]
  BY RestartKeeps DEF Restart
<1>2. \A p \in Products : product'[p] # "none" => product[p] # "none"
  BY DEF Restart
<1>3. product' \in [Products -> {"none", "seeding", "live"}]
  BY DEF Restart, TypeOK
<1>4. TypeOK'
  BY <1>1, <1>3, RequestCounts DEF Restart, TypeOK
<1>5. MembersAreOfOrgs'
  <2>1. \A v \in Users, a \in Orgs : member'[v][a].active => a = Home \/ member[v][a].active
    BY AdministrationAssumption DEF Restart, TypeOK
  <2> QED
    BY <2>1 DEF Restart, MembersAreOfOrgs, TypeOK
<1>6. SeedsStayServed'
  BY <1>2, ServedUntouched DEF Restart, MembersOnly
<1>7. HomeIsMapped'
  BY DEF HomeIsMapped, Restart
<1> QED
  BY <1>1, <1>4, <1>5, <1>6, <1>7

-----------------------------------------------------------------------------
(* Secrets and repositories *)

\* A step that leaves members and products alone keeps the invariant if
\* repositories and secrets stay well and every product that had its token
\* has it, or is spoiled.
LEMMA RepositoryStep ==
  ASSUME IInv, Request, NotMembers,
         secret' \in [Secrets -> Kinds \cup {None}],
         repo' \in [Repos -> Repository \cup {None}],
         spoiled' \in SUBSET Products, spoiled \subseteq spoiled',
         HomeIsMapped',
         \A p \in Products : product[p] # "none" /\ p \notin spoiled' /\ Served(p) => Served(p)'
  PROVE  IInv'
<1>1. TypeOK'
  BY RequestCounts DEF IInv, TypeOK, NotMembers
<1>2. DefaultIsOne' /\ MembersAreOfOrgs'
  BY DEF IInv, DefaultIsOne, MembersAreOfOrgs, NotMembers
<1>3. SeedsStayServed'
  BY DEF IInv, SeedsStayServed, NotMembers
<1> QED
  BY <1>1, <1>2, <1>3 DEF IInv

\* Requests about secrets: a kind that tokens cannot have spoils the products
\* whose repository uses the secret.
LEMMA SecretSteps ==
  ASSUME IInv, NEW s \in Secrets, NEW kind \in Kinds,
         CreateSecret(s, kind) \/ UpdateSecret(s, kind) \/ DeleteSecret(s)
  PROVE  IInv'
<1> USE DEF IInv
<1>1. repo' = repo /\ Request /\ NotMembers
  BY DEF CreateSecret, UpdateSecret, DeleteSecret
<1>2. HomeIsMapped' /\ repo' \in [Repos -> Repository \cup {None}]
  BY <1>1 DEF HomeIsMapped, TypeOK
<1>3. secret' \in [Secrets -> Kinds \cup {None}]
  BY DEF CreateSecret, UpdateSecret, DeleteSecret, TypeOK
<1>4. spoiled' \in SUBSET Products /\ spoiled \subseteq spoiled'
  BY DEF CreateSecret, UpdateSecret, DeleteSecret, Named, TypeOK
<1>5. ASSUME NEW p \in Products, p \notin spoiled', Served(p)
      PROVE  Served(p)'
  <2>1. PICK r \in Repos : Serves(r, p)
    BY <1>5 DEF Served
  <2>2. repo[r] # None /\ repo[r].name = NameOf[p] /\ secret[repo[r].secret] = "pat"
    BY <2>1 DEF Serves
  <2>3. repo[r].secret \in Secrets
    BY <2>2 DEF TypeOK, Repository
  <2>4. secret'[repo[r].secret] = "pat"
    <3>1. CASE repo[r].secret # s
      BY <2>2, <2>3, <3>1 DEF CreateSecret, UpdateSecret, DeleteSecret, TypeOK
    <3>2. CASE repo[r].secret = s
      <4>1. r \in Uses(s) /\ p \in Named(Uses(s))
        BY <2>2, <3>2 DEF Uses, Named
      <4>2. ~DeleteSecret(s)
        BY <4>1 DEF DeleteSecret, Unused
      <4>3. CASE CreateSecret(s, kind)
        BY <2>2, <3>2, <4>3, AdministrationAssumption DEF CreateSecret, Kinds
      <4>4. CASE UpdateSecret(s, kind)
        BY <4>1, <4>4, <3>2, <1>5 DEF UpdateSecret, TypeOK
      <4> QED
        BY <4>2, <4>3, <4>4
    <3> QED
      BY <3>1, <3>2
  <2>5. Serves(r, p)'
    BY <2>1, <2>4, <1>1 DEF Serves, OrgsOf
  <2> QED
    BY <2>5 DEF Served
<1> QED
  BY <1>1, <1>2, <1>3, <1>4, <1>5, RepositoryStep

\* A repository that is connected again only gets organizations.
LEMMA ExtendedRow ==
  ASSUME NEW row \in Repository, row.home \in row.mapped, NEW os \in SUBSET Orgs,
         NEW new, new = Extended(row, os)
  PROVE  /\ new.name = row.name /\ new.home = row.home /\ new.secret = row.secret
         /\ new.archived = FALSE /\ new.mapped = row.mapped \cup os
         /\ new \in Repository
<1> DEFINE mapping == [row EXCEPT !.mapped = row.mapped \cup os]
<1>1. OrgsOf(row) = row.mapped
  BY DEF OrgsOf
<1>2. /\ mapping \in Repository /\ mapping.mapped = row.mapped \cup os
      /\ mapping.name = row.name /\ mapping.home = row.home /\ mapping.secret = row.secret
  BY DEF Repository
<1>3. new = [mapping EXCEPT !.archived = FALSE]
  BY <1>1 DEF Extended
<1> HIDE DEF mapping
<1> QED
  BY <1>2, <1>3 DEF Repository

\* Connecting a repository takes nothing away from products.
LEMMA ConnectStep ==
  ASSUME IInv, NEW r \in Repos, NEW name \in Names, NEW o \in Orgs, NEW os \in SUBSET Orgs,
         NEW s \in Secrets, CreateRepo(r, name, o, os, s)
  PROVE  IInv'
<1> USE DEF IInv
<1> DEFINE row == repo'[r]
<1>1. Request /\ NotMembers /\ secret' = secret /\ spoiled' = spoiled /\ o \in os
  BY DEF CreateRepo, Repositories
<1>2. /\ row \in Repository /\ row.home \in row.mapped
      /\ repo' = [repo EXCEPT ![r] = row]
      /\ repo[r] # None => /\ ~row.archived /\ row.name = repo[r].name
                            /\ OrgsOf(repo[r]) \subseteq OrgsOf(row) /\ row.secret = repo[r].secret
  <2>1. CASE ConnectNew(r, name, o, os, s)
    BY <1>1, <2>1 DEF ConnectNew, Repository, TypeOK
  <2>2. CASE ConnectExisting(r, name, os)
    <3>1. repo[r] \in Repository /\ repo[r].home \in repo[r].mapped /\ repo[r] # None
      BY <2>2 DEF ConnectExisting, TypeOK, HomeIsMapped
    <3>2. repo' = [repo EXCEPT ![r] = Extended(repo[r], os)] /\ row = Extended(repo[r], os)
      BY <2>2 DEF ConnectExisting, TypeOK
    <3>3. /\ row.name = repo[r].name /\ row.home = repo[r].home /\ row.secret = repo[r].secret
          /\ row.archived = FALSE /\ row.mapped = repo[r].mapped \cup os
          /\ row \in Repository
      BY <3>1, <3>2, ExtendedRow
    <3> QED
      BY <3>1, <3>2, <3>3 DEF OrgsOf
  <2> QED
    BY <2>1, <2>2 DEF CreateRepo
<1> HIDE DEF row
<1>3. repo' \in [Repos -> Repository \cup {None}]
  BY <1>2 DEF TypeOK
<1>4. HomeIsMapped'
  BY <1>2 DEF HomeIsMapped, TypeOK
<1>5. ASSUME NEW p \in Products, Served(p)
      PROVE  Served(p)'
  <2>1. PICK t \in Repos : Serves(t, p)
    BY <1>5 DEF Served
  <2>2. CASE t # r
    <3>1. repo'[t] = repo[t]
      BY <1>2, <2>2 DEF TypeOK
    <3>2. Serves(t, p)'
      BY <1>1, <2>1, <3>1 DEF Serves, OrgsOf
    <3> QED
      BY <3>2 DEF Served
  <2>3. CASE t = r
    <3>1. repo'[r] = row /\ repo[r] # None
      BY <1>2, <2>1, <2>3 DEF TypeOK, Serves
    <3>2. repo'[r] # None
      BY <1>2, <3>1, AdministrationAssumption
    <3>3. Serves(r, p)'
      BY <1>1, <1>2, <2>1, <2>3, <3>1, <3>2 DEF Serves, OrgsOf
    <3> QED
      BY <3>3 DEF Served
  <2> QED
    BY <2>2, <2>3
<1>6. spoiled' \in SUBSET Products /\ spoiled \subseteq spoiled'
  BY <1>1 DEF TypeOK
<1>7. secret' \in [Secrets -> Kinds \cup {None}]
  BY <1>1 DEF TypeOK
<1> QED
  BY <1>1, <1>3, <1>4, <1>5, <1>6, <1>7, RepositoryStep

\* What an update makes of a row.
LEMMA UpdatedRow ==
  ASSUME NEW row \in Repository, row.home \in row.mapped,
         NEW name \in Names, NEW s \in Secrets, NEW os \in SUBSET Orgs, NEW first \in Orgs,
         os = {} \/ first \in os,
         NEW new, new = Updated(row, name, s, os, first)
  PROVE  /\ new.name = name /\ new.secret = s /\ new.archived = row.archived
         /\ new.home \in new.mapped
         /\ OrgsOf(row) \ OrgsOf(new) \subseteq Removed(row, os)
         /\ new \in Repository
<1> DEFINE home == IF row.home \in Removed(row, os) THEN first ELSE row.home
           mapped == IF os = {} THEN row.mapped ELSE os
           named == [row EXCEPT !.name = name, !.secret = s]
           mapping == [named EXCEPT !.mapped = mapped]
<1>1. OrgsOf(row) = row.mapped
  BY DEF OrgsOf
<1>2. home \in Orgs /\ mapped \in SUBSET Orgs
  BY DEF Repository
<1>3. home \in mapped
  BY <1>1 DEF Removed
<1>4. OrgsOf(row) \ mapped \subseteq Removed(row, os)
  BY <1>1 DEF Removed
<1>5. new = [mapping EXCEPT !.home = home]
  BY DEF Updated
<1> HIDE DEF home, mapped
<1>6. /\ named \in Repository /\ named.name = name /\ named.secret = s
      /\ named.archived = row.archived
  BY DEF Repository
<1> HIDE DEF named
<1>7. /\ mapping \in Repository /\ mapping.name = name /\ mapping.secret = s
      /\ mapping.archived = row.archived /\ mapping.mapped = mapped
  BY <1>2, <1>6 DEF Repository
<1> HIDE DEF mapping
<1>8. /\ new \in Repository /\ new.name = name /\ new.secret = s
      /\ new.archived = row.archived /\ new.mapped = mapped /\ new.home = home
  BY <1>2, <1>5, <1>7 DEF Repository
<1>9. OrgsOf(new) = mapped
  BY <1>3, <1>8 DEF OrgsOf
<1> QED
  BY <1>3, <1>4, <1>8, <1>9

\* An update takes a token from no product that lives, and spoils the others
\* it takes one from.
LEMMA UpdateStep ==
  ASSUME IInv, NEW r \in Repos, NEW name \in Names, NEW s \in Secrets, NEW os \in SUBSET Orgs,
         NEW first \in Orgs, UpdateRepo(r, name, s, os, first)
  PROVE  IInv'
<1> USE DEF IInv
<1> DEFINE old == repo[r]
           new == Updated(old, name, s, os, first)
<1>1. /\ Request /\ NotMembers /\ secret' = secret
      /\ repo' = [repo EXCEPT ![r] = new]
      /\ s = old.secret \/ secret[s] = "pat"
  BY DEF UpdateRepo, Repositories, TypeOK
<1>2. old \in Repository /\ old # None /\ old.home \in old.mapped
  BY DEF UpdateRepo, TypeOK, HomeIsMapped
<1>3. os = {} \/ first \in os
  BY DEF UpdateRepo
<1> HIDE DEF old
<1>4. /\ new.name = name /\ new.secret = s /\ new.archived = old.archived
      /\ new.home \in new.mapped /\ new \in Repository
      /\ OrgsOf(old) \ OrgsOf(new) \subseteq Removed(old, os)
  <2>1. new = Updated(old, name, s, os, first)
    OBVIOUS
  <2> HIDE DEF new
  <2> QED
    BY <1>2, <1>3, <2>1, UpdatedRow
<1>5. /\ Blocking(name, Removed(old, os)) = {}
      /\ spoiled' = spoiled \cup IF name # old.name
                                  THEN Matching(old.name, Orgs)
                                  ELSE Matching(name, Removed(old, os)) \cap Seeding
  BY DEF UpdateRepo, old
<1> HIDE DEF new
<1> USE DEF old
<1>6. repo' \in [Repos -> Repository \cup {None}]
  BY <1>1, <1>4 DEF TypeOK
<1>7. HomeIsMapped'
  BY <1>1, <1>4 DEF HomeIsMapped, TypeOK
<1>8. spoiled' \in SUBSET Products /\ spoiled \subseteq spoiled'
  BY <1>5 DEF TypeOK, Matching
<1>9. ASSUME NEW p \in Products, product[p] # "none", p \notin spoiled', Served(p)
      PROVE  Served(p)'
  <2>1. PICK t \in Repos : Serves(t, p)
    BY <1>9 DEF Served
  <2>2. CASE t # r
    <3>1. repo'[t] = repo[t]
      BY <1>1, <2>2 DEF TypeOK
    <3>2. Serves(t, p)'
      BY <1>1, <2>1, <3>1 DEF Serves, OrgsOf
    <3> QED
      BY <3>2 DEF Served
  <2>3. CASE t = r
    <3>1. old.name = NameOf[p] /\ OrgOf[p] \in OrgsOf(old) /\ ~old.archived
          /\ secret[old.secret] = "pat"
      BY <2>1, <2>3 DEF Serves
    <3>2. OrgOf[p] \in Orgs
      BY AdministrationAssumption
    <3>3. name = old.name
      BY <3>1, <3>2, <1>5, <1>9 DEF Matching
    <3>4. OrgOf[p] \notin Removed(old, os)
      <4>1. product[p] \in {"seeding", "live"}
        BY <1>9 DEF TypeOK
      <4>2. OrgOf[p] \in Removed(old, os) => p \in Matching(name, Removed(old, os))
        BY <3>1, <3>3 DEF Matching
      <4> QED
        BY <4>1, <4>2, <3>3, <1>5, <1>9 DEF Blocking, Live, Seeding
    <3>5. OrgOf[p] \in OrgsOf(new)
      BY <3>1, <3>4, <1>4
    <3>6. repo'[r] = new /\ new # None
      BY <1>1, <1>4, AdministrationAssumption DEF TypeOK
    <3>7. Serves(r, p)'
      BY <3>1, <3>3, <3>5, <3>6, <1>1, <1>4 DEF Serves, OrgsOf
    <3> QED
      BY <3>7 DEF Served
  <2> QED
    BY <2>2, <2>3
<1>10. secret' \in [Secrets -> Kinds \cup {None}]
  BY <1>1 DEF TypeOK
<1> QED
  BY <1>1, <1>6, <1>7, <1>8, <1>9, <1>10, RepositoryStep

\* Archiving spoils seeds under way and is refused for products that live.
LEMMA ArchiveStep ==
  ASSUME IInv, NEW r \in Repos, DeleteRepo(r)
  PROVE  IInv'
<1> USE DEF IInv
<1>1. Request /\ NotMembers /\ secret' = secret /\ repo[r] \in Repository
  BY DEF DeleteRepo, Repositories, TypeOK
<1> DEFINE new == [repo[r] EXCEPT !.archived = TRUE]
<1>2. new \in Repository /\ new.home = repo[r].home /\ new.mapped = repo[r].mapped
  BY <1>1 DEF Repository
<1>3. repo' = [repo EXCEPT ![r] = new]
  BY DEF DeleteRepo, TypeOK
<1> HIDE DEF new
<1>4. repo' \in [Repos -> Repository \cup {None}]
  BY <1>2, <1>3 DEF TypeOK
<1>5. HomeIsMapped'
  BY <1>2, <1>3 DEF HomeIsMapped, TypeOK, DeleteRepo
<1>6. spoiled' \in SUBSET Products /\ spoiled \subseteq spoiled'
  BY DEF DeleteRepo, TypeOK, Matching
<1>7. ASSUME NEW p \in Products, product[p] # "none", p \notin spoiled', Served(p)
      PROVE  Served(p)'
  <2>1. PICK t \in Repos : Serves(t, p)
    BY <1>7 DEF Served
  <2>2. t # r
    <3>1. SUFFICES ASSUME t = r
                   PROVE  FALSE
      OBVIOUS
    <3>2. OrgOf[p] \in Orgs /\ NameOf[p] = repo[r].name /\ OrgOf[p] \in OrgsOf(repo[r])
      BY <2>1, <3>1, AdministrationAssumption DEF Serves
    <3>3. p \in Matching(repo[r].name, Orgs) /\ p \in Matching(repo[r].name, OrgsOf(repo[r]))
      BY <3>2 DEF Matching
    <3>4. product[p] \in {"seeding", "live"}
      BY <1>7 DEF TypeOK
    <3> QED
      BY <3>3, <3>4, <1>7 DEF DeleteRepo, Blocking, Live, Seeding
  <2>3. repo'[t] = repo[t]
    BY <1>3, <2>2 DEF TypeOK
  <2>4. Serves(t, p)'
    BY <1>1, <2>1, <2>3 DEF Serves, OrgsOf
  <2> QED
    BY <2>4 DEF Served
<1>8. secret' \in [Secrets -> Kinds \cup {None}]
  BY <1>1 DEF TypeOK
<1> QED
  BY <1>1, <1>4, <1>5, <1>6, <1>7, <1>8, RepositoryStep

-----------------------------------------------------------------------------
(* Products *)

\* A seed starts with a token, and ends with the one it has.
LEMMA SeedSteps ==
  ASSUME IInv, NEW p \in Products, StartSeed(p) \/ FinishSeed(p)
  PROVE  IInv'
<1> USE DEF IInv
<1>1. UNCHANGED <<orgs, member, secret, repo>>
  BY DEF StartSeed, FinishSeed, Seeds
<1>2. DefaultIsOne' /\ MembersAreOfOrgs' /\ HomeIsMapped'
  BY <1>1 DEF DefaultIsOne, MembersAreOfOrgs, HomeIsMapped
<1>3. requests' \in 0 .. MaxRequests
  BY RequestCounts DEF StartSeed, FinishSeed, TypeOK
<1>4. product' \in [Products -> {"none", "seeding", "live"}] /\ spoiled' \in SUBSET Products
  BY DEF StartSeed, FinishSeed, TypeOK
<1>5. TypeOK'
  BY <1>1, <1>3, <1>4 DEF TypeOK
<1>6. \A q \in Products : Served(q)' <=> Served(q)
  BY <1>1 DEF Served, Serves, OrgsOf
<1>7. SeedsStayServed'
  <2>1. \A q \in Products \ {p} : product'[q] = product[q] /\ (q \in spoiled' <=> q \in spoiled)
    BY DEF StartSeed, FinishSeed, TypeOK
  <2>2. p \notin spoiled' => Served(p)
    BY DEF StartSeed, FinishSeed, SeedsStayServed
  <2> QED
    BY <1>6, <2>1, <2>2 DEF SeedsStayServed
<1> QED
  BY <1>2, <1>5, <1>7

-----------------------------------------------------------------------------
(* Theorems *)

\* Initially one membership is there, and nothing else.
LEMMA InitInv == Init => IInv
<1> SUFFICES ASSUME Init PROVE IInv
  OBVIOUS
<1>1. TypeOK
  BY AdministrationAssumption DEF Init, TypeOK, Membership, MainMember, Left
<1>2. DefaultIsOne /\ MembersAreOfOrgs
  BY DEF Init, DefaultIsOne, MembersAreOfOrgs, MainMember, Left
<1>3. SeedsStayServed /\ HomeIsMapped
  BY DEF Init, SeedsStayServed, HomeIsMapped
<1> QED
  BY <1>1, <1>2, <1>3 DEF IInv

\* Every step keeps the invariant.
LEMMA NextInv == IInv /\ [Next]_vars => IInv'
<1> SUFFICES ASSUME IInv, [Next]_vars PROVE IInv'
  OBVIOUS
<1>1. CASE \E u \in Users, o \in Orgs :
             CreateOrganization(u, o) \/ AddMember(u, o) \/ RemoveMember(u, o) \/ SetDefault(u, o)
  BY <1>1, MemberSteps
<1>2. CASE Restart
  BY <1>2, RestartStep
<1>3. CASE \E s \in Secrets : (\E kind \in Kinds : CreateSecret(s, kind) \/ UpdateSecret(s, kind))
                             \/ DeleteSecret(s)
  <2>1. "pat" \in Kinds
    BY DEF Kinds
  <2> QED
    BY <1>3, <2>1, SecretSteps
<1>4. CASE \E r \in Repos, name \in Names, o \in Orgs, os \in SUBSET Orgs, s \in Secrets :
             CreateRepo(r, name, o, os, s) \/ UpdateRepo(r, name, s, os, o)
  BY <1>4, ConnectStep, UpdateStep
<1>5. CASE \E r \in Repos : DeleteRepo(r)
  BY <1>5, ArchiveStep
<1>6. CASE \E p \in Products : StartSeed(p) \/ FinishSeed(p)
  BY <1>6, SeedSteps
<1>7. CASE UNCHANGED vars
  <2>1. TypeOK' /\ DefaultIsOne' /\ MembersAreOfOrgs' /\ HomeIsMapped'
    BY <1>7 DEF IInv, vars, TypeOK, DefaultIsOne, MembersAreOfOrgs, HomeIsMapped
  <2>2. SeedsStayServed'
    BY <1>7, ServedUntouched DEF IInv, vars, MembersOnly
  <2> QED
    BY <2>1, <2>2 DEF IInv
<1> QED
  BY <1>1, <1>2, <1>3, <1>4, <1>5, <1>6, <1>7 DEF Next

\* The inductive invariant holds in every reachable state.
THEOREM AdministrationInvariance == Spec => []IInv
  BY InitInv, NextInv, PTL DEF Spec

\* Each user has one default organization, except that restarts give the
\* developer a second one.
THEOREM OneDefault == Spec => []DefaultIsOne
<1>1. IInv => DefaultIsOne
  BY DEF IInv
<1> QED
  BY <1>1, AdministrationInvariance, PTL

\* No request about repositories, secrets and organizations takes the token
\* from a product that lives, but for the ones no check of the code looks at.
THEOREM TokensStay == Spec => []ProductsStayServed
<1>1. IInv => ProductsStayServed
  BY DEF IInv, SeedsStayServed, ProductsStayServed
<1> QED
  BY <1>1, AdministrationInvariance, PTL

\* The organization a repository was connected for is one it is mapped to.
THEOREM HomeMapping == Spec => []HomeIsMapped
<1>1. IInv => HomeIsMapped
  BY DEF IInv
<1> QED
  BY <1>1, AdministrationInvariance, PTL
=============================================================================
