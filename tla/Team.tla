--------------------------------- MODULE Team ---------------------------------
(***************************************************************************)
(* Who belongs to which organization: accounts (User), memberships with    *)
(* their invitations, and organizations as they are registered.  Every     *)
(* handler is a request that reads, checks and writes in steps, none of    *)
(* them in a transaction; a request that crashes stays where it is for ever.*)
(* isActive of an account is TRUE from its creation on, for every handler. *)
(***************************************************************************)
EXTENDS Integers, FiniteSets

CONSTANTS
  People, Orgs,
  Requests,   \* requests at work at once
  MaxJoin,    \* bound: memberships created for one person in one organization
  MaxUpdate   \* bound: updates of a membership asked for

ASSUME TeamAssumption == MaxJoin \in Nat \ {0} /\ MaxUpdate \in Nat

VARIABLES
  user,    \* accounts: the home organization and the role given at creation
  member,  \* memberships, by person and organization
  org,     \* organizations stored
  at,      \* what each request has read, and does next
  updates,
  agreed,  \* history: who has agreed to belong to which organization
  unasked, \* history: invitations written, not answered, as isActive was no boolean
  overrun, \* history: organizations where a write found other administrators than its check,
           \* or took the last one away unchecked, as isActive was no boolean
  left      \* history: how many memberships of a person in an organization are gone

teamVars == <<user, member, org, at, updates, agreed, unasked, overrun, left>>

Role == {"admin", "viewer"}
Account == [home : Orgs, role : Role]
Membership == [role : Role, status : {"active", "invited", "disabled"}]
None == [role |-> "none", status |-> "none"]
NoUser == [home |-> "none", role |-> "none"]
Rest == [do |-> "rest"]

TeamInit ==
  /\ user = [p \in People |-> NoUser]
  /\ member = [p \in People |-> [o \in Orgs |-> None]]
  /\ org = {}
  /\ at = [r \in Requests |-> Rest]
  /\ updates = 0
  /\ agreed = {}
  /\ unasked = {}
  /\ overrun = {}
  /\ left = [p \in People |-> [o \in Orgs |-> 0]]

Member(p, o) == member[p][o]
Active(p, o) == Member(p, o).status = "active"
IsAdmin(m) == m.role = "admin" /\ m.status = "active"
\* tenantMiddleware and requireRole(['admin']): the membership is read on every request.
MayManage(p, o) == IsAdmin(Member(p, o))
Admins(o) == {p \in People : IsAdmin(Member(p, o))}

Become(r, rec) == at' = [at EXCEPT ![r] = rec]
\* create: the unique index refuses a second membership, and the request ends with an error.
Insert(p, o, m) ==
  IF Member(p, o) = None THEN member' = [member EXCEPT ![p][o] = m] ELSE UNCHANGED member
Remove(p, o) ==
  /\ member' = [member EXCEPT ![p][o] = None]
  /\ left' = [left EXCEPT ![p][o] = @ + 1]
\* The document that was read is still there: one deleted and created again is another.
Same(q) == q.n = left[q.who][q.org] /\ Member(q.who, q.org) # None
Agree(p, o) == agreed' = agreed \cup {<<p, o>>}
-----------------------------------------------------------------------------
(* register and createOrganization *)

\* The email is looked up; the unique index on it decides.
Register(r, p, o) ==
  /\ at[r] = Rest /\ user[p] = NoUser
  /\ o \notin org
  /\ org' = org \cup {o}
  /\ Become(r, [do |-> "addUser", who |-> p, org |-> o, role |-> "admin"])
  /\ UNCHANGED <<user, member, updates, agreed, unasked, overrun, left>>

AddUser(r) ==
  /\ at[r].do = "addUser"
  /\ LET q == at[r] IN
     IF user[q.who] = NoUser
     THEN /\ user' = [user EXCEPT ![q.who] = [home |-> q.org, role |-> q.role]]
          /\ Agree(q.who, q.org)
          /\ Become(r, [q EXCEPT !.do = "addMember"])
     ELSE UNCHANGED <<user, agreed>> /\ Become(r, Rest)
  /\ UNCHANGED <<member, org, updates, unasked, overrun, left>>

AddMember(r) ==
  /\ at[r].do = "addMember"
  /\ LET q == at[r] IN Insert(q.who, q.org, [role |-> q.role, status |-> "active"])
  /\ Become(r, Rest)
  /\ UNCHANGED <<user, org, updates, agreed, unasked, overrun, left>>

\* From an organization one is active in; then the creator's membership and home.
CreateOrganization(r, p, o) ==
  /\ at[r] = Rest /\ o \notin org
  /\ \E o2 \in Orgs : Active(p, o2)
  /\ org' = org \cup {o}
  /\ Become(r, [do |-> "join", who |-> p, org |-> o])
  /\ UNCHANGED <<user, member, updates, agreed, unasked, overrun, left>>

JoinOwn(r) ==
  /\ at[r].do = "join"
  /\ LET q == at[r] IN
     /\ Insert(q.who, q.org, [role |-> "admin", status |-> "active"])
     /\ Agree(q.who, q.org)
     /\ Become(r, [q EXCEPT !.do = "goHome"])
  /\ UNCHANGED <<user, org, updates, unasked, overrun, left>>

SwitchOrganization(r, p, o) ==
  /\ at[r] = Rest /\ Active(p, o)
  /\ user[p].home # o
  /\ Become(r, [do |-> "goHome", who |-> p, org |-> o])
  /\ UNCHANGED <<user, member, org, updates, agreed, unasked, overrun, left>>

GoHome(r) ==
  /\ at[r].do = "goHome"
  /\ user' = [user EXCEPT ![at[r].who].home = at[r].org]
  /\ Become(r, Rest)
  /\ UNCHANGED <<member, org, updates, agreed, unasked, overrun, left>>
-----------------------------------------------------------------------------
(* createUser *)

\* Nobody has the email: an account is opened.  Somebody has: he is invited.
CreateUser(r, a, p, o, role) ==
  /\ at[r] = Rest /\ MayManage(a, o) /\ left[p][o] < MaxJoin
  /\ \/ /\ user[p] = NoUser
        /\ Become(r, [do |-> "addUser", who |-> p, org |-> o, role |-> role])
     \/ /\ user[p] # NoUser /\ Member(p, o) = None
        /\ Become(r, [do |-> "invite", who |-> p, org |-> o, role |-> role])
  /\ UNCHANGED <<user, member, org, updates, agreed, unasked, overrun, left>>

Invite(r) ==
  /\ at[r].do = "invite"
  /\ LET q == at[r] IN Insert(q.who, q.org, [role |-> q.role, status |-> "invited"])
  /\ Become(r, Rest)
  /\ UNCHANGED <<user, org, updates, agreed, unasked, overrun, left>>

(* acceptInvitation and declineInvitation *)

AnswerInvitation(r, p, o, answer) ==
  /\ at[r] = Rest /\ Member(p, o).status = "invited"
  /\ \E o2 \in Orgs : Active(p, o2)
  /\ Become(r, [do |-> answer, who |-> p, org |-> o, n |-> left[p][o], saw |-> {}])
  /\ UNCHANGED <<user, member, org, updates, agreed, unasked, overrun, left>>

\* save() of a document that is gone throws.
Accept(r) ==
  /\ at[r].do = "accept"
  /\ LET q == at[r] IN
     IF Same(q)
     THEN /\ member' = [member EXCEPT ![q.who][q.org].status = "active"]
          /\ Agree(q.who, q.org)
     ELSE UNCHANGED <<member, agreed>>
  /\ Become(r, Rest)
  /\ UNCHANGED <<user, org, updates, unasked, overrun, left>>

\* deleteOne of the document that was read as an invitation, by either side.
DropInvitation(r) ==
  /\ at[r].do \in {"decline", "cancel"}
  /\ LET q == at[r] IN
     IF Same(q)
     THEN /\ Remove(q.who, q.org)
          /\ overrun' = IF Active(q.who, q.org) THEN overrun \cup {q.org} ELSE overrun
     ELSE UNCHANGED <<member, left, overrun>>
  /\ Become(r, Rest)
  /\ UNCHANGED <<user, org, updates, agreed, unasked>>
-----------------------------------------------------------------------------
(* updateUser *)

\* Another role, or isActive: TRUE for "active" and FALSE for "disabled", as the team page
\* sends it, or any other value of JSON, which the handler does not validate.
Change == [role : Role, status : {"as is"}]
          \cup [role : {"as is"}, status : {"active", "disabled", "truthy", "falsy"}]
\* An update that asks for what there is writes nothing; and values that are no boolean do
\* what TRUE and FALSE do, but to invitations and administrators.
Differs(m, c) ==
  /\ c.role # m.role /\ c.status # m.status
  /\ c.status = "truthy" => m.status = "invited"
  /\ c.status = "falsy" => m.status = "invited" \/ IsAdmin(m)
\* isActive === false, so null and 0 are not seen.
TakesAway(c) == c.role = "viewer" \/ c.status = "disabled"
\* The administrators a request saw that makes somebody less than he was.
Lowers(c) == TakesAway(c) \/ c.status = "falsy"
Seen(c, o) == IF Lowers(c) THEN {Admins(o)} ELSE {}

\* Mutant of MayChange: an invitation can be made active by the administrator.
MayChangeAny(m, c) == TRUE

\* A pending invitation becomes active only when the invitee accepts it, or by a value that
\* is true without being === true.
MayChange(m, c) == m.status = "invited" => c.status # "active"

ReadForUpdate(r, a, p, o, c) ==
  /\ at[r] = Rest /\ MayManage(a, o)
  /\ updates < MaxUpdate /\ updates' = updates + 1
  /\ Member(p, o) # None /\ MayChange(Member(p, o), c) /\ Differs(Member(p, o), c)
  /\ Become(r, [do |-> IF Member(p, o).status = "invited" /\ c.status = "disabled"
                       THEN "cancel" ELSE "check",
                who |-> p, org |-> o, n |-> left[p][o], was |-> Member(p, o), to |-> c,
                saw |-> Seen(c, o)])
  /\ UNCHANGED <<user, member, org, agreed, unasked, overrun, left>>

\* The last active administrator is neither demoted nor disabled.
LeavesAdmin(was, c, o) ==
  TakesAway(c) /\ IsAdmin(was) => Cardinality(Admins(o)) > 1

CheckUpdate(r) ==
  /\ at[r].do = "check"
  /\ LET q == at[r] IN
     Become(r, IF LeavesAdmin(q.was, q.to, q.org)
               THEN [q EXCEPT !.do = "save", !.saw = @ \cup Seen(q.to, q.org)] ELSE Rest)
  /\ UNCHANGED <<user, member, org, updates, agreed, unasked, overrun, left>>

\* What is stored is the truth of isActive.
Truth(status) ==
  CASE status = "truthy" -> "active" [] status = "falsy" -> "disabled" [] OTHER -> status

\* save() writes the fields that differ from what was read.
Updated(m, was, c) ==
  [role |-> IF c.role \in {"as is", was.role} THEN m.role ELSE c.role,
   status |-> IF Truth(c.status) \in {"as is", was.status} THEN m.status ELSE Truth(c.status)]

\* The check before was of other administrators, or left the last one out.
Overruns(q) ==
  \/ q.saw # Seen(q.to, q.org)
  \/ q.to.status = "falsy" /\ Admins(q.org) = {q.who}

\* An invitation is written as if it had been answered.
Unasked(q) ==
  IF q.was.status = "invited" /\ q.to.status \in {"truthy", "falsy"} THEN {<<q.who, q.org>>} ELSE {}

SaveUpdate(r) ==
  /\ at[r].do = "save"
  /\ LET q == at[r] IN
     IF Same(q)
     THEN /\ member' = [member EXCEPT ![q.who][q.org] = Updated(@, q.was, q.to)]
          /\ overrun' = IF Overruns(q) THEN overrun \cup {q.org} ELSE overrun
          /\ unasked' = unasked \cup Unasked(q)
     ELSE UNCHANGED <<member, overrun, unasked>>
  /\ Become(r, Rest)
  /\ UNCHANGED <<user, org, updates, agreed, left>>
-----------------------------------------------------------------------------
(* login and getMe *)

\* Where the person is active: at home if he can, else anywhere, which becomes home.
Entrances(p) == {o \in Orgs : Active(p, o)}
Enter(r, p) ==
  IF user[p].home \in Entrances(p) \/ Entrances(p) = {} THEN Become(r, Rest)
  ELSE \E o \in Entrances(p) : Become(r, [do |-> "goHome", who |-> p, org |-> o])

\* ensureMembership looks for the membership of the home organization, and makes it up.
Login(r, p) ==
  /\ at[r] = Rest /\ user[p] # NoUser
  /\ IF Member(p, user[p].home) = None
     THEN Become(r, [do |-> "makeUp", who |-> p, org |-> user[p].home, role |-> user[p].role])
     ELSE Enter(r, p)
  /\ UNCHANGED <<user, member, org, updates, agreed, unasked, overrun, left>>

MakeUp(r) ==
  /\ at[r].do = "makeUp"
  /\ LET q == at[r] IN Insert(q.who, q.org, [role |-> q.role, status |-> "active"])
  /\ Become(r, Rest)
  /\ UNCHANGED <<user, org, updates, agreed, unasked, overrun, left>>

-----------------------------------------------------------------------------
Step(r) ==
  \/ AddUser(r) \/ AddMember(r) \/ JoinOwn(r) \/ GoHome(r) \/ Invite(r)
  \/ Accept(r) \/ DropInvitation(r) \/ CheckUpdate(r) \/ SaveUpdate(r)
  \/ MakeUp(r)

Request(r, p, o) ==
  \/ Register(r, p, o) \/ CreateOrganization(r, p, o) \/ SwitchOrganization(r, p, o)
  \/ \E answer \in {"accept", "decline"} : AnswerInvitation(r, p, o, answer)
  \/ \E p2 \in People :
       \/ \E role \in Role : CreateUser(r, p, p2, o, role)
       \/ \E c \in Change : ReadForUpdate(r, p, p2, o, c)

TeamNext ==
  \E r \in Requests :
    \/ Step(r)
    \/ \E p \in People : Login(r, p) \/ \E o \in Orgs : Request(r, p, o)

TeamSpec == TeamInit /\ [][TeamNext]_teamVars
-----------------------------------------------------------------------------
(* Properties *)

\* An organization that has members has an active administrator, whatever its administrators do
\* to each other and to themselves, unless a write found other administrators than the check
\* before it counted, or disabled the last one by a value the check does not look at.
AdminRemains ==
  \A o \in Orgs \ overrun : (\E p \in People : Active(p, o)) => Admins(o) # {}

\* Nobody is made a member of an organization he has not agreed to: he registered or created it,
\* his account was opened for it, or he accepted its invitation; but for an invitation that an
\* update wrote.
ConsentAsked == \A p \in People, o \in Orgs : Active(p, o) => <<p, o>> \in agreed \cup unasked

TeamTypeOK ==
  /\ user \in [People -> Account \cup {NoUser}]
  /\ member \in [People -> [Orgs -> Membership \cup {None}]]
  /\ org \subseteq Orgs /\ overrun \subseteq Orgs
  /\ updates \in 0..MaxUpdate
  /\ agreed \subseteq People \X Orgs /\ unasked \subseteq People \X Orgs
  /\ left \in [People -> [Orgs -> Nat]]

\* Requests of administrators, invitees and people who sign in, in whatever order their steps
\* come, neither leave an organization without an administrator nor make anybody a member of
\* one he has not agreed to.
MembersAreSound == TeamTypeOK /\ AdminRemains /\ ConsentAsked
=============================================================================
