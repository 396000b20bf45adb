----------------------------- MODULE OfficeProofs -----------------------------
(***************************************************************************)
(* Proofs about the components of the back office, for any number of       *)
(* requests, people, organizations, contracts, projects and rules:         *)
(* what a handler read first still holds when it writes, unless another    *)
(* request is told to have come between.  They share no state: each part   *)
(* is about one component.                                                 *)
(***************************************************************************)
EXTENDS Team, Contracts, Organization, FiniteSetTheorems, TLAPS

-----------------------------------------------------------------------------
(* Team: what requests hold *)

Held ==
  {Rest}
  \cup [do : {"addUser", "addMember", "invite", "makeUp"}, who : People, org : Orgs, role : Role]
  \cup [do : {"join", "goHome"}, who : People, org : Orgs]
  \cup [do : {"accept", "decline"}, who : People, org : Orgs, n : Nat, saw : {{}}]
  \cup [do : {"cancel", "check", "save"}, who : People, org : Orgs, n : Nat,
        was : Membership, to : Change, saw : SUBSET SUBSET People]

TeamTyped == TeamTypeOK /\ at \in [Requests -> Held]

\* Only those who have an account belong anywhere.
Known ==
  /\ \A p \in People, o \in Orgs : Member(p, o) # None => user[p] # NoUser
  /\ \A r \in Requests :
       at[r].do \in {"addMember", "invite", "makeUp", "join", "goHome"} =>
         user[at[r].who] # NoUser

\* An organization in which there has been an administrator, and which has one still.
Founded(o) == o \in overrun \/ Admins(o) # {}

\* Whoever is, or is about to become, anything but its first administrator, finds one there.
Founding ==
  /\ \A p \in People, o \in Orgs : Member(p, o) # None => Founded(o)
  /\ \A p \in People : user[p].role = "viewer" => Founded(user[p].home)
  /\ \A r \in Requests :
       /\ at[r].do \in {"addUser", "addMember", "makeUp"} /\ at[r].role = "viewer" =>
            Founded(at[r].org)
       /\ at[r].do \in {"invite", "goHome"} => Founded(at[r].org)

\* An update that lowers somebody has seen whether he is an administrator, and one that the
\* check looks at that he is not the last.
Asking ==
  \A r \in Requests :
    /\ at[r].do \in {"check", "save"} /\ Lowers(at[r].to) =>
         \E X \in at[r].saw : IsAdmin(at[r].was) <=> at[r].who \in X
    /\ at[r].do = "save" /\ TakesAway(at[r].to) /\ IsAdmin(at[r].was) =>
         \E X \in at[r].saw : Cardinality(X) > 1

\* Who has agreed, or was written as if he had.
Settled == agreed \cup unasked

\* Whoever is not just invited is settled, and so is everybody who is about to become a member
\* without being asked; TRUE cannot make an invitation active.
Agreeing ==
  /\ \A p \in People, o \in Orgs :
       Member(p, o).status \in {"active", "disabled"} => <<p, o>> \in Settled
  /\ \A p \in People : user[p] # NoUser => <<p, user[p].home>> \in Settled
  /\ \A r \in Requests :
       /\ at[r].do \in {"addMember", "makeUp", "goHome"} => <<at[r].who, at[r].org>> \in Settled
       /\ at[r].do \in {"check", "save"} =>
            IF at[r].was.status = "invited" THEN at[r].to.status \in {"as is", "truthy", "falsy"}
            ELSE <<at[r].who, at[r].org>> \in Settled

TeamInv == TeamTyped /\ Known /\ Founding /\ Asking /\ Agreeing
-----------------------------------------------------------------------------
\* At first nobody has an account, or belongs anywhere.
LEMMA TeamStarts == TeamInit => TeamInv
  <1> SUFFICES ASSUME TeamInit PROVE TeamInv
    OBVIOUS
  <1>1. TeamTyped
    BY TeamAssumption DEF TeamInit, TeamTyped, TeamTypeOK, Held
  <1>2. /\ \A r \in Requests : at[r].do = "rest"
        /\ \A p \in People : user[p] = NoUser /\ user[p].role = "none"
        /\ \A p \in People, o \in Orgs : Member(p, o) = None /\ Member(p, o).status = "none"
    BY DEF TeamInit, Rest, NoUser, None, Member
  <1>3. Known /\ Founding /\ Asking /\ Agreeing
    BY <1>2 DEF Known, Founding, Asking, Agreeing
  <1> QED
    BY <1>1, <1>3 DEF TeamInv

\* What each request holds, by what it does next.
LEMMA HeldFields ==
  ASSUME TeamTyped, NEW r \in Requests
  PROVE  /\ at[r].do \in {"addUser", "addMember", "invite", "makeUp"} =>
              at[r] \in [do : {"addUser", "addMember", "invite", "makeUp"},
                         who : People, org : Orgs, role : Role]
         /\ at[r].do \in {"join", "goHome"} =>
              at[r] \in [do : {"join", "goHome"}, who : People, org : Orgs]
         /\ at[r].do \in {"accept", "decline"} =>
              at[r] \in [do : {"accept", "decline"}, who : People, org : Orgs, n : Nat, saw : {{}}]
         /\ at[r].do \in {"cancel", "check", "save"} =>
              at[r] \in [do : {"cancel", "check", "save"}, who : People, org : Orgs, n : Nat,
                         was : Membership, to : Change, saw : SUBSET SUBSET People]
         /\ at[r].do # "rest" => at[r].who \in People /\ at[r].org \in Orgs
  <1>1. at[r] \in Held
    BY DEF TeamTyped
  <1> QED
    BY <1>1 DEF Held, Rest

\* Where memberships only become more, or change without taking an administrator away, an
\* organization stays founded.
LEMMA AdminsStay ==
  ASSUME overrun \subseteq overrun',
         \A p \in People, o \in Orgs :
           IsAdmin(member[p][o]) => IsAdmin(member'[p][o]) \/ Founded(o)'
  PROVE  \A o \in Orgs : Founded(o) => Founded(o)'
  BY DEF Founded, Admins, Member
-----------------------------------------------------------------------------
(* Team: types, and organizations that stay founded *)

\* Nothing but its `at' changes for the other requests.
LEMMA BecomeTyped ==
  ASSUME TeamTyped, NEW r \in Requests, NEW rec \in Held, Become(r, rec)
  PROVE  /\ at' \in [Requests -> Held] /\ at'[r] = rec
         /\ \A s \in Requests \ {r} : at'[s] = at[s]
  BY DEF TeamTyped, Become

\* A membership is changed, all others stay.
Cell(G, p, o, v) == [G EXCEPT ![p][o] = v]

\* A membership put into the grid leaves the grid a grid.
LEMMA CellTyped ==
  ASSUME NEW V, NEW G \in [People -> [Orgs -> V]], NEW p \in People, NEW o \in Orgs, NEW v \in V
  PROVE  Cell(G, p, o, v) \in [People -> [Orgs -> V]]
  BY DEF Cell

Row == Membership \cup {None}
Grid == [People -> [Orgs -> Row]]

\* What becomes of a membership m of p in o, where m is n afterwards.
Turns(p, o, m, n) ==
  /\ member' \in Grid
  /\ member[p][o] = m /\ member'[p][o] = n
  /\ \A q \in People, b \in Orgs : q # p \/ b # o => member'[q][b] = member[q][b]

\* A membership written turns one entry of the grid, and no other.
LEMMA CellTurns ==
  ASSUME TeamTypeOK, NEW p \in People, NEW o \in Orgs, NEW n \in Row,
         member' = Cell(member, p, o, n)
  PROVE  Turns(p, o, member[p][o], n)
  <1>1. member \in [People -> [Orgs -> Row]]
    BY DEF TeamTypeOK, Row
  <1>2. /\ Cell(member, p, o, n) \in [People -> [Orgs -> Row]]
        /\ Cell(member, p, o, n)[p][o] = n
        /\ \A q \in People, b \in Orgs :
             q # p \/ b # o => Cell(member, p, o, n)[q][b] = member[q][b]
    BY <1>1, CellTyped DEF Cell
  <1> QED
    BY <1>2 DEF Turns, Grid

\* Where no membership is written, none turns.
LEMMA StayTurns ==
  ASSUME TeamTypeOK, NEW p \in People, NEW o \in Orgs, member' = member
  PROVE  Turns(p, o, member[p][o], member[p][o])
  <1>1. member \in Grid
    BY DEF TeamTypeOK, Grid, Row
  <1> QED
    BY <1>1 DEF Turns

\* An insert turns the entry that was asked for, and only where there was none.
LEMMA InsertTurns ==
  ASSUME TeamTypeOK, NEW p \in People, NEW o \in Orgs, NEW m \in Membership, Insert(p, o, m)
  PROVE  Turns(p, o, member[p][o], IF member[p][o] = None THEN m ELSE member[p][o])
  <1>1. CASE member[p][o] = None
    <2>1. member' = Cell(member, p, o, m) /\ m \in Row
      BY <1>1 DEF Insert, Cell, Member, Row
    <2> QED
      BY <1>1, <2>1, CellTurns
  <1>2. CASE member[p][o] # None
    <2>1. member' = member
      BY <1>2 DEF Insert, Member
    <2> QED
      BY <1>2, <2>1, StayTurns
  <1> QED
    BY <1>1, <1>2

\* What each step makes of the membership it is about.
Inserted(r, m, n) ==
  LET q == at[r] IN
  \/ /\ q.do \in {"addMember", "makeUp"}
     /\ n = IF m = None THEN [role |-> q.role, status |-> "active"] ELSE m
  \/ /\ q.do = "join"
     /\ n = IF m = None THEN [role |-> "admin", status |-> "active"] ELSE m
  \/ /\ q.do = "invite"
     /\ n = IF m = None THEN [role |-> q.role, status |-> "invited"] ELSE m
Changed(r, m, n) ==
  LET q == at[r] IN
  /\ Same(q)
  /\ \/ q.do = "accept" /\ n = [m EXCEPT !.status = "active"]
     \/ /\ q.do \in {"decline", "cancel"} /\ n = None
        /\ m.status = "active" => q.org \in overrun'
     \/ /\ q.do = "save" /\ n = Updated(m, q.was, q.to)
        /\ Overruns(q) => q.org \in overrun'

\* Every step of a request turns one membership at most: which one, and into what.
LEMMA StepTurns ==
  ASSUME TeamTyped, NEW r \in Requests, Step(r)
  PROVE  /\ at[r].who \in People /\ at[r].org \in Orgs
         /\ \E m, n \in Row :
              /\ Turns(at[r].who, at[r].org, m, n)
              /\ \/ m = n /\ at[r].do \notin {"addMember", "makeUp", "join", "invite"}
                 \/ Inserted(r, m, n) \/ Changed(r, m, n)
  <1> DEFINE p == at[r].who
             o == at[r].org
             m == member[p][o]
  <1>1. TeamTypeOK
    BY DEF TeamTyped
  <1>2. p \in People /\ o \in Orgs
    BY HeldFields DEF Step, AddUser, AddMember, JoinOwn, GoHome, Invite, Accept, DropInvitation,
                      CheckUpdate, SaveUpdate, MakeUp
  <1>3. m \in Row
    BY <1>1, <1>2 DEF TeamTypeOK, Row
  <1> SUFFICES \E n \in Row :
                 /\ Turns(p, o, m, n)
                 /\ \/ m = n /\ at[r].do \notin {"addMember", "makeUp", "join", "invite"}
                    \/ Inserted(r, m, n) \/ Changed(r, m, n)
    BY <1>2, <1>3
  <1>4. CASE AddMember(r) \/ MakeUp(r) \/ Invite(r)
    <2>1. at[r] \in [do : {"addUser", "addMember", "invite", "makeUp"},
                     who : People, org : Orgs, role : Role]
      BY <1>4, HeldFields DEF AddMember, Invite, MakeUp
    <2> DEFINE x == [role |-> at[r].role,
                     status |-> IF at[r].do = "invite" THEN "invited" ELSE "active"]
               n == IF m = None THEN x ELSE m
    <2>2. x \in Membership /\ n \in Row
      BY <1>3, <2>1 DEF Membership, Row
    <2>3. Insert(p, o, x)
      BY <1>4 DEF AddMember, Invite, MakeUp
    <2>4. Inserted(r, m, n)
      BY <1>4 DEF Inserted, AddMember, Invite, MakeUp
    <2> HIDE DEF x
    <2>5. Turns(p, o, m, n)
      BY <1>1, <1>2, <2>2, <2>3, InsertTurns
    <2> QED
      BY <2>2, <2>4, <2>5
  <1>5. CASE JoinOwn(r)
    <2> DEFINE x == [role |-> "admin", status |-> "active"]
               n == IF m = None THEN x ELSE m
    <2>1. x \in Membership /\ n \in Row
      BY <1>3 DEF Membership, Row, Role
    <2>2. Insert(p, o, x) /\ Inserted(r, m, n)
      BY <1>5 DEF JoinOwn, Inserted
    <2> HIDE DEF x
    <2>3. Turns(p, o, m, n)
      BY <1>1, <1>2, <2>1, <2>2, InsertTurns
    <2> QED
      BY <2>1, <2>2, <2>3
  <1>6. CASE member' = member /\ at[r].do \notin {"addMember", "makeUp", "join", "invite"}
    BY <1>1, <1>2, <1>3, <1>6, StayTurns
  <1>7. CASE Accept(r) /\ Same(at[r])
    <2> DEFINE n == [m EXCEPT !.status = "active"]
    <2>1. m \in Membership
      BY <1>3, <1>7 DEF Same, Member, Row
    <2>2. n \in Row
      BY <2>1 DEF Membership, Row
    <2>3. member' = Cell(member, p, o, n)
      BY <1>7 DEF Accept, Cell
    <2>4. Changed(r, m, n)
      BY <1>7 DEF Changed, Accept
    <2> HIDE DEF n
    <2> QED
      BY <1>1, <1>2, <2>2, <2>3, <2>4, CellTurns
  <1>8. CASE DropInvitation(r) /\ Same(at[r])
    <2>1. member' = Cell(member, p, o, None) /\ None \in Row
      BY <1>8 DEF DropInvitation, Remove, Cell, Row
    <2>2. Changed(r, m, None)
      BY <1>8 DEF Changed, DropInvitation, Active, Member
    <2> QED
      BY <1>1, <1>2, <2>1, <2>2, CellTurns
  <1>9. CASE SaveUpdate(r) /\ Same(at[r])
    <2> DEFINE n == Updated(m, at[r].was, at[r].to)
    <2>1. at[r] \in [do : {"cancel", "check", "save"}, who : People, org : Orgs, n : Nat,
                     was : Membership, to : Change, saw : SUBSET SUBSET People]
      BY <1>9, HeldFields DEF SaveUpdate
    <2>2. m \in Membership
      BY <1>3, <1>9 DEF Same, Member, Row
    <2>3. n \in Row
      BY <2>1, <2>2 DEF Membership, Updated, Truth, Change, Role, Row
    <2>4. member' = Cell(member, p, o, n)
      BY <1>9 DEF SaveUpdate, Cell
    <2>5. Changed(r, m, n)
      BY <1>9 DEF Changed, SaveUpdate
    <2> HIDE DEF n
    <2> QED
      BY <1>1, <1>2, <2>3, <2>4, <2>5, CellTurns
  <1> QED
    BY <1>4, <1>5, <1>6, <1>7, <1>8, <1>9
       DEF Step, AddUser, GoHome, Accept, DropInvitation, CheckUpdate, SaveUpdate
-----------------------------------------------------------------------------

\* The collections keep their types, and the request holds a record of its kind.
LEMMA KeepsTyped ==
  ASSUME TeamTyped, NEW r \in Requests, NEW rec \in Held, Become(r, rec),
         user' \in [People -> Account \cup {NoUser}],
         member' \in [People -> [Orgs -> Membership \cup {None}]],
         org' \subseteq Orgs, overrun' \subseteq Orgs, updates' \in 0..MaxUpdate,
         agreed' \subseteq People \X Orgs, unasked' \subseteq People \X Orgs,
         left' \in [People -> [Orgs -> Nat]]
  PROVE  TeamTyped'
  <1>1. at' \in [Requests -> Held]
    BY BecomeTyped
  <1>2. TeamTypeOK'
    BY DEF TeamTypeOK
  <1> QED
    BY <1>1, <1>2 DEF TeamTyped, Held

\* Registration and the making of an organization store the organization first.
LEMMA ArrivalTyped ==
  ASSUME TeamTyped, NEW r \in Requests, NEW p \in People, NEW o \in Orgs,
         Request(r, p, o) \/ Login(r, p)
  PROVE  TeamTyped' /\ UNCHANGED <<user, member, agreed, unasked, overrun, left>>
  <1> USE DEF TeamTyped, TeamTypeOK
  <1>1. CASE Register(r, p, o)
    <2>1. [do |-> "addUser", who |-> p, org |-> o, role |-> "admin"] \in Held
      BY DEF Held, Role
    <2> QED
      BY <1>1, <2>1, KeepsTyped DEF Register
  <1>2. CASE CreateOrganization(r, p, o)
    <2>1. [do |-> "join", who |-> p, org |-> o] \in Held
      BY DEF Held
    <2> QED
      BY <1>2, <2>1, KeepsTyped DEF CreateOrganization
  <1>3. CASE SwitchOrganization(r, p, o)
    <2>1. [do |-> "goHome", who |-> p, org |-> o] \in Held
      BY DEF Held
    <2> QED
      BY <1>3, <2>1, KeepsTyped DEF SwitchOrganization
  <1>4. ASSUME NEW answer \in {"accept", "decline"}, AnswerInvitation(r, p, o, answer)
        PROVE  TeamTyped' /\ UNCHANGED <<user, member, agreed, unasked, overrun, left>>
    <2>1. left[p][o] \in Nat
      OBVIOUS
    <2>2. [do |-> answer, who |-> p, org |-> o, n |-> left[p][o], saw |-> {}] \in Held
      BY <2>1 DEF Held
    <2> QED
      BY <1>4, <2>2, KeepsTyped DEF AnswerInvitation
  <1>5. ASSUME NEW b \in People, NEW role \in Role, CreateUser(r, p, b, o, role)
        PROVE  TeamTyped' /\ UNCHANGED <<user, member, agreed, unasked, overrun, left>>
    <2>1. /\ [do |-> "addUser", who |-> b, org |-> o, role |-> role] \in Held
          /\ [do |-> "invite", who |-> b, org |-> o, role |-> role] \in Held
      BY DEF Held
    <2> QED
      BY <1>5, <2>1, KeepsTyped DEF CreateUser
  <1>6. ASSUME NEW b \in People, NEW c \in Change, ReadForUpdate(r, p, b, o, c)
        PROVE  TeamTyped' /\ UNCHANGED <<user, member, agreed, unasked, overrun, left>>
    <2>1. left[b][o] \in Nat /\ Member(b, o) \in Membership /\ Seen(c, o) \subseteq SUBSET People
      BY <1>6 DEF ReadForUpdate, Member, Admins, Seen
    <2>2. PICK does \in {"cancel", "check"} :
            Become(r, [do |-> does, who |-> b, org |-> o, n |-> left[b][o],
                       was |-> Member(b, o), to |-> c, saw |-> Seen(c, o)])
      BY <1>6 DEF ReadForUpdate
    <2>3. [do |-> does, who |-> b, org |-> o, n |-> left[b][o],
           was |-> Member(b, o), to |-> c, saw |-> Seen(c, o)] \in Held
      BY <2>1 DEF Held
    <2>4. updates' \in 0..MaxUpdate
      BY <1>6, TeamAssumption DEF ReadForUpdate
    <2> QED
      BY <1>6, <2>2, <2>3, <2>4, KeepsTyped DEF ReadForUpdate
  <1>7. CASE Login(r, p)
    <2>1. user[p] # NoUser => user[p] \in Account
      OBVIOUS
    <2>2. user[p] # NoUser =>
            [do |-> "makeUp", who |-> p, org |-> user[p].home, role |-> user[p].role] \in Held
      BY <2>1 DEF Held, Account
    <2>3. \A b \in Orgs : [do |-> "goHome", who |-> p, org |-> b] \in Held
      BY DEF Held
    <2>4. Rest \in Held
      BY DEF Held
    <2>5. PICK rec \in Held : Become(r, rec)
      BY <1>7, <2>2, <2>3, <2>4 DEF Login, Enter, Entrances
    <2> QED
      BY <1>7, <2>5, KeepsTyped DEF Login
  <1> QED
    BY <1>1, <1>2, <1>3, <1>4, <1>5, <1>6, <1>7 DEF Request

\* The steps of a request keep every type.
LEMMA StepTyped ==
  ASSUME TeamTyped, Known, NEW r \in Requests, Step(r)
  PROVE  TeamTyped'
  <1> DEFINE q == at[r]
  <1>1. TeamTypeOK /\ Rest \in Held
    BY DEF TeamTyped, Held
  <1>2. /\ user \in [People -> Account \cup {NoUser}]
        /\ org \subseteq Orgs /\ overrun \subseteq Orgs /\ updates \in 0..MaxUpdate
        /\ agreed \subseteq People \X Orgs /\ unasked \subseteq People \X Orgs
        /\ left \in [People -> [Orgs -> Nat]]
    BY <1>1 DEF TeamTypeOK
  <1>3. q.who \in People /\ q.org \in Orgs /\ <<q.who, q.org>> \in People \X Orgs
    BY StepTurns
  <1>4. member' \in [People -> [Orgs -> Membership \cup {None}]]
    BY StepTurns DEF Turns, Grid, Row
  <1>5. overrun' \subseteq Orgs
    <2>1. overrun' \subseteq overrun \cup {q.org}
      BY DEF Step, AddUser, AddMember, JoinOwn, GoHome, Invite, Accept, DropInvitation,
             CheckUpdate, SaveUpdate, MakeUp
    <2> QED
      BY <1>2, <1>3, <2>1
  <1>6. agreed' \subseteq People \X Orgs
    <2>1. agreed' \subseteq agreed \cup {<<q.who, q.org>>}
      BY DEF Step, AddUser, AddMember, JoinOwn, GoHome, Invite, Accept, DropInvitation,
             CheckUpdate, SaveUpdate, MakeUp, Agree
    <2> QED
      BY <1>2, <1>3, <2>1
  <1>11. unasked' \subseteq People \X Orgs
    <2>1. unasked' \subseteq unasked \cup {<<q.who, q.org>>}
      BY DEF Step, AddUser, AddMember, JoinOwn, GoHome, Invite, Accept, DropInvitation,
             CheckUpdate, SaveUpdate, MakeUp, Unasked
    <2> QED
      BY <1>2, <1>3, <2>1
  <1>7. left' \in [People -> [Orgs -> Nat]]
    <2>1. CASE DropInvitation(r) /\ Same(q)
      <3>1. left' = Cell(left, q.who, q.org, left[q.who][q.org] + 1)
        BY <2>1 DEF DropInvitation, Remove, Cell
      <3>2. left[q.who][q.org] + 1 \in Nat
        BY <1>2, <1>3
      <3> QED
        BY <1>2, <1>3, <3>1, <3>2, CellTyped
    <2>2. CASE left' = left
      BY <1>2, <2>2
    <2> QED
      BY <2>1, <2>2 DEF Step, AddUser, AddMember, JoinOwn, GoHome, Invite, Accept,
             DropInvitation, CheckUpdate, SaveUpdate, MakeUp
  <1>8. user' \in [People -> Account \cup {NoUser}]
    <2>1. CASE AddUser(r)
      <3>1. q \in [do : {"addUser", "addMember", "invite", "makeUp"},
                   who : People, org : Orgs, role : Role]
        BY <2>1, HeldFields DEF AddUser
      <3>2. [home |-> q.org, role |-> q.role] \in Account
        BY <3>1 DEF Account
      <3> QED
        BY <1>2, <1>3, <2>1, <3>2 DEF AddUser
    <2>2. CASE GoHome(r)
      <3>1. user[q.who] \in Account
        BY <1>2, <1>3, <2>2 DEF Known, GoHome
      <3>2. [user[q.who] EXCEPT !.home = q.org] \in Account
        BY <1>3, <3>1 DEF Account
      <3> QED
        BY <1>2, <1>3, <2>2, <3>2 DEF GoHome
    <2>3. CASE user' = user
      BY <1>2, <2>3
    <2> QED
      BY <2>1, <2>2, <2>3 DEF Step, AddMember, JoinOwn, Invite, Accept, DropInvitation,
             CheckUpdate, SaveUpdate, MakeUp
  <1>9. PICK rec \in Held : Become(r, rec)
    <2>1. CASE AddUser(r) \/ JoinOwn(r)
      <3>1. at[r].do \in {"addUser", "join"}
        BY <2>1 DEF AddUser, JoinOwn
      <3>2. q.do = "addUser" => [q EXCEPT !.do = "addMember"] \in Held
        BY HeldFields DEF Held
      <3>3. q.do = "join" => [q EXCEPT !.do = "goHome"] \in Held
        BY HeldFields DEF Held
      <3> HIDE DEF q
      <3> QED
        BY <1>1, <2>1, <3>2, <3>3 DEF AddUser, JoinOwn, q
    <2>2. CASE CheckUpdate(r)
      <3>1. q \in [do : {"cancel", "check", "save"}, who : People, org : Orgs, n : Nat,
                   was : Membership, to : Change, saw : SUBSET SUBSET People]
        BY <2>2, HeldFields DEF CheckUpdate
      <3>2. Seen(q.to, q.org) \subseteq SUBSET People
        BY DEF Admins, Seen
      <3> HIDE DEF q
      <3>3. [q EXCEPT !.do = "save", !.saw = @ \cup Seen(q.to, q.org)] \in Held
        <4> DEFINE s == q.saw \cup Seen(q.to, q.org)
        <4>1. s \in SUBSET SUBSET People
          BY <3>1, <3>2
        <4> HIDE DEF s
        <4>2. [q EXCEPT !.do = "save", !.saw = s] \in Held
          BY <3>1, <4>1 DEF Held
        <4> QED
          BY <4>2 DEF s
      <3>4. \/ Become(r, [q EXCEPT !.do = "save", !.saw = @ \cup Seen(q.to, q.org)])
            \/ Become(r, Rest)
        BY <2>2 DEF CheckUpdate, q
      <3> QED
        BY <1>1, <3>3, <3>4
    <2>3. CASE Become(r, Rest)
      BY <1>1, <2>3
    <2> QED
      BY <2>1, <2>2, <2>3 DEF Step, AddMember, GoHome, Invite, Accept, DropInvitation,
             SaveUpdate, MakeUp
  <1>10. org' = org /\ updates' = updates
    BY DEF Step, AddUser, AddMember, JoinOwn, GoHome, Invite, Accept, DropInvitation,
             CheckUpdate, SaveUpdate, MakeUp
  <1> HIDE DEF q
  <1> QED
    BY <1>2, <1>4, <1>5, <1>6, <1>7, <1>8, <1>9, <1>10, <1>11, KeepsTyped
-----------------------------------------------------------------------------
(* Team: what no step takes back *)

\* Where there are two administrators, taking one away leaves another.
LEMMA OneOfMany ==
  ASSUME NEW S, Cardinality(S) > 1, NEW a \in S
  PROVE  \E b \in S : b # a
  <1> SUFFICES ASSUME S = {a} PROVE FALSE
    OBVIOUS
  <1>1. Cardinality({a}) = 1
    BY FS_Singleton
  <1> QED
    BY <1>1

\* save() leaves an administrator what he is, unless it lowers him.
LEMMA UpdateSpares ==
  ASSUME NEW m \in Membership, IsAdmin(m), NEW was, NEW c \in Change, ~Lowers(c)
  PROVE  IsAdmin(Updated(m, was, c))
  <1>1. c.role \in {"admin", "as is"} /\ Truth(c.status) \in {"active", "as is"}
    BY DEF Change, TakesAway, Lowers, Role, Truth
  <1> QED
    BY <1>1 DEF Updated, IsAdmin

\* An organization that has had an administrator keeps one, or is excused.
LEMMA FoundedStays ==
  ASSUME TeamTyped, Asking, NEW r \in Requests, Step(r), NEW o \in Orgs, Founded(o)
  PROVE  Founded(o)'
  <1> DEFINE q == at[r]
  <1>1. overrun \subseteq overrun'
    BY DEF Step, AddUser, AddMember, JoinOwn, GoHome, Invite, Accept, DropInvitation,
           CheckUpdate, SaveUpdate, MakeUp
  <1>2. CASE o \in overrun
    BY <1>1, <1>2 DEF Founded
  <1>3. CASE o \notin overrun
    <2>1. PICK a \in People : IsAdmin(member[a][o])
      BY <1>3 DEF Founded, Admins, Member
    <2>2. PICK m, n \in Row :
            /\ Turns(q.who, q.org, m, n)
            /\ m = n \/ Inserted(r, m, n) \/ Changed(r, m, n)
      BY StepTurns
    <2>3. q.who \in People /\ q.org \in Orgs
      BY StepTurns
    <2>4. \A b \in People : IsAdmin(member[b][o]) /\ (b # q.who \/ o # q.org) => Founded(o)'
      BY <2>2 DEF Turns, Founded, Admins, Member
    <2>5. CASE a = q.who /\ o = q.org
      <3>1. m = member[a][o] /\ n = member'[a][o] /\ IsAdmin(m)
        BY <2>1, <2>2, <2>5 DEF Turns
      <3>2. m # None /\ m \in Membership
        BY <3>1 DEF IsAdmin, None, Row
      <3>3. IsAdmin(n) => Founded(o)'
        BY <2>5, <3>1 DEF Founded, Admins, Member
      <3>4. CASE m = n \/ Inserted(r, m, n)
        BY <3>1, <3>2, <3>3, <3>4 DEF Inserted
      <3>5. CASE Changed(r, m, n) /\ q.do = "accept"
        <4>1. IsAdmin(n)
          BY <3>1, <3>2, <3>5 DEF Changed, IsAdmin, Membership
        <4> QED
          BY <3>3, <4>1
      <3>6. CASE Changed(r, m, n) /\ q.do \in {"decline", "cancel"}
        BY <2>5, <3>1, <3>6 DEF Changed, IsAdmin, Founded
      <3>7. CASE Changed(r, m, n) /\ q.do = "save" /\ Overruns(q)
        BY <2>5, <3>7 DEF Changed, Founded
      <3>8. CASE Changed(r, m, n) /\ q.do = "save" /\ ~Overruns(q)
        <4>1. n = Updated(m, q.was, q.to)
          BY <3>8 DEF Changed
        <4>2. a \in Admins(o)
          BY <2>1 DEF Admins, Member
        <4>3. (\E b \in Admins(o) : b # a) => Founded(o)'
          BY <2>4, <2>5 DEF Admins, Member
        <4>4. CASE TakesAway(q.to)
          <5>1. q.saw = {Admins(o)} /\ Lowers(q.to)
            BY <2>5, <3>8, <4>4 DEF Overruns, Seen, Lowers
          <5>2. IsAdmin(q.was)
            BY <2>5, <3>8, <4>2, <5>1 DEF Asking
          <5>3. Cardinality(Admins(o)) > 1
            BY <3>8, <4>4, <5>1, <5>2 DEF Asking
          <5> QED
            BY <4>2, <4>3, <5>3, OneOfMany
        <4>5. CASE q.to.status = "falsy"
          BY <2>5, <3>8, <4>2, <4>3, <4>5 DEF Overruns
        <4>6. CASE ~Lowers(q.to)
          <5>1. q.to \in Change
            BY <3>8, HeldFields
          <5> QED
            BY <3>1, <3>2, <3>3, <4>1, <4>6, <5>1, UpdateSpares
        <4> QED
          BY <4>4, <4>5, <4>6 DEF Lowers
      <3> QED
        BY <2>2, <3>4, <3>5, <3>6, <3>7, <3>8 DEF Changed
    <2> QED
      BY <2>1, <2>4, <2>5
  <1> QED
    BY <1>2, <1>3

\* Accounts are never deleted, and what is agreed stays agreed.
LEMMA UsersStay ==
  ASSUME TeamTyped, Known, NEW r \in Requests, Step(r)
  PROVE  /\ agreed \subseteq agreed' /\ Settled \subseteq Settled'
         /\ \A p \in People : user[p] # NoUser => user'[p] # NoUser
  <1>1. agreed \subseteq agreed' /\ Settled \subseteq Settled'
    <2>1. agreed \subseteq agreed' /\ unasked \subseteq unasked'
      BY DEF Step, AddUser, AddMember, JoinOwn, GoHome, Invite, Accept, DropInvitation,
             CheckUpdate, SaveUpdate, MakeUp, Agree
    <2> QED
      BY <2>1 DEF Settled
  <1>2. user \in [People -> Account \cup {NoUser}] /\ at[r].who \in People /\ at[r].org \in Orgs
    BY StepTurns DEF TeamTyped, TeamTypeOK
  <1>3. CASE AddUser(r)
    <2>1. [home |-> at[r].org, role |-> at[r].role] # NoUser
      <3>1. at[r].role \in Role
        BY <1>3, HeldFields DEF AddUser
      <3> QED
        BY <3>1 DEF NoUser, Role
    <2> QED
      BY <1>1, <1>2, <1>3, <2>1 DEF AddUser
  <1>4. CASE GoHome(r)
    <2>1. user[at[r].who] \in Account
      BY <1>2, <1>4 DEF GoHome, Known
    <2>2. [user[at[r].who] EXCEPT !.home = at[r].org] # NoUser
      BY <2>1 DEF Account, NoUser, Role
    <2> QED
      BY <1>1, <1>2, <1>4, <2>2 DEF GoHome
  <1>5. CASE user' = user
    BY <1>1, <1>5
  <1> QED
    BY <1>3, <1>4, <1>5 DEF Step, AddMember, JoinOwn, Invite, Accept, DropInvitation,
           CheckUpdate, SaveUpdate, MakeUp
-----------------------------------------------------------------------------
(* Team: every step keeps the invariant *)

\* What a step makes of its request; the others wait.
Moved(r) ==
  LET q == at[r]
      t == at'[r]
  IN
  \/ t = Rest
  \/ /\ q.do = "addUser" /\ t.do = "addMember"
     /\ t.who = q.who /\ t.org = q.org /\ t.role = q.role
     /\ user' = [user EXCEPT ![q.who] = [home |-> q.org, role |-> q.role]]
     /\ <<q.who, q.org>> \in agreed'
  \/ /\ q.do = "join" /\ t.do = "goHome"
     /\ t.who = q.who /\ t.org = q.org
     /\ <<q.who, q.org>> \in agreed'
  \/ /\ q.do = "check" /\ t.do = "save"
     /\ t.who = q.who /\ t.org = q.org /\ t.was = q.was /\ t.to = q.to
     /\ LeavesAdmin(q.was, q.to, q.org) /\ t.saw = q.saw \cup Seen(q.to, q.org)

\* A step moves its own request only, along the order of its handler.
LEMMA StepMoves ==
  ASSUME TeamTyped, NEW r \in Requests, Step(r)
  PROVE  /\ \A s \in Requests \ {r} : at'[s] = at[s]
         /\ Moved(r)
  <1> DEFINE q == at[r]
  <1>1. DOMAIN at = Requests
    BY DEF TeamTyped
  <1>2. ASSUME NEW rec, Become(r, rec)
        PROVE  at'[r] = rec /\ \A s \in Requests \ {r} : at'[s] = at[s]
    BY <1>1, <1>2 DEF Become
  <1>3. CASE Become(r, Rest)
    BY <1>2, <1>3 DEF Moved
  <1>4. CASE AddUser(r) /\ user[q.who] = NoUser
    <2>1. q \in [do : {"addUser", "addMember", "invite", "makeUp"},
                 who : People, org : Orgs, role : Role]
      BY <1>4, HeldFields DEF AddUser
    <2> DEFINE t == [q EXCEPT !.do = "addMember"]
    <2>2. t.do = "addMember" /\ t.who = q.who /\ t.org = q.org /\ t.role = q.role
      BY <2>1
    <2>3. Become(r, t)
      BY <1>4 DEF AddUser
    <2>4. at'[r] = t /\ \A s \in Requests \ {r} : at'[s] = at[s]
      BY <1>2, <2>3
    <2>5. /\ user' = [user EXCEPT ![q.who] = [home |-> q.org, role |-> q.role]]
          /\ <<q.who, q.org>> \in agreed' /\ q.do = "addUser"
      BY <1>4 DEF AddUser, Agree
    <2> HIDE DEF t
    <2> QED
      BY <2>2, <2>4, <2>5 DEF Moved
  <1>5. CASE JoinOwn(r)
    <2>1. q \in [do : {"join", "goHome"}, who : People, org : Orgs]
      BY <1>5, HeldFields DEF JoinOwn
    <2> DEFINE t == [q EXCEPT !.do = "goHome"]
    <2>2. t.do = "goHome" /\ t.who = q.who /\ t.org = q.org
      BY <2>1
    <2>3. Become(r, t) /\ <<q.who, q.org>> \in agreed' /\ q.do = "join"
      BY <1>5 DEF JoinOwn, Agree
    <2>4. at'[r] = t /\ \A s \in Requests \ {r} : at'[s] = at[s]
      BY <1>2, <2>3
    <2> HIDE DEF t
    <2> QED
      BY <2>2, <2>3, <2>4 DEF Moved
  <1>6. CASE CheckUpdate(r) /\ LeavesAdmin(q.was, q.to, q.org)
    <2>1. q \in [do : {"cancel", "check", "save"}, who : People, org : Orgs, n : Nat,
                 was : Membership, to : Change, saw : SUBSET SUBSET People]
      BY <1>6, HeldFields DEF CheckUpdate
    <2> DEFINE t == [q EXCEPT !.do = "save", !.saw = @ \cup Seen(q.to, q.org)]
    <2>2. /\ t.do = "save" /\ t.who = q.who /\ t.org = q.org /\ t.was = q.was /\ t.to = q.to
          /\ t.saw = q.saw \cup Seen(q.to, q.org)
      BY <2>1
    <2>3. Become(r, t) /\ q.do = "check"
      BY <1>6 DEF CheckUpdate
    <2>4. at'[r] = t /\ \A s \in Requests \ {r} : at'[s] = at[s]
      BY <1>2, <2>3
    <2> HIDE DEF t
    <2> QED
      BY <1>6, <2>2, <2>3, <2>4 DEF Moved
  <1> QED
    BY <1>3, <1>4, <1>5, <1>6
       DEF Step, AddUser, AddMember, JoinOwn, GoHome, Invite, Accept, DropInvitation,
           CheckUpdate, SaveUpdate, MakeUp

\* Whoever comes to belong somewhere has an account.
LEMMA StepKnown ==
  ASSUME TeamTyped, Known, NEW r \in Requests, Step(r)
  PROVE  Known'
  <1> DEFINE q == at[r]
  <1>1. /\ \A p \in People : user[p] # NoUser => user'[p] # NoUser
        /\ q.who \in People /\ q.org \in Orgs
    BY UsersStay, StepTurns
  <1>2. ASSUME NEW p \in People, NEW o \in Orgs, member'[p][o] # None
        PROVE  user[p] # NoUser
    <2>1. PICK m, n \in Row :
            /\ Turns(q.who, q.org, m, n)
            /\ m = n \/ Inserted(r, m, n) \/ Changed(r, m, n)
      BY StepTurns
    <2>2. CASE member[p][o] # None
      BY <2>2 DEF Known, Member
    <2>3. CASE member[p][o] = None
      <3>1. p = q.who /\ o = q.org /\ m = None /\ n # None
        BY <1>2, <2>1, <2>3 DEF Turns
      <3>2. ~Changed(r, m, n)
        BY <2>3, <3>1 DEF Changed, Same, Member
      <3>3. q.do \in {"addMember", "makeUp", "join", "invite"}
        BY <2>1, <3>1, <3>2 DEF Inserted
      <3> QED
        BY <3>1, <3>3 DEF Known
    <2> QED
      BY <2>2, <2>3
  <1>3. ASSUME NEW s \in Requests,
               at'[s].do \in {"addMember", "invite", "makeUp", "join", "goHome"}
        PROVE  user'[at'[s].who] # NoUser
    <2>1. CASE s # r
      <3>1. at'[s] = at[s]
        BY <2>1, StepMoves
      <3>2. at[s].who \in People
        BY <1>3, <3>1, HeldFields
      <3> QED
        BY <1>1, <1>3, <3>1, <3>2 DEF Known
    <2>2. CASE s = r
      <3>1. at'[r] # Rest
        BY <1>3, <2>2 DEF Rest
      <3>2. CASE q.do = "addUser"
        <4>1. /\ at'[r].who = q.who
              /\ user' = [user EXCEPT ![q.who] = [home |-> q.org, role |-> q.role]]
          BY <3>1, <3>2, StepMoves DEF Moved
        <4>2. q.role \in Role /\ user \in [People -> Account \cup {NoUser}]
          BY <3>2, HeldFields DEF TeamTyped, TeamTypeOK
        <4>3. [home |-> q.org, role |-> q.role] # NoUser
          BY <4>2 DEF NoUser, Role
        <4> QED
          BY <1>1, <2>2, <4>1, <4>2, <4>3
      <3>3. CASE q.do = "join"
        <4>1. at'[r].who = q.who
          BY <3>1, <3>3, StepMoves DEF Moved
        <4> QED
          BY <1>1, <2>2, <3>3, <4>1 DEF Known
      <3> QED
        BY <1>3, <2>2, <3>1, <3>2, <3>3, StepMoves DEF Moved
    <2> QED
      BY <2>1, <2>2
  <1> QED
    BY <1>1, <1>2, <1>3 DEF Known, Member

\* Whoever comes to be more than an administrator of his own finds one there.
LEMMA StepFounding ==
  ASSUME TeamTyped, Known, Founding, Asking, NEW r \in Requests, Step(r)
  PROVE  Founding'
  <1> DEFINE q == at[r]
  <1>1. /\ \A o \in Orgs : Founded(o) => Founded(o)'
        /\ q.who \in People /\ q.org \in Orgs
    BY FoundedStays, StepTurns
  <1>2. ASSUME NEW p \in People, NEW o \in Orgs, member'[p][o] # None
        PROVE  Founded(o)'
    <2>1. PICK m, n \in Row :
            /\ Turns(q.who, q.org, m, n)
            /\ m = n \/ Inserted(r, m, n) \/ Changed(r, m, n)
      BY StepTurns
    <2>2. CASE member[p][o] # None
      BY <1>1, <2>2 DEF Founding, Member
    <2>3. CASE member[p][o] = None
      <3>1. p = q.who /\ o = q.org /\ m = None /\ n # None /\ member'[p][o] = n
        BY <1>2, <2>1, <2>3 DEF Turns
      <3>2. ~Changed(r, m, n)
        BY <2>3, <3>1 DEF Changed, Same, Member
      <3>3. CASE (q.do \in {"addMember", "makeUp"} /\ q.role = "viewer") \/ q.do = "invite"
        BY <1>1, <3>1, <3>3 DEF Founding
      <3>4. CASE (q.do \in {"addMember", "makeUp"} /\ q.role = "admin") \/ q.do = "join"
        <4>1. IsAdmin(n)
          BY <2>1, <3>1, <3>2, <3>4 DEF Inserted, IsAdmin
        <4> QED
          BY <3>1, <4>1 DEF Founded, Admins, Member
      <3>5. q.do \in {"addMember", "makeUp"} => q.role \in {"admin", "viewer"}
        BY HeldFields DEF Role
      <3> QED
        BY <2>1, <3>1, <3>2, <3>3, <3>4, <3>5 DEF Inserted
    <2> QED
      BY <2>2, <2>3
  <1>3. ASSUME NEW p \in People, user'[p].role = "viewer"
        PROVE  \E o \in Orgs : o = user'[p].home /\ Founded(o)'
    <2>1. user \in [People -> Account \cup {NoUser}]
      BY DEF TeamTyped, TeamTypeOK
    <2>2. CASE AddUser(r)
      <3>1. q.do = "addUser" /\ q.role \in Role
        BY <2>2, HeldFields DEF AddUser
      <3>2. CASE p = q.who /\ user[p] = NoUser
        <4>1. user'[p] = [home |-> q.org, role |-> q.role]
          BY <2>1, <2>2, <3>2 DEF AddUser
        <4> QED
          BY <1>1, <1>3, <3>1, <4>1 DEF Founding
      <3>3. CASE user'[p] = user[p]
        <4>1. user[p].home \in Orgs
          BY <1>3, <2>1, <3>3 DEF Account, NoUser
        <4> QED
          BY <1>1, <1>3, <3>3, <4>1 DEF Founding
      <3> QED
        BY <2>1, <2>2, <3>2, <3>3 DEF AddUser
    <2>3. CASE GoHome(r)
      <3>1. CASE p = q.who
        <4>1. user'[p] = [user[p] EXCEPT !.home = q.org]
          BY <1>1, <2>1, <2>3, <3>1 DEF GoHome
        <4>2. user[p] \in Account
          BY <1>1, <2>1, <2>3, <3>1 DEF GoHome, Known
        <4>3. user'[p].home = q.org
          BY <4>1, <4>2 DEF Account
        <4> QED
          BY <1>1, <2>3, <4>3 DEF GoHome, Founding
      <3>2. CASE p # q.who
        <4>1. user'[p] = user[p]
          BY <2>1, <2>3, <3>2 DEF GoHome
        <4>2. user[p].home \in Orgs
          BY <1>3, <2>1, <4>1 DEF Account, NoUser
        <4> QED
          BY <1>1, <1>3, <4>1, <4>2 DEF Founding
      <3> QED
        BY <3>1, <3>2
    <2>4. CASE user' = user
      <3>1. user[p].home \in Orgs
        BY <1>3, <2>1, <2>4 DEF Account, NoUser
      <3> QED
        BY <1>1, <1>3, <2>4, <3>1 DEF Founding
    <2> QED
      BY <2>2, <2>3, <2>4 DEF Step, AddMember, JoinOwn, Invite, Accept, DropInvitation,
             CheckUpdate, SaveUpdate, MakeUp
  <1>4. ASSUME NEW s \in Requests,
               \/ at'[s].do \in {"addUser", "addMember", "makeUp"} /\ at'[s].role = "viewer"
               \/ at'[s].do \in {"invite", "goHome"}
        PROVE  \E o \in Orgs : o = at'[s].org /\ Founded(o)'
    <2>1. CASE s # r
      <3>1. at'[s] = at[s]
        BY <2>1, StepMoves
      <3>2. at[s].org \in Orgs
        BY <1>4, <3>1, HeldFields
      <3> QED
        BY <1>1, <1>4, <3>1, <3>2 DEF Founding
    <2>2. CASE s = r
      <3>1. at'[r] # Rest
        BY <1>4, <2>2 DEF Rest
      <3>2. CASE q.do = "addUser"
        <4>1. at'[r].org = q.org /\ at'[r].role = q.role /\ at'[r].do = "addMember"
          BY <3>1, <3>2, StepMoves DEF Moved
        <4> QED
          BY <1>1, <1>4, <2>2, <3>2, <4>1 DEF Founding
      <3>3. CASE q.do = "join"
        <4>1. at'[r].org = q.org
          BY <3>1, <3>3, StepMoves DEF Moved
        <4>2. PICK m, n \in Row :
                /\ Turns(q.who, q.org, m, n)
                /\ Inserted(r, m, n) \/ Changed(r, m, n)
          BY <3>3, StepTurns
        <4>3. /\ Inserted(r, m, n)
              /\ n = IF m = None THEN [role |-> "admin", status |-> "active"] ELSE m
          BY <3>3, <4>2 DEF Changed, Inserted
        <4>4. n = member'[q.who][q.org] /\ n # None
          BY <4>2, <4>3 DEF Turns, None
        <4> QED
          BY <1>1, <1>2, <2>2, <4>1, <4>4
      <3> QED
        BY <1>4, <2>2, <3>1, <3>2, <3>3, StepMoves DEF Moved
    <2> QED
      BY <2>1, <2>2
  <1> QED
    BY <1>2, <1>3, <1>4 DEF Founding, Founded, Admins, Member

\* What an update has counted stays true until it saves, or it is excused.
LEMMA StepAsking ==
  ASSUME TeamTyped, Asking, NEW r \in Requests, Step(r)
  PROVE  Asking'
  <1> DEFINE q == at[r]
  <1>1. ASSUME NEW s \in Requests, s # r
        PROVE  at'[s] = at[s]
    BY <1>1, StepMoves
  <1>2. Moved(r) /\ Rest.do = "rest"
    BY StepMoves DEF Rest
  <1>3. ASSUME at'[r].do = "save"
        PROVE  /\ Lowers(at'[r].to) =>
                    \E X \in at'[r].saw : IsAdmin(at'[r].was) <=> at'[r].who \in X
               /\ TakesAway(at'[r].to) /\ IsAdmin(at'[r].was) =>
                    \E X \in at'[r].saw : Cardinality(X) > 1
    <2>1. /\ q.do = "check" /\ at'[r].who = q.who /\ at'[r].was = q.was /\ at'[r].to = q.to
          /\ LeavesAdmin(q.was, q.to, q.org) /\ at'[r].saw = q.saw \cup Seen(q.to, q.org)
      BY <1>2, <1>3 DEF Moved
    <2>2. TakesAway(q.to) /\ IsAdmin(q.was) => Cardinality(Admins(q.org)) > 1
      BY <2>1 DEF LeavesAdmin
    <2>3. TakesAway(q.to) => Seen(q.to, q.org) = {Admins(q.org)}
      BY DEF Seen, Lowers
    <2>4. Lowers(q.to) => \E X \in q.saw : IsAdmin(q.was) <=> q.who \in X
      BY <2>1 DEF Asking
    <2> HIDE DEF q
    <2> QED
      BY <2>1, <2>2, <2>3, <2>4
  <1>4. at'[r].do # "check"
    BY <1>2 DEF Moved
  <1> QED
    BY <1>1, <1>3, <1>4 DEF Asking

\* Nobody is made active who did not agree.
LEMMA StepAgreeing ==
  ASSUME TeamTyped, Known, Agreeing, NEW r \in Requests, Step(r)
  PROVE  Agreeing'
  <1> DEFINE q == at[r]
  <1>1. /\ agreed \subseteq agreed' /\ Settled \subseteq Settled' /\ agreed' \subseteq Settled'
        /\ user \in [People -> Account \cup {NoUser}]
        /\ q.who \in People /\ q.org \in Orgs
    BY UsersStay, StepTurns DEF TeamTyped, TeamTypeOK, Settled
  <1>2. ASSUME NEW p \in People, NEW o \in Orgs, member'[p][o].status \in {"active", "disabled"}
        PROVE  <<p, o>> \in Settled'
    <2>1. PICK m, n \in Row :
            /\ Turns(q.who, q.org, m, n)
            /\ m = n \/ Inserted(r, m, n) \/ Changed(r, m, n)
      BY StepTurns
    <2>2. CASE member[p][o].status \in {"active", "disabled"}
      BY <1>1, <2>2 DEF Agreeing, Member
    <2>3. CASE member[p][o].status \notin {"active", "disabled"}
      <3>1. /\ p = q.who /\ o = q.org /\ m = member[p][o] /\ m # n
            /\ n.status \in {"active", "disabled"}
        BY <1>2, <2>1, <2>3 DEF Turns
      <3>2. CASE Inserted(r, m, n)
        <4>1. q.do = "join" => <<q.who, q.org>> \in Settled'
          <5>1. Step(r) /\ q.do = "join" => JoinOwn(r)
            BY DEF Step, AddUser, AddMember, JoinOwn, GoHome, Invite, Accept, DropInvitation,
                   CheckUpdate, SaveUpdate, MakeUp
          <5> QED
            BY <1>1, <5>1 DEF JoinOwn, Agree
        <4>2. q.do # "invite"
          BY <3>1, <3>2 DEF Inserted
        <4> QED
          BY <1>1, <3>1, <3>2, <4>1, <4>2 DEF Inserted, Agreeing
      <3>3. CASE Changed(r, m, n) /\ q.do = "accept"
        <4>1. Step(r) /\ q.do = "accept" => Accept(r)
          BY DEF Step, AddUser, AddMember, JoinOwn, GoHome, Invite, Accept, DropInvitation,
                 CheckUpdate, SaveUpdate, MakeUp
        <4> QED
          BY <1>1, <3>1, <3>3, <4>1 DEF Accept, Agree, Changed
      <3>4. CASE Changed(r, m, n) /\ q.do \in {"decline", "cancel"}
        BY <3>1, <3>4 DEF Changed, None
      <3>5. CASE Changed(r, m, n) /\ q.do = "save"
        <4>1. n = Updated(m, q.was, q.to) /\ SaveUpdate(r) /\ Same(q)
          BY <3>5 DEF Changed, Step, AddUser, AddMember, JoinOwn, GoHome, Invite, Accept,
                  DropInvitation, CheckUpdate, MakeUp
        <4>2. CASE q.was.status = "invited" /\ q.to.status = "as is"
          BY <2>3, <3>1, <4>1, <4>2 DEF Updated, Truth
        <4>3. CASE q.was.status = "invited" /\ q.to.status \in {"truthy", "falsy"}
          BY <3>1, <4>1, <4>3 DEF SaveUpdate, Unasked, Settled
        <4> QED
          BY <1>1, <3>1, <3>5, <4>2, <4>3 DEF Agreeing
      <3> QED
        BY <2>1, <3>1, <3>2, <3>3, <3>4, <3>5 DEF Changed
    <2> QED
      BY <2>2, <2>3
  <1>3. ASSUME NEW p \in People, user'[p] # NoUser
        PROVE  <<p, user'[p].home>> \in Settled'
    <2>1. CASE AddUser(r)
      <3>1. CASE p = q.who /\ user[p] = NoUser
        <4>1. user'[p] = [home |-> q.org, role |-> q.role]
          BY <1>1, <2>1, <3>1 DEF AddUser
        <4> QED
          BY <1>1, <2>1, <3>1, <4>1 DEF AddUser, Agree
      <3>2. CASE user'[p] = user[p]
        BY <1>1, <1>3, <3>2 DEF Agreeing
      <3> QED
        BY <1>1, <2>1, <3>1, <3>2 DEF AddUser
    <2>2. CASE GoHome(r)
      <3>1. CASE p = q.who
        <4>1. user'[p] = [user[p] EXCEPT !.home = q.org]
          BY <1>1, <2>2, <3>1 DEF GoHome
        <4>2. user[p] \in Account
          BY <1>1, <2>2, <3>1 DEF GoHome, Known
        <4>3. user'[p].home = q.org
          BY <4>1, <4>2 DEF Account
        <4> QED
          BY <1>1, <2>2, <3>1, <4>3 DEF GoHome, Agreeing
      <3>2. CASE p # q.who
        <4>1. user'[p] = user[p]
          BY <1>1, <2>2, <3>2 DEF GoHome
        <4> QED
          BY <1>1, <1>3, <4>1 DEF Agreeing
      <3> QED
        BY <3>1, <3>2
    <2>3. CASE user' = user
      BY <1>1, <1>3, <2>3 DEF Agreeing
    <2> QED
      BY <2>1, <2>2, <2>3 DEF Step, AddMember, JoinOwn, Invite, Accept, DropInvitation,
             CheckUpdate, SaveUpdate, MakeUp
  <1>4. ASSUME NEW s \in Requests
        PROVE  /\ at'[s].do \in {"addMember", "makeUp", "goHome"} =>
                    <<at'[s].who, at'[s].org>> \in Settled'
               /\ at'[s].do \in {"check", "save"} =>
                    IF at'[s].was.status = "invited" THEN at'[s].to.status \in {"as is", "truthy", "falsy"}
                    ELSE <<at'[s].who, at'[s].org>> \in Settled'
    <2>1. CASE s # r
      <3>1. at'[s] = at[s]
        BY <2>1, StepMoves
      <3> QED
        BY <1>1, <3>1 DEF Agreeing
    <2>2. CASE s = r
      <3>1. Moved(r) /\ Rest.do = "rest"
        BY StepMoves DEF Rest
      <3> QED
        BY <1>1, <2>2, <3>1 DEF Moved, Agreeing
    <2> QED
      BY <2>1, <2>2
  <1> QED
    BY <1>2, <1>3, <1>4 DEF Agreeing, Member

\* What a request has read when it arrives.
Came(r) ==
  LET t == at'[r] IN
  \/ t.do = "rest"
  \/ t.do = "addUser" /\ (t.role = "admin" \/ (t.org \in Orgs /\ Founded(t.org)))
  \/ t.do = "invite" /\ t.org \in Orgs /\ Founded(t.org) /\ user[t.who] # NoUser
  \/ t.do = "makeUp" /\ user[t.who] # NoUser /\ t.org = user[t.who].home
                     /\ t.role = user[t.who].role /\ t.who \in People
  \/ t.do \in {"goHome", "join"} /\ t.who \in People /\ (\E o \in Orgs : Active(t.who, o))
     /\ (t.do = "goHome" => t.org \in Orgs /\ Active(t.who, t.org))
  \/ t.do \in {"accept", "decline", "cancel"}
  \/ /\ t.do = "check" /\ t.who \in People /\ t.org \in Orgs
     /\ t.was = Member(t.who, t.org) /\ t.saw = Seen(t.to, t.org) /\ t.was # None
     /\ t.was.status = "invited" => t.to.status \in {"as is", "truthy", "falsy"}

\* What a request holds when it arrives.
LEMMA RequestCame ==
  ASSUME TeamTyped, NEW r \in Requests, NEW p \in People, NEW o \in Orgs,
         Request(r, p, o) \/ Login(r, p)
  PROVE  /\ \A s \in Requests \ {r} : at'[s] = at[s]
         /\ Came(r)
  <1>1. /\ DOMAIN at = Requests /\ user \in [People -> Account \cup {NoUser}]
        /\ member \in [People -> [Orgs -> Row]]
    BY DEF TeamTyped, TeamTypeOK, Row
  <1>2. ASSUME NEW rec, Become(r, rec)
        PROVE  at'[r] = rec /\ \A s \in Requests \ {r} : at'[s] = at[s]
    BY <1>1, <1>2 DEF Become
  <1>3. CASE Register(r, p, o)
    <2> DEFINE t == [do |-> "addUser", who |-> p, org |-> o, role |-> "admin"]
    <2>1. Become(r, t) /\ t.do = "addUser" /\ t.role = "admin"
      BY <1>3 DEF Register
    <2> HIDE DEF t
    <2> QED
      BY <1>2, <2>1 DEF Came
  <1>4. CASE CreateOrganization(r, p, o)
    <2> DEFINE t == [do |-> "join", who |-> p, org |-> o]
    <2>1. t.do = "join" /\ t.who = p /\ Become(r, t) /\ \E b \in Orgs : Active(p, b)
      BY <1>4 DEF CreateOrganization
    <2> HIDE DEF t
    <2> QED
      BY <1>2, <2>1 DEF Came
  <1>5. CASE SwitchOrganization(r, p, o)
    <2> DEFINE t == [do |-> "goHome", who |-> p, org |-> o]
    <2>1. t.do = "goHome" /\ t.who = p /\ t.org = o /\ Become(r, t) /\ Active(p, o)
      BY <1>5 DEF SwitchOrganization
    <2> HIDE DEF t
    <2> QED
      BY <1>2, <2>1 DEF Came
  <1>6. ASSUME NEW answer \in {"accept", "decline"}, AnswerInvitation(r, p, o, answer)
        PROVE  Came(r) /\ \A s \in Requests \ {r} : at'[s] = at[s]
    <2> DEFINE t == [do |-> answer, who |-> p, org |-> o, n |-> left[p][o], saw |-> {}]
    <2>1. Become(r, t)
      BY <1>6 DEF AnswerInvitation
    <2>2. t.do \in {"accept", "decline"}
      OBVIOUS
    <2> HIDE DEF t
    <2> QED
      BY <1>2, <2>1, <2>2 DEF Came
  <1>7. ASSUME NEW b \in People, NEW role \in Role, CreateUser(r, p, b, o, role)
        PROVE  Came(r) /\ \A s \in Requests \ {r} : at'[s] = at[s]
    <2>1. Founded(o)
      BY <1>7 DEF CreateUser, MayManage, Founded, Admins
    <2>2. CASE Become(r, [do |-> "addUser", who |-> b, org |-> o, role |-> role])
      <3> DEFINE t == [do |-> "addUser", who |-> b, org |-> o, role |-> role]
      <3>1. Become(r, t) /\ t.do = "addUser" /\ t.org = o
        BY <2>2
      <3> HIDE DEF t
      <3> QED
        BY <1>2, <2>1, <3>1 DEF Came
    <2>3. CASE Become(r, [do |-> "invite", who |-> b, org |-> o, role |-> role])
               /\ user[b] # NoUser
      <3> DEFINE t == [do |-> "invite", who |-> b, org |-> o, role |-> role]
      <3>1. Become(r, t) /\ t.do = "invite" /\ t.org = o /\ t.who = b
        BY <2>3
      <3> HIDE DEF t
      <3> QED
        BY <1>2, <2>1, <2>3, <3>1 DEF Came
    <2> QED
      BY <1>7, <2>2, <2>3 DEF CreateUser
  <1>8. ASSUME NEW b \in People, NEW c \in Change, ReadForUpdate(r, p, b, o, c)
        PROVE  Came(r) /\ \A s \in Requests \ {r} : at'[s] = at[s]
    <2> DEFINE m == Member(b, o)
               does == IF m.status = "invited" /\ c.status = "disabled" THEN "cancel" ELSE "check"
               t == [do |-> does, who |-> b, org |-> o, n |-> left[b][o], was |-> m, to |-> c,
                     saw |-> Seen(c, o)]
    <2>1. Become(r, t) /\ m # None /\ MayChange(m, c)
      BY <1>8 DEF ReadForUpdate
    <2>2. /\ t.do = does /\ t.who = b /\ t.org = o /\ t.was = m /\ t.to = c
          /\ t.saw = Seen(c, o)
      OBVIOUS
    <2>3. does = "cancel" \/ (does = "check" /\ (m.status = "invited" => c.status \in {"as is", "truthy", "falsy"}))
      BY <2>1 DEF MayChange, Change
    <2> HIDE DEF t, does
    <2>4. CASE does = "cancel"
      BY <1>2, <2>1, <2>2, <2>4 DEF Came
    <2>5. CASE does = "check" /\ (m.status = "invited" => c.status \in {"as is", "truthy", "falsy"})
      BY <1>2, <2>1, <2>2, <2>5 DEF Came
    <2> QED
      BY <2>3, <2>4, <2>5
  <1>9. CASE Login(r, p)
    <2>1. CASE Become(r, Rest)
      <3>1. Rest.do = "rest"
        BY DEF Rest
      <3> QED
        BY <1>2, <2>1, <3>1 DEF Came
    <2>2. CASE Become(r, [do |-> "makeUp", who |-> p, org |-> user[p].home, role |-> user[p].role])
      <3> DEFINE t == [do |-> "makeUp", who |-> p, org |-> user[p].home, role |-> user[p].role]
      <3>1. /\ Become(r, t) /\ t.do = "makeUp" /\ t.who = p /\ t.org = user[p].home
            /\ t.role = user[p].role /\ user[p] # NoUser
        BY <1>9, <2>2 DEF Login
      <3> HIDE DEF t
      <3> QED
        BY <1>2, <3>1 DEF Came
    <2>3. ASSUME NEW b \in Orgs, Active(p, b), Become(r, [do |-> "goHome", who |-> p, org |-> b])
          PROVE  Came(r) /\ \A s \in Requests \ {r} : at'[s] = at[s]
      <3> DEFINE t == [do |-> "goHome", who |-> p, org |-> b]
      <3>1. Become(r, t) /\ t.do = "goHome" /\ t.who = p /\ t.org = b
        BY <2>3
      <3> HIDE DEF t
      <3> QED
        BY <1>2, <2>3, <3>1 DEF Came
    <2> QED
      BY <1>2, <1>9, <2>1, <2>2, <2>3 DEF Login, Enter, Entrances
  <1> QED
    BY <1>3, <1>4, <1>5, <1>6, <1>7, <1>8, <1>9 DEF Request

\* A request that arrives has seen nothing yet, and disturbs nothing.
LEMMA ArrivalKeeps ==
  ASSUME TeamInv, NEW r \in Requests, NEW p \in People, NEW o \in Orgs,
         Request(r, p, o) \/ Login(r, p)
  PROVE  TeamInv'
  <1> USE DEF TeamInv
  <1>1. TeamTyped' /\ UNCHANGED <<user, member, agreed, unasked, overrun, left>>
    BY ArrivalTyped
  <1>2. Came(r) /\ \A s \in Requests \ {r} : at'[s] = at[s]
    BY RequestCame
  <1>3. ASSUME NEW q \in People, NEW b \in Orgs, Active(q, b)
        PROVE  Founded(b) /\ <<q, b>> \in Settled /\ user[q] # NoUser
    <2>1. Member(q, b) # None
      BY <1>3 DEF Active, None
    <2> QED
      BY <1>3, <2>1 DEF Active, Founding, Agreeing, Known
  <1>4. Known'
    BY <1>1, <1>2, <1>3 DEF Known, Came, Member
  <1>5. Founding'
    <2>1. \A b : Founded(b)' = Founded(b)
      BY <1>1 DEF Founded, Admins, Member
    <2>2. /\ at'[r].do \in {"addUser", "addMember", "makeUp"} /\ at'[r].role = "viewer" =>
               Founded(at'[r].org)
          /\ at'[r].do \in {"invite", "goHome"} => Founded(at'[r].org)
      BY <1>2, <1>3 DEF Came, Founding
    <2> QED
      BY <1>1, <1>2, <2>1, <2>2 DEF Founding, Member, Founded, Admins
  <1>6. Asking'
    <2>1. at'[r].do = "check" /\ Lowers(at'[r].to) =>
            \E X \in at'[r].saw : IsAdmin(at'[r].was) <=> at'[r].who \in X
      <3> SUFFICES ASSUME at'[r].do = "check", Lowers(at'[r].to)
                   PROVE  \E X \in at'[r].saw : IsAdmin(at'[r].was) <=> at'[r].who \in X
        OBVIOUS
      <3> DEFINE t == at'[r]
      <3>1. t.who \in People /\ t.was = Member(t.who, t.org) /\ t.saw = {Admins(t.org)}
        BY <1>2 DEF Came, Seen
      <3>2. IsAdmin(t.was) <=> t.who \in Admins(t.org)
        BY <3>1 DEF Admins
      <3> QED
        BY <3>1, <3>2
    <2>2. at'[r].do # "save"
      BY <1>2 DEF Came
    <2> QED
      BY <1>2, <2>1, <2>2 DEF Asking
  <1>7. Agreeing'
    <2>1. /\ at'[r].do \in {"addMember", "makeUp", "goHome"} =>
               <<at'[r].who, at'[r].org>> \in Settled
          /\ at'[r].do \in {"check", "save"} =>
               IF at'[r].was.status = "invited" THEN at'[r].to.status \in {"as is", "truthy", "falsy"}
               ELSE <<at'[r].who, at'[r].org>> \in Settled
      <3>1. at'[r].do = "makeUp" => <<at'[r].who, at'[r].org>> \in Settled
        BY <1>2 DEF Came, Agreeing
      <3>2. at'[r].do = "goHome" => <<at'[r].who, at'[r].org>> \in Settled
        BY <1>2, <1>3 DEF Came
      <3>3. at'[r].do \notin {"addMember", "save"}
        BY <1>2 DEF Came
      <3>4. at'[r].do = "check" =>
              IF at'[r].was.status = "invited" THEN at'[r].to.status \in {"as is", "truthy", "falsy"}
              ELSE <<at'[r].who, at'[r].org>> \in Settled
        <4>1. \A q \in People, b \in Orgs : Member(q, b) # None =>
                Member(q, b).status \in {"invited", "active", "disabled"}
          BY DEF TeamTyped, TeamTypeOK, Membership, Member
        <4> QED
          BY <1>2, <4>1 DEF Came, Agreeing
      <3> QED
        BY <3>1, <3>2, <3>3, <3>4
    <2> QED
      BY <1>1, <1>2, <2>1 DEF Agreeing, Member, Settled
  <1> QED
    BY <1>1, <1>4, <1>5, <1>6, <1>7

LEMMA TeamSteps == TeamInv /\ [TeamNext]_teamVars => TeamInv'
  <1> SUFFICES ASSUME TeamInv, [TeamNext]_teamVars PROVE TeamInv'
    OBVIOUS
  <1>1. ASSUME NEW r \in Requests, Step(r) PROVE TeamInv'
    BY <1>1, StepTyped, StepKnown, StepFounding, StepAsking, StepAgreeing DEF TeamInv
  <1>2. ASSUME NEW r \in Requests, NEW p \in People, Login(r, p) PROVE TeamInv'
    <2>1. user[p].home \in Orgs
      BY <1>2 DEF Login, TeamInv, TeamTyped, TeamTypeOK, Account
    <2> QED
      BY <1>2, <2>1, ArrivalKeeps
  <1>3. ASSUME NEW r \in Requests, NEW p \in People, NEW o \in Orgs, Request(r, p, o)
        PROVE  TeamInv'
    BY <1>3, ArrivalKeeps
  <1>4. CASE UNCHANGED teamVars
    <2>1. UNCHANGED <<user, member, org, at, updates, agreed, unasked, overrun, left>>
      BY <1>4 DEF teamVars
    <2>2. TeamTyped' /\ Known' /\ Asking' /\ Agreeing'
      BY <2>1 DEF TeamInv, TeamTyped, TeamTypeOK, Known, Asking, Agreeing, Settled, Member, Held
    <2>3. Founding'
      BY <2>1 DEF TeamInv, Founding, Founded, Member, Admins
    <2> QED
      BY <2>2, <2>3 DEF TeamInv
  <1> QED
    BY <1>1, <1>2, <1>3, <1>4 DEF TeamNext

\* Administrators may change, disable, invite and be invited at once, in whatever order their
\* reads, checks and writes come, for every number of people, organizations and requests: an
\* organization keeps an active administrator, unless a write of updateUser or a deleted
\* invitation found other administrators than its check, or a value that is no boolean disabled
\* the last one; and nobody is an active member of an organization that he has not agreed to,
\* unless such a value was written to his invitation.
THEOREM MembersStaySound == TeamSpec => []MembersAreSound
  <1>1. TeamInv => MembersAreSound
    <2> SUFFICES ASSUME TeamInv PROVE MembersAreSound
      OBVIOUS
    <2>1. TeamTypeOK
      BY DEF TeamInv, TeamTyped
    <2>2. AdminRemains
      BY DEF TeamInv, Founding, Founded, AdminRemains, Active, None
    <2>3. ConsentAsked
      BY DEF TeamInv, Agreeing, Settled, ConsentAsked, Active
    <2> QED
      BY <2>1, <2>2, <2>3 DEF MembersAreSound
  <1> QED
    BY <1>1, TeamStarts, TeamSteps, PTL DEF TeamSpec
-----------------------------------------------------------------------------
(* Contracts: what requests hold *)

Job ==
  {Ready}
  \cup [do : {"subscribe"}, sub : Subs, status : SubStatus]
  \cup [do : {"drop"}]
  \cup [do : {"move"}, sub : Subs, to : SubStatus]
  \cup [do : {"record"}, sheet : Sheets, by : Staff]
  \cup [do : {"edit"}, sheet : Sheets]

ContractsTyped ==
  /\ plan \in {"kept", "deleted"} /\ project \in {"kept", "deleted"}
  /\ sub \in [Subs -> SubStatus \cup {"none", "deleted"}]
  /\ sheet \in [Sheets -> Sheet \cup {NoSheet}]
  /\ desk \in [Desks -> Job]

\* Unless they crossed, a request that is to subscribe has its plan, and one that is to drop the
\* plan is alone with it: nothing uses the plan, and nobody is about to.
PlansKept == "plan" \notin crossed =>
  /\ InUse => plan = "kept"
  /\ \A d \in Desks : desk[d].do = "subscribe" => plan = "kept"
  /\ \A d \in Desks : desk[d].do = "drop" =>
       /\ ~InUse
       /\ \A e \in Desks : desk[e].do # "subscribe"

SheetsPlaced == "project" \notin crossed =>
  /\ \A d \in Desks : desk[d].do = "record" => project = "kept"
  /\ \A t \in Sheets : sheet[t].placed

\* Whoever moves a subscription found it made; who is alone in it moves it as it still stands.
MovesAllowed ==
  \A d \in Desks : desk[d].do = "move" =>
    LET s == desk[d].sub IN
    /\ sub[s] # "none"
    /\ s \notin crossed =>
         /\ sub[s] = "deleted" \/ desk[d].to \in Transitions(sub[s])
         /\ \A e \in Desks : desk[e].do = "move" /\ desk[e].sub = s => e = d

ContractsInv == ContractsTyped /\ PlansKept /\ SheetsPlaced /\ MovesAllowed

\* The plan and the project are there, and nothing refers to them yet.
LEMMA ContractsStart == ContractsInit => ContractsInv
<1> SUFFICES ASSUME ContractsInit PROVE ContractsInv
  OBVIOUS
<1>1. ContractsTyped
  BY DEF ContractsInit, ContractsTyped, Job
<1>2. PlansKept
  BY DEF ContractsInit, PlansKept, InUse, SubStatus, Ready
<1>3. SheetsPlaced
  BY DEF ContractsInit, SheetsPlaced, NoSheet, Ready
<1>4. MovesAllowed
  BY DEF ContractsInit, MovesAllowed, Ready
<1>5. QED
  BY <1>1, <1>2, <1>3, <1>4 DEF ContractsInv

\* What a request has read, by what it does next.
LEMMA JobFields ==
  ASSUME ContractsTyped, NEW d \in Desks
  PROVE  /\ desk[d].do = "subscribe" => desk[d].sub \in Subs /\ desk[d].status \in SubStatus
         /\ desk[d].do = "move" => desk[d].sub \in Subs /\ desk[d].to \in SubStatus
         /\ desk[d].do = "record" => desk[d].sheet \in Sheets /\ desk[d].by \in Staff
         /\ desk[d].do = "edit" => desk[d].sheet \in Sheets
  BY DEF ContractsTyped, Job, Ready

\* A request that takes its turn leaves the others where they are.
LEMMA Turned ==
  ASSUME ContractsTyped, NEW d \in Desks, NEW job \in Job, Turn(d, job)
  PROVE  /\ desk' \in [Desks -> Job]
         /\ \A e \in Desks : desk'[e] = IF e = d THEN job ELSE desk[e]
  BY DEF ContractsTyped, Turn

\* The steps a request takes in turn, told by what it does next.
Reads(d) ==
  \/ \E s \in Subs : ReadForSubscription(d, s) \/ \E to \in SubStatus : ReadForMove(d, s, to)
  \/ CountForPlan(d)
  \/ \E t \in Sheets, p \in Staff : ReadForSheet(d, t, p) \/ ReadForEdit(d, p, t)

Writes(d) ==
  CreateSubscription(d) \/ DeletePlan(d) \/ SaveMove(d) \/ CreateSheet(d) \/ EditSheet(d)

\* What a request that reads leaves: a job for itself, and everything as it is.
LEMMA ReadsOnly ==
  ASSUME ContractsTyped, NEW d \in Desks, Reads(d)
  PROVE  /\ desk[d] = Ready
         /\ \E job \in Job : Turn(d, job)
         /\ UNCHANGED <<plan, sub, project, sheet>>
<1>1. CASE \E s \in Subs : ReadForSubscription(d, s)
  <2>1. PICK s \in Subs : ReadForSubscription(d, s)
    BY <1>1
  <2>2. PICK status \in SubStatus : Turn(d, [do |-> "subscribe", sub |-> s, status |-> status])
    BY <2>1 DEF ReadForSubscription
  <2>3. [do |-> "subscribe", sub |-> s, status |-> status] \in Job
    BY DEF Job
  <2>4. QED
    BY <2>1, <2>2, <2>3 DEF ReadForSubscription
<1>2. CASE \E s \in Subs, to \in SubStatus : ReadForMove(d, s, to)
  <2>1. PICK s \in Subs, to \in SubStatus : ReadForMove(d, s, to)
    BY <1>2
  <2>2. [do |-> "move", sub |-> s, to |-> to] \in Job
    BY DEF Job
  <2>3. QED
    BY <2>1, <2>2 DEF ReadForMove
<1>3. CASE CountForPlan(d)
  <2>1. [do |-> "drop"] \in Job
    BY DEF Job
  <2>2. QED
    BY <1>3, <2>1 DEF CountForPlan
<1>4. CASE \E t \in Sheets, p \in Staff : ReadForSheet(d, t, p)
  <2>1. PICK t \in Sheets, p \in Staff : ReadForSheet(d, t, p)
    BY <1>4
  <2>2. [do |-> "record", sheet |-> t, by |-> p] \in Job
    BY DEF Job
  <2>3. QED
    BY <2>1, <2>2 DEF ReadForSheet
<1>5. CASE \E t \in Sheets, p \in Staff : ReadForEdit(d, p, t)
  <2>1. PICK t \in Sheets, p \in Staff : ReadForEdit(d, p, t)
    BY <1>5
  <2>2. [do |-> "edit", sheet |-> t] \in Job
    BY DEF Job
  <2>3. QED
    BY <2>1, <2>2 DEF ReadForEdit
<1>6. QED
  BY <1>1, <1>2, <1>3, <1>4, <1>5 DEF Reads

\* What a request that writes leaves: itself at rest.
LEMMA WritesRest ==
  ASSUME ContractsTyped, NEW d \in Desks, Writes(d)
  PROVE  /\ Ready \in Job /\ Turn(d, Ready)
         /\ UNCHANGED <<project, crossed>>
  BY DEF Writes, CreateSubscription, DeletePlan, SaveMove, CreateSheet, EditSheet, Job

\* What happens in one step, without a request's turn.
Sweeps ==
  \/ \E s \in Subs : DeleteSubscription(s)
  \/ \E t \in Sheets : DeleteSheet(t)
  \/ DeleteProject \/ DeleteRetainer
  \/ \E status \in RetainerStatus : SetRetainer(status)

\* The next-state relation, sorted into reads, writes and what takes one step.
LEMMA ContractsSteps == ContractsNext => Sweeps \/ \E d \in Desks : Reads(d) \/ Writes(d)
  BY DEF ContractsNext, Sweeps, Reads, Writes

\* Every step keeps the types.
LEMMA ContractsStayTyped == ContractsTyped /\ [ContractsNext]_contractVars => ContractsTyped'
<1> SUFFICES ASSUME ContractsTyped, [ContractsNext]_contractVars PROVE ContractsTyped'
  OBVIOUS
<1>1. CASE Sweeps
  BY <1>1 DEF Sweeps, DeleteSubscription, DeleteSheet, DeleteProject, DeleteRetainer, SetRetainer,
    ContractsTyped, SubStatus
<1>2. ASSUME NEW d \in Desks, Reads(d) PROVE ContractsTyped'
  <2>1. PICK job \in Job : Turn(d, job)
    BY <1>2, ReadsOnly
  <2>2. desk' \in [Desks -> Job]
    BY <2>1, Turned
  <2>3. QED
    BY <1>2, <2>2, ReadsOnly DEF ContractsTyped
<1>3. ASSUME NEW d \in Desks, Writes(d) PROVE ContractsTyped'
  <2>1. desk' \in [Desks -> Job] /\ project' = project
    BY <1>3, WritesRest, Turned
  <2>2. CASE CreateSubscription(d)
    BY <2>1, <2>2, JobFields DEF CreateSubscription, ContractsTyped
  <2>3. CASE DeletePlan(d)
    BY <2>1, <2>3 DEF DeletePlan, ContractsTyped
  <2>4. CASE SaveMove(d)
    BY <2>1, <2>4, JobFields DEF SaveMove, ContractsTyped
  <2>5. CASE CreateSheet(d)
    <3>1. [by |-> desk[d].by, edited |-> FALSE, placed |-> project = "kept"] \in Sheet
      BY <2>5, JobFields DEF CreateSheet, Sheet
    <3>2. QED
      BY <2>1, <2>5, <3>1 DEF CreateSheet, ContractsTyped
  <2>6. CASE EditSheet(d)
    <3>1. CASE sheet[desk[d].sheet] = NoSheet
      BY <2>1, <2>6, <3>1 DEF EditSheet, ContractsTyped
    <3>2. CASE sheet[desk[d].sheet] # NoSheet
      <4>1. sheet[desk[d].sheet] \in Sheet /\ desk[d].sheet \in Sheets
        BY <2>6, <3>2, JobFields DEF EditSheet, ContractsTyped
      <4>2. [sheet[desk[d].sheet] EXCEPT !.edited = TRUE] \in Sheet
        BY <4>1 DEF Sheet
      <4>3. sheet' = [sheet EXCEPT ![desk[d].sheet] = [sheet[desk[d].sheet] EXCEPT !.edited = TRUE]]
        BY <2>6, <3>2 DEF EditSheet
      <4>4. QED
        BY <2>1, <2>6, <4>1, <4>2, <4>3 DEF EditSheet, ContractsTyped
    <3>3. QED
      BY <3>1, <3>2
  <2>7. QED
    BY <1>3, <2>2, <2>3, <2>4, <2>5, <2>6 DEF Writes
<1>4. CASE UNCHANGED contractVars
  BY <1>4 DEF contractVars, ContractsTyped
<1>5. QED
  BY <1>1, <1>2, <1>3, <1>4, ContractsSteps

\* Nothing takes a subscription into use but the request that found the plan.
LEMMA UseGrows ==
  ASSUME ContractsInv, [ContractsNext]_contractVars, InUse', ~InUse
  PROVE  \E d \in Desks : CreateSubscription(d)
<1>1. PICK s \in Subs : sub'[s] \in SubStatus
  BY DEF InUse
<1>2. sub[s] \notin SubStatus
  BY DEF InUse
<1>3. ~ \E d \in Desks : Reads(d)
  BY <1>1, <1>2, ReadsOnly DEF ContractsInv
<1>4. ~ Sweeps
  BY <1>1, <1>2 DEF Sweeps, DeleteSubscription, DeleteSheet, DeleteProject, DeleteRetainer,
    SetRetainer, ContractsInv, ContractsTyped, SubStatus
<1>5. ASSUME NEW d \in Desks, SaveMove(d) PROVE FALSE
  <2>1. desk[d].sub \in Subs /\ sub[desk[d].sub] # "none"
    BY <1>5, JobFields DEF SaveMove, ContractsInv, MovesAllowed
  <2>2. sub[desk[d].sub] \in SubStatus \/ sub[desk[d].sub] = "deleted"
    BY <2>1 DEF ContractsInv, ContractsTyped
  <2>3. QED
    BY <1>1, <1>2, <1>5, <2>1, <2>2 DEF SaveMove, InUse
<1>6. sub' # sub
  BY <1>1, <1>2
<1>7. PICK d \in Desks : Writes(d)
  BY <1>3, <1>4, <1>6, ContractsSteps DEF contractVars
<1>8. QED
  BY <1>5, <1>6, <1>7 DEF Writes, DeletePlan, CreateSheet, EditSheet

\* No order of steps that did not cross takes the plan from under a subscription.
LEMMA PlansStayKept == ContractsInv /\ [ContractsNext]_contractVars => PlansKept'
<1> SUFFICES ASSUME ContractsInv, [ContractsNext]_contractVars, "plan" \notin crossed'
             PROVE  /\ InUse' => plan' = "kept"
                    /\ \A d \in Desks : desk'[d].do = "subscribe" => plan' = "kept"
                    /\ \A d \in Desks : desk'[d].do = "drop" =>
                         /\ ~InUse'
                         /\ \A e \in Desks : desk'[e].do # "subscribe"
  BY DEF PlansKept
<1> USE DEF ContractsInv
<1>1. CASE Sweeps
  <2>1. plan' = plan /\ desk' = desk /\ "plan" \notin crossed
    BY <1>1 DEF Sweeps, DeleteSubscription, DeleteSheet, DeleteProject, DeleteRetainer, SetRetainer
  <2>2. ASSUME NEW d \in Desks, CreateSubscription(d) PROVE FALSE
    <3>1. desk[d].do = "subscribe" /\ desk'[d] = Ready
      BY <2>2 DEF CreateSubscription, Turn, ContractsTyped
    <3>2. QED
      BY <2>1, <3>1 DEF Ready
  <2>3. InUse' => InUse
    BY <2>2, UseGrows
  <2>4. QED
    BY <2>1, <2>3 DEF PlansKept
<1>2. ASSUME NEW d \in Desks, Reads(d)
      PROVE  /\ InUse' => plan' = "kept"
             /\ \A e \in Desks : desk'[e].do = "subscribe" => plan' = "kept"
             /\ \A e \in Desks : desk'[e].do = "drop" =>
                  /\ ~InUse'
                  /\ \A f \in Desks : desk'[f].do # "subscribe"
  <2>1. PICK job \in Job : Turn(d, job)
    BY <1>2, ReadsOnly
  <2>2. \A e \in Desks : desk'[e] = IF e = d THEN job ELSE desk[e]
    BY <2>1, Turned
  <2>3. plan' = plan /\ sub' = sub /\ desk[d] = Ready
    BY <1>2, ReadsOnly
  <2>4. InUse' = InUse
    BY <2>3 DEF InUse
  <2>5. "plan" \notin crossed
    BY <1>2 DEF Reads, ReadForSubscription, ReadForMove, CountForPlan, ReadForSheet, ReadForEdit
  <2>6. ASSUME NEW s \in Subs, ReadForSubscription(d, s)
        PROVE  plan = "kept" /\ desk'[d].do = "subscribe" /\ ~At(d, "drop")
    <3>1. PICK status \in SubStatus : Turn(d, [do |-> "subscribe", sub |-> s, status |-> status])
      BY <2>6 DEF ReadForSubscription
    <3>2. desk'[d].do = "subscribe"
      BY <3>1 DEF Turn, ContractsTyped
    <3>3. QED
      BY <1>2, <2>5, <2>6, <3>2 DEF ReadForSubscription
  <2>7. CountForPlan(d) => ~InUse /\ plan = "kept" /\ desk'[d].do = "drop" /\ ~At(d, "subscribe")
    BY <2>5 DEF CountForPlan, Turn, ContractsTyped
  <2>8. \/ \E s \in Subs : ReadForSubscription(d, s)
        \/ CountForPlan(d)
        \/ desk'[d].do \notin {"subscribe", "drop"}
    BY <1>2 DEF Reads, ReadForMove, ReadForSheet, ReadForEdit, Turn, ContractsTyped
  <2>9. \A e \in Desks : e # d => desk'[e] = desk[e]
    BY <2>2
  <2>10. CASE \E s \in Subs : ReadForSubscription(d, s)
    BY <2>3, <2>4, <2>5, <2>6, <2>9, <2>10 DEF At, PlansKept
  <2>11. CASE CountForPlan(d)
    BY <2>3, <2>4, <2>5, <2>7, <2>9, <2>11 DEF At, PlansKept
  <2>12. CASE desk'[d].do \notin {"subscribe", "drop"}
    BY <2>3, <2>4, <2>5, <2>9, <2>12 DEF PlansKept
  <2>13. QED
    BY <2>8, <2>10, <2>11, <2>12
<1>3. ASSUME NEW d \in Desks, Writes(d)
      PROVE  /\ InUse' => plan' = "kept"
             /\ \A e \in Desks : desk'[e].do = "subscribe" => plan' = "kept"
             /\ \A e \in Desks : desk'[e].do = "drop" =>
                  /\ ~InUse'
                  /\ \A f \in Desks : desk'[f].do # "subscribe"
  <2>1. /\ \A e \in Desks : desk'[e] = IF e = d THEN Ready ELSE desk[e]
        /\ "plan" \notin crossed
    BY <1>3, WritesRest, Turned
  <2>2. \A e \in Desks : desk'[e].do \in {"subscribe", "drop"} => e # d /\ desk'[e] = desk[e]
    BY <2>1 DEF Ready
  <2>3. CASE CreateSubscription(d)
    <3>1. desk[d].do = "subscribe" /\ plan' = plan
      BY <2>3 DEF CreateSubscription
    <3>2. plan = "kept" /\ \A e \in Desks : desk[e].do # "drop"
      BY <2>1, <3>1 DEF PlansKept
    <3>3. QED
      BY <2>2, <3>1, <3>2
  <2>4. CASE DeletePlan(d)
    <3>1. desk[d].do = "drop" /\ sub' = sub
      BY <2>4 DEF DeletePlan
    <3>2. ~InUse' /\ \A e \in Desks : desk[e].do # "subscribe"
      BY <2>1, <3>1 DEF PlansKept, InUse
    <3>3. QED
      BY <2>2, <3>2
  <2>5. CASE ~CreateSubscription(d) /\ ~DeletePlan(d)
    <3>1. plan' = plan
      BY <1>3, <2>5 DEF Writes, SaveMove, CreateSheet, EditSheet
    <3>2. InUse' => InUse \/ \E e \in Desks : CreateSubscription(e)
      BY UseGrows
    <3>3. ASSUME NEW e \in Desks, CreateSubscription(e) PROVE FALSE
      <4>1. desk[e].do = "subscribe" /\ desk'[e] = Ready
        BY <3>3 DEF CreateSubscription, Turn, ContractsTyped
      <4>2. e = d
        BY <2>1, <4>1 DEF Ready
      <4>3. QED
        BY <2>5, <3>3, <4>2
    <3>4. QED
      BY <2>1, <2>2, <3>1, <3>2, <3>3 DEF PlansKept
  <2>6. QED
    BY <2>3, <2>4, <2>5
<1>4. CASE UNCHANGED contractVars
  BY <1>4 DEF contractVars, PlansKept, InUse
<1>5. QED
  BY <1>1, <1>2, <1>3, <1>4, ContractsSteps

\* Nor the project from under the timesheet that is about to be stored on it.
LEMMA SheetsStayPlaced == ContractsInv /\ [ContractsNext]_contractVars => SheetsPlaced'
<1> SUFFICES ASSUME ContractsInv, [ContractsNext]_contractVars, "project" \notin crossed'
             PROVE  /\ \A d \in Desks : desk'[d].do = "record" => project' = "kept"
                    /\ \A t \in Sheets : sheet'[t].placed
  BY DEF SheetsPlaced
<1> USE DEF ContractsInv
<1>1. ASSUME NEW d \in Desks, Reads(d)
      PROVE  /\ \A e \in Desks : desk'[e].do = "record" => project' = "kept"
             /\ \A t \in Sheets : sheet'[t].placed
  <2>1. PICK job \in Job : Turn(d, job)
    BY <1>1, ReadsOnly
  <2>2. \A e \in Desks : desk'[e] = IF e = d THEN job ELSE desk[e]
    BY <2>1, Turned
  <2>3. project' = project /\ sheet' = sheet
    BY <1>1, ReadsOnly
  <2>4. "project" \notin crossed
    BY <1>1 DEF Reads, ReadForSubscription, ReadForMove, CountForPlan, ReadForSheet, ReadForEdit
  <2>5. project = "kept" \/ desk'[d].do # "record"
    BY <1>1 DEF Reads, ReadForSubscription, ReadForMove, CountForPlan, ReadForSheet, ReadForEdit,
      Turn, ContractsTyped
  <2>6. QED
    BY <2>2, <2>3, <2>4, <2>5 DEF SheetsPlaced
<1>2. ASSUME NEW d \in Desks, Writes(d)
      PROVE  /\ \A e \in Desks : desk'[e].do = "record" => project' = "kept"
             /\ \A t \in Sheets : sheet'[t].placed
  <2>1. /\ \A e \in Desks : desk'[e] = IF e = d THEN Ready ELSE desk[e]
        /\ project' = project /\ "project" \notin crossed
    BY <1>2, WritesRest, Turned
  <2>2. \A e \in Desks : desk'[e].do = "record" => desk'[e] = desk[e]
    BY <2>1 DEF Ready
  <2>3. CASE CreateSheet(d)
    <3>1. project = "kept" /\ desk[d].sheet \in Sheets
      BY <2>1, <2>3, JobFields DEF CreateSheet, SheetsPlaced
    <3>2. \A t \in Sheets : sheet'[t].placed = IF t = desk[d].sheet THEN TRUE ELSE sheet[t].placed
      BY <2>3, <3>1 DEF CreateSheet, ContractsTyped
    <3>3. QED
      BY <2>1, <2>2, <3>1, <3>2 DEF SheetsPlaced
  <2>4. CASE EditSheet(d)
    <3>1. desk[d].sheet \in Sheets
      BY <2>4, JobFields DEF EditSheet
    <3>2. \A t \in Sheets : sheet'[t].placed = sheet[t].placed
      BY <2>4, <3>1 DEF EditSheet, ContractsTyped, Sheet
    <3>3. QED
      BY <2>1, <2>2, <3>2 DEF SheetsPlaced
  <2>5. CASE ~CreateSheet(d) /\ ~EditSheet(d)
    <3>1. sheet' = sheet
      BY <1>2, <2>5 DEF Writes, CreateSubscription, DeletePlan, SaveMove
    <3>2. QED
      BY <2>1, <2>2, <3>1 DEF SheetsPlaced
  <2>6. QED
    BY <2>3, <2>4, <2>5
<1>3. CASE Sweeps
  <2>1. "project" \notin crossed /\ desk' = desk
    BY <1>3 DEF Sweeps, DeleteSubscription, DeleteSheet, DeleteProject, DeleteRetainer, SetRetainer
  <2>2. project' = project \/ \A d \in Desks : desk[d].do # "record"
    BY <1>3 DEF Sweeps, DeleteSubscription, DeleteSheet, DeleteProject, DeleteRetainer, SetRetainer
  <2>3. \A t \in Sheets : sheet'[t].placed
    <3>1. CASE \E t \in Sheets : DeleteSheet(t)
      BY <2>1, <3>1 DEF DeleteSheet, SheetsPlaced, ContractsTyped, NoSheet
    <3>2. CASE sheet' = sheet
      BY <2>1, <3>2 DEF SheetsPlaced
    <3>3. QED
      BY <1>3, <3>1, <3>2 DEF Sweeps, DeleteSubscription, DeleteProject, DeleteRetainer, SetRetainer
  <2>4. QED
    BY <2>1, <2>2, <2>3 DEF SheetsPlaced
<1>4. CASE UNCHANGED contractVars
  BY <1>4 DEF contractVars, SheetsPlaced
<1>5. QED
  BY <1>1, <1>2, <1>3, <1>4, ContractsSteps

\* What two overlapping moves leave marked stays so.
LEMMA CrossedStays ==
  ASSUME [ContractsNext]_contractVars PROVE crossed \subseteq crossed'
<1>1. ASSUME NEW d \in Desks, Reads(d) \/ Writes(d) PROVE crossed \subseteq crossed'
  BY <1>1 DEF Reads, Writes, ReadForSubscription, ReadForMove, CountForPlan, ReadForSheet,
    ReadForEdit, CreateSubscription, DeletePlan, SaveMove, CreateSheet, EditSheet
<1>2. CASE Sweeps
  BY <1>2 DEF Sweeps, DeleteSubscription, DeleteSheet, DeleteProject, DeleteRetainer, SetRetainer
<1>3. QED
  BY <1>1, <1>2, ContractsSteps DEF contractVars

\* A subscription once made is never unmade, and one that a lone request moves changes under it
\* only by being deleted.
LEMMA OnlyMoversMove ==
  ASSUME ContractsInv, [ContractsNext]_contractVars, NEW s \in Subs
  PROVE  /\ sub[s] # "none" => sub'[s] # "none"
         /\ \/ sub'[s] = sub[s] \/ sub'[s] = "deleted" \/ sub[s] = "none"
            \/ \E d \in Desks : /\ desk[d].do = "move" /\ desk[d].sub = s
                                /\ Turn(d, Ready) /\ sub'[s] = desk[d].to
<1> USE DEF ContractsInv
<1>1. CASE Sweeps
  <2>1. CASE \E q \in Subs : DeleteSubscription(q)
    BY <2>1 DEF DeleteSubscription, ContractsTyped
  <2>2. CASE sub' = sub
    BY <2>2
  <2>3. QED
    BY <1>1, <2>1, <2>2 DEF Sweeps, DeleteSheet, DeleteProject, DeleteRetainer, SetRetainer
<1>2. ASSUME NEW d \in Desks, Reads(d) PROVE sub' = sub
  BY <1>2, ReadsOnly
<1>3. ASSUME NEW d \in Desks, CreateSubscription(d)
      PROVE  /\ sub[s] # "none" => sub'[s] # "none"
             /\ sub'[s] = sub[s] \/ sub[s] = "none"
  BY <1>3, JobFields DEF CreateSubscription, ContractsTyped
<1>4. ASSUME NEW d \in Desks, SaveMove(d)
      PROVE  /\ sub[s] # "none" => sub'[s] # "none"
             /\ \/ sub'[s] = sub[s]
                \/ /\ desk[d].do = "move" /\ desk[d].sub = s
                   /\ Turn(d, Ready) /\ sub'[s] = desk[d].to
  <2>1. desk[d].do = "move" /\ desk[d].sub \in Subs /\ desk[d].to \in SubStatus /\ Turn(d, Ready)
    BY <1>4, JobFields DEF SaveMove
  <2>2. CASE sub[desk[d].sub] = "deleted"
    BY <1>4, <2>2 DEF SaveMove
  <2>3. CASE sub[desk[d].sub] # "deleted"
    <3>1. sub'[s] = IF s = desk[d].sub THEN desk[d].to ELSE sub[s]
      BY <1>4, <2>1, <2>3 DEF SaveMove, ContractsTyped
    <3>2. QED
      BY <2>1, <3>1 DEF SubStatus
  <2>4. QED
    BY <2>2, <2>3
<1>5. ASSUME NEW d \in Desks, Writes(d), ~CreateSubscription(d), ~SaveMove(d) PROVE sub' = sub
  BY <1>5 DEF Writes, DeletePlan, CreateSheet, EditSheet
<1>6. CASE UNCHANGED contractVars
  BY <1>6 DEF contractVars
<1>7. QED
  BY <1>1, <1>2, <1>3, <1>4, <1>5, <1>6, ContractsSteps

\* Nor the status from under the request that alone is moving a subscription.
LEMMA MovesStayAllowed == ContractsInv /\ [ContractsNext]_contractVars => MovesAllowed'
<1> SUFFICES ASSUME ContractsInv, [ContractsNext]_contractVars,
                    NEW d \in Desks, desk'[d].do = "move"
             PROVE  /\ sub'[desk'[d].sub] # "none"
                    /\ desk'[d].sub \notin crossed' =>
                         /\ \/ sub'[desk'[d].sub] = "deleted"
                            \/ desk'[d].to \in Transitions(sub'[desk'[d].sub])
                         /\ \A e \in Desks :
                              desk'[e].do = "move" /\ desk'[e].sub = desk'[d].sub => e = d
  BY DEF MovesAllowed
<1> USE DEF ContractsInv
<1>1. \A e \in Desks : desk'[e].do = "move" =>
        desk'[e] = desk[e] \/ \E s \in Subs, to \in SubStatus : ReadForMove(e, s, to)
  <2>1. ASSUME NEW e \in Desks, desk'[e].do = "move", NEW f \in Desks, Reads(f)
        PROVE  desk'[e] = desk[e] \/ \E s \in Subs, to \in SubStatus : ReadForMove(e, s, to)
    <3>1. PICK job \in Job : Turn(f, job)
      BY <2>1, ReadsOnly
    <3>2. e # f => desk'[e] = desk[e]
      BY <3>1, Turned
    <3>3. CASE e = f
      BY <2>1, <3>3 DEF Reads, ReadForSubscription, CountForPlan, ReadForSheet, ReadForEdit, Turn,
        ContractsTyped
    <3>4. QED
      BY <3>2, <3>3
  <2>2. ASSUME NEW e \in Desks, desk'[e].do = "move", NEW f \in Desks, Writes(f)
        PROVE  desk'[e] = desk[e]
    <3>1. desk'[e] = IF e = f THEN Ready ELSE desk[e]
      BY <2>2, WritesRest, Turned
    <3>2. QED
      BY <2>2, <3>1 DEF Ready
  <2>3. Sweeps => desk' = desk
    BY DEF Sweeps, DeleteSubscription, DeleteSheet, DeleteProject, DeleteRetainer, SetRetainer
  <2>4. QED
    BY <2>1, <2>2, <2>3, ContractsSteps DEF contractVars
<1>2. CASE \E e \in Desks, s \in Subs, to \in SubStatus : ReadForMove(e, s, to)
  <2>1. PICK e \in Desks, s \in Subs, to \in SubStatus : ReadForMove(e, s, to)
    BY <1>2
  <2>2. /\ \A f \in Desks : desk'[f] = IF f = e THEN [do |-> "move", sub |-> s, to |-> to]
                                       ELSE desk[f]
        /\ sub' = sub /\ sub[s] \in SubStatus /\ to \in Transitions(sub[s]) /\ desk[e] = Ready
    BY <2>1 DEF ReadForMove, Turn, ContractsTyped
  <2>3. s \notin crossed' => \A f \in Desks : ~ (desk[f].do = "move" /\ desk[f].sub = s)
    BY <2>1 DEF ReadForMove
  <2>4. CASE d = e
    BY <2>2, <2>3, <2>4 DEF SubStatus
  <2>5. CASE d # e
    <3>1. desk'[d] = desk[d]
      BY <2>2, <2>5
    <3>2. desk[d].sub \notin crossed' => desk[d].sub \notin crossed /\ desk[d].sub # s
      BY <2>3, <3>1, CrossedStays
    <3>3. QED
      BY <2>2, <2>5, <3>1, <3>2 DEF MovesAllowed
  <2>6. QED
    BY <2>4, <2>5
<1>3. CASE ~ \E e \in Desks, s \in Subs, to \in SubStatus : ReadForMove(e, s, to)
  <2>1. \A e \in Desks : desk'[e].do = "move" => desk'[e] = desk[e]
    BY <1>1, <1>3
  <2>2. desk'[d] = desk[d] /\ desk[d].do = "move" /\ desk[d].sub \in Subs
    BY <2>1, JobFields
  <2>3. sub[desk[d].sub] # "none" /\ sub'[desk[d].sub] # "none"
    BY <2>2, OnlyMoversMove DEF MovesAllowed
  <2>4. ASSUME desk[d].sub \notin crossed'
        PROVE  /\ \/ sub'[desk[d].sub] = "deleted"
                  \/ desk[d].to \in Transitions(sub'[desk[d].sub])
               /\ \A e \in Desks : desk'[e].do = "move" /\ desk'[e].sub = desk[d].sub => e = d
    <3>1. /\ sub[desk[d].sub] = "deleted" \/ desk[d].to \in Transitions(sub[desk[d].sub])
          /\ \A e \in Desks : desk[e].do = "move" /\ desk[e].sub = desk[d].sub => e = d
      BY <2>2, <2>4, CrossedStays DEF MovesAllowed
    <3>2. ASSUME NEW e \in Desks, desk[e].do = "move", desk[e].sub = desk[d].sub, Turn(e, Ready)
          PROVE  FALSE
      <4>1. e = d
        BY <3>1, <3>2
      <4>2. desk'[d] = Ready
        BY <3>2, <4>1 DEF Turn, ContractsTyped
      <4>3. QED
        BY <4>2 DEF Ready
    <3>3. sub'[desk[d].sub] = sub[desk[d].sub] \/ sub'[desk[d].sub] = "deleted"
      BY <2>2, <2>3, <3>2, OnlyMoversMove
    <3>4. sub[desk[d].sub] = "deleted" => sub'[desk[d].sub] = "deleted"
      BY <3>3
    <3>5. QED
      BY <2>1, <3>1, <3>3, <3>4
  <2>5. QED
    BY <2>2, <2>3, <2>4
<1>4. QED
  BY <1>2, <1>3

\* A lone request finds no status to give to a subscription that is canceled or unpaid.
LEMMA EndedStays ==
  ASSUME ContractsInv, [ContractsNext]_contractVars,
         NEW s \in Subs, sub[s] \in {"canceled", "unpaid"}, s \notin crossed
  PROVE  sub'[s] \in {sub[s], "deleted"}
<1>1. \A d \in Desks : ~ (desk[d].do = "move" /\ desk[d].sub = s)
  <2> SUFFICES ASSUME NEW d \in Desks, desk[d].do = "move", desk[d].sub = s PROVE FALSE
    OBVIOUS
  <2>1. desk[d].to \in Transitions(sub[s])
    BY DEF ContractsInv, MovesAllowed
  <2>2. Transitions(sub[s]) = {}
    BY DEF Transitions
  <2>3. QED
    BY <2>1, <2>2
<1>2. QED
  BY <1>1, OnlyMoversMove

LEMMA ContractsStep == ContractsInv /\ [ContractsNext]_contractVars => ContractsInv'
  BY ContractsStayTyped, PlansStayKept, SheetsStayPlaced, MovesStayAllowed DEF ContractsInv

\* For any number of requests, subscriptions and timesheets: a subscription has its plan, and a
\* timesheet had its project when it was stored, unless the deletion crossed the request.
THEOREM ReferencesAlwaysHold == ContractsSpec => []ReferencesHold
<1>1. ContractsInv => ReferencesHold
  BY DEF ContractsInv, ContractsTyped, PlansKept, SheetsPlaced, ReferencesHold
<1>2. QED
  BY <1>1, ContractsStart, ContractsStep, PTL DEF ContractsSpec

\* For any number of requests: no order of them revives a subscription that is canceled or
\* unpaid, unless two that move it overlapped.
THEOREM SubscriptionsStayEnded == ContractsSpec => SubscriptionsEnd
<1>1. ContractsInv /\ [ContractsNext]_contractVars =>
        [\A s \in Subs : sub[s] \in {"canceled", "unpaid"} /\ s \notin crossed =>
           sub'[s] \in {sub[s], "deleted"}]_contractVars
  BY EndedStays
<1>2. QED
  BY <1>1, ContractsStart, ContractsStep, PTL DEF ContractsSpec, SubscriptionsEnd
-----------------------------------------------------------------------------
(* Organization: what requests hold *)

Provision == [do : {"provide"}, fields : SUBSET Names, rules : SUBSET Names]
Errand ==
  {Off} \cup Provision
  \cup [do : {"save"}, read : Doc, to : Doc, fields : SUBSET Names, rules : SUBSET Names]
  \cup [do : {"rule"}, name : Names, then : Provision]

OrgTyped == OrgTypeOK /\ clerk \in [Clerks -> Errand]

\* A save whose document has still the version that was read finds the modules it read.
ReadAsIs ==
  \A c \in Clerks : clerk[c].do = "save" =>
    /\ clerk[c].read.v <= doc.v
    /\ clerk[c].read.v = doc.v => clerk[c].read.modules = doc.modules

\* Unless it is excused, a rule that a request is about to create is not there, and nobody else
\* is about to create it.
RulesLookedFor ==
  \A n \in Names \ excused :
    /\ rules[n] <= 1
    /\ \A c \in Clerks : clerk[c].do = "rule" /\ clerk[c].name = n =>
         /\ rules[n] = 0
         /\ \A e \in Clerks : clerk[e].do = "rule" /\ clerk[e].name = n => e = c

OrgInv == OrgTyped /\ ReadAsIs /\ RulesLookedFor

\* The organization has the modules of its preset, and its fields are still to come.
LEMMA OrgStart == OrgInit => OrgInv
<1> SUFFICES ASSUME OrgInit PROVE OrgInv
  OBVIOUS
<1>1. PICK m \in Models, c0 \in Clerks :
        /\ doc = [model |-> m, modules |-> Preset[m].modules, audited |-> {}, v |-> 0,
                  onboarded |-> FALSE]
        /\ clerk = [x \in Clerks |-> IF x # c0 THEN Off
                      ELSE [do |-> "provide", fields |-> Preset[m].fields, rules |-> {}]]
        /\ fields = {} /\ rules = [n \in Names |-> 0]
        /\ asked = 0 /\ stops = 0 /\ excused = {}
  BY DEF OrgInit
<1>2. Preset[m].modules \subseteq Modules /\ Preset[m].fields \subseteq Names
  BY OrganizationAssumption
<1>3. doc \in Doc
  BY <1>1, <1>2 DEF Doc
<1>4. OrgTypeOK
  BY <1>1, <1>3, OrganizationAssumption DEF OrgTypeOK
<1>5. [do |-> "provide", fields |-> Preset[m].fields, rules |-> {}] \in Provision
  BY <1>2 DEF Provision
<1>6. clerk \in [Clerks -> Errand]
  BY <1>1, <1>5 DEF Errand
<1>7. \A c \in Clerks : clerk[c].do \in {"off", "provide"}
  BY <1>1 DEF Off
<1>8. ReadAsIs
  BY <1>7 DEF ReadAsIs
<1>9. RulesLookedFor
  BY <1>1, <1>7 DEF RulesLookedFor
<1>10. QED
  BY <1>4, <1>6, <1>8, <1>9 DEF OrgInv, OrgTyped

\* What a request has read and has still to create.
LEMMA ErrandFields ==
  ASSUME OrgTyped, NEW c \in Clerks
  PROVE  /\ clerk[c].do = "save" =>
              /\ clerk[c].read \in Doc /\ clerk[c].to \in Doc
              /\ clerk[c].fields \subseteq Names /\ clerk[c].rules \subseteq Names
         /\ clerk[c].do = "provide" => clerk[c] \in Provision
         /\ clerk[c].do = "rule" => clerk[c].name \in Names /\ clerk[c].then \in Provision
  BY DEF OrgTyped, Errand, Off, Provision

\* A request that goes on leaves the others where they are.
LEMMA ClerksApart ==
  ASSUME OrgTyped, NEW c \in Clerks, NEW turn \in Errand, clerk' = [clerk EXCEPT ![c] = turn]
  PROVE  /\ clerk' \in [Clerks -> Errand]
         /\ \A e \in Clerks : clerk'[e] = IF e = c THEN turn ELSE clerk[e]
  BY DEF OrgTyped

Asks(c) ==
  \/ \E ms \in SUBSET Modules, on \in BOOLEAN : AskSettings(c, ms, on)
  \/ \E m \in Models : AskSwitchModel(c, m)
  \/ \E a \in Plans : AskArchitecture(c, a)

\* Every request asks for a document that could be there, from the one that is.
LEMMA AskedFor ==
  ASSUME OrgTyped, NEW c \in Clerks, Asks(c)
  PROVE  \E to \in Doc, fs \in SUBSET Names, rs \in SUBSET Names : Ask(c, to, fs, rs)
<1>0. doc \in Doc
  BY DEF OrgTyped, OrgTypeOK
<1>1. ASSUME NEW ms \in SUBSET Modules, NEW on \in BOOLEAN, AskSettings(c, ms, on)
      PROVE  \E to \in Doc, fs \in SUBSET Names, rs \in SUBSET Names : Ask(c, to, fs, rs)
  <2>1. [doc EXCEPT !.modules = ms, !.audited = Audited(doc, ms), !.onboarded = on] \in Doc
    BY <1>0 DEF Doc, Audited
  <2>2. QED
    BY <1>1, <2>1 DEF AskSettings
<1>2. ASSUME NEW m \in Models, AskSwitchModel(c, m)
      PROVE  \E to \in Doc, fs \in SUBSET Names, rs \in SUBSET Names : Ask(c, to, fs, rs)
  <2>1. Preset[m].modules \subseteq Modules /\ Preset[m].fields \in SUBSET Names
    BY OrganizationAssumption
  <2>2. [doc EXCEPT !.model = m, !.modules = @ \cup Preset[m].modules] \in Doc
    BY <1>0, <2>1 DEF Doc
  <2>3. QED
    BY <1>2, <2>1, <2>2 DEF AskSwitchModel
<1>3. ASSUME NEW a \in Plans, AskArchitecture(c, a)
      PROVE  \E to \in Doc, fs \in SUBSET Names, rs \in SUBSET Names : Ask(c, to, fs, rs)
  <2>1. /\ a.model \in Models /\ a.modules \subseteq Modules
        /\ a.fields \in SUBSET Names /\ a.rules \in SUBSET Names
    BY OrganizationAssumption
  <2>2. [doc EXCEPT !.model = a.model, !.modules = @ \cup a.modules,
                    !.audited = Audited(doc, a.modules), !.onboarded = TRUE] \in Doc
    BY <1>0, <2>1 DEF Doc, Audited
  <2>3. QED
    BY <1>3, <2>1, <2>2 DEF AskArchitecture
<1>4. QED
  BY <1>1, <1>2, <1>3 DEF Asks

\* What a save does to the document, and to the request.
LEMMA SaveDocSteps ==
  ASSUME OrgTyped, NEW c \in Clerks, SaveDoc(c)
  PROVE  /\ doc' \in Doc
         /\ \/ doc' = doc /\ Put(c, Off)
            \/ /\ Put(c, [do |-> "provide", fields |-> clerk[c].fields, rules |-> clerk[c].rules])
               /\ \/ doc'.modules = doc.modules /\ doc'.v \in {doc.v, doc.v + 1}
                  \/ doc.v = clerk[c].read.v /\ doc'.v = doc.v + 1
<1>1. clerk[c].read \in Doc /\ clerk[c].to \in Doc /\ doc \in Doc
  BY ErrandFields DEF SaveDoc, OrgTyped, OrgTypeOK
<1>2. CASE Stale(clerk[c])
  BY <1>1, <1>2 DEF SaveDoc
<1>3. CASE ~Stale(clerk[c])
  <2>1. /\ doc' = Written(clerk[c])
        /\ Put(c, [do |-> "provide", fields |-> clerk[c].fields, rules |-> clerk[c].rules])
    BY <1>3 DEF SaveDoc
  <2>2. Written(clerk[c]) \in Doc
    BY <1>1 DEF Written, Doc
  <2>3. CASE Replaces(clerk[c])
    BY <1>3, <2>1, <2>2, <2>3 DEF Stale, Written
  <2>4. CASE ~Replaces(clerk[c])
    BY <2>1, <2>2, <2>4 DEF Written, Replaces
  <2>5. QED
    BY <2>3, <2>4
<1>4. QED
  BY <1>2, <1>3

\* Looking for fields and rules, and ending, leave one of these and the document as it is.
Provides(c) == ProvideField(c) \/ Answer(c) \/ Stop(c)

\* A request that provides, answers or stops goes on with the errand it had, or none.
LEMMA ProvidesOn ==
  ASSUME OrgTyped, NEW c \in Clerks, Provides(c)
  PROVE  /\ \E turn \in {Off} \cup Provision : Put(c, turn)
         /\ OrgTypeOK' /\ UNCHANGED <<doc, rules, excused>>
<1>1. CASE ProvideField(c)
  <2>1. PICK n \in clerk[c].fields :
          /\ fields' = fields \cup {n}
          /\ \/ Put(c, [clerk[c] EXCEPT !.fields = @ \ {n}])
             \/ n \in fields /\ Put(c, Off)
    BY <1>1 DEF ProvideField
  <2>2. clerk[c] \in Provision
    BY <1>1, ErrandFields DEF ProvideField
  <2>3. n \in Names /\ [clerk[c] EXCEPT !.fields = @ \ {n}] \in Provision
    BY <2>2 DEF Provision
  <2>4. QED
    BY <1>1, <2>1, <2>3 DEF ProvideField, OrgTyped, OrgTypeOK
<1>2. CASE Answer(c)
  BY <1>2 DEF Answer, OrgTyped, OrgTypeOK
<1>3. CASE Stop(c)
  BY <1>3, OrganizationAssumption DEF Stop, OrgTyped, OrgTypeOK
<1>4. QED
  BY <1>1, <1>2, <1>3 DEF Provides

\* What users write and delete themselves.
ByHand ==
  \E n \in Names : \/ CreateCustomField(n) \/ DeleteCustomField(n)
                   \/ CreateBusinessRule(n) \/ DeleteBusinessRule(n)

\* The next-state relation, sorted into what requests do and what users write by hand.
LEMMA OrgSteps ==
  OrgNext =>
    \/ ByHand
    \/ \E c \in Clerks : Asks(c) \/ SaveDoc(c) \/ Provides(c) \/ LookForRule(c) \/ ProvideRule(c)
  BY DEF OrgNext, ByHand, Asks, Provides

\* What users write by hand leaves the document and the requests alone.
LEMMA ByHandOnly ==
  ASSUME OrgTyped, ByHand
  PROVE  OrgTypeOK' /\ UNCHANGED <<doc, clerk>> /\ excused \subseteq excused'
<1> USE DEF OrgTyped, OrgTypeOK
<1>1. PICK n \in Names : \/ CreateCustomField(n) \/ DeleteCustomField(n)
                         \/ CreateBusinessRule(n) \/ DeleteBusinessRule(n)
  BY DEF ByHand
<1>2. CASE CreateCustomField(n) \/ DeleteCustomField(n)
  BY <1>2 DEF CreateCustomField, DeleteCustomField
<1>3. CASE CreateBusinessRule(n)
  <2>1. asked' \in 0..MaxAsk
    BY <1>3, OrganizationAssumption DEF CreateBusinessRule
  <2>2. QED
    BY <1>3, <2>1 DEF CreateBusinessRule
<1>4. CASE DeleteBusinessRule(n)
  <2>1. rules[n] - 1 \in Nat
    BY <1>4 DEF DeleteBusinessRule
  <2>2. QED
    BY <1>4, <2>1 DEF DeleteBusinessRule
<1>5. QED
  BY <1>1, <1>2, <1>3, <1>4

\* The look for a rule: the request goes on without it, or is about to create it.
LEMMA RuleLookedFor ==
  ASSUME OrgTyped, NEW c \in Clerks, LookForRule(c)
  PROVE  \E n \in Names, rest \in Provision :
           /\ Put(c, IF Missing(n) THEN [do |-> "rule", name |-> n, then |-> rest] ELSE rest)
           /\ excused' = IF Looking(n) THEN excused \cup {n} ELSE excused
<1>1. clerk[c] \in Provision
  BY ErrandFields DEF LookForRule
<1>2. PICK n \in clerk[c].rules :
        /\ Put(c, IF Missing(n)
                  THEN [do |-> "rule", name |-> n, then |-> [clerk[c] EXCEPT !.rules = @ \ {n}]]
                  ELSE [clerk[c] EXCEPT !.rules = @ \ {n}])
        /\ excused' = IF Looking(n) THEN excused \cup {n} ELSE excused
  BY DEF LookForRule
<1>3. n \in Names /\ [clerk[c] EXCEPT !.rules = @ \ {n}] \in Provision
  BY <1>1 DEF Provision
<1>4. QED
  BY <1>2, <1>3

\* Every step keeps the types.
LEMMA OrgStaysTyped == OrgTyped /\ [OrgNext]_orgVars => OrgTyped'
<1> SUFFICES ASSUME OrgTyped, [OrgNext]_orgVars PROVE OrgTypeOK' /\ clerk' \in [Clerks -> Errand]
  BY DEF OrgTyped
<1>1. CASE ByHand
  BY <1>1, ByHandOnly DEF OrgTyped
<1>2. ASSUME NEW c \in Clerks, Asks(c) PROVE OrgTypeOK' /\ clerk' \in [Clerks -> Errand]
  <2>1. PICK to \in Doc, fs \in SUBSET Names, rs \in SUBSET Names : Ask(c, to, fs, rs)
    BY <1>2, AskedFor
  <2>2. doc \in Doc
    BY DEF OrgTyped, OrgTypeOK
  <2>3. [do |-> "save", read |-> doc, to |-> to, fields |-> fs, rules |-> rs] \in Errand
    BY <2>2 DEF Errand
  <2>4. clerk' \in [Clerks -> Errand]
    BY <2>1, <2>3, ClerksApart DEF Ask, Put
  <2>5. asked' \in 0..MaxAsk
    BY <2>1, OrganizationAssumption DEF Ask, OrgTyped, OrgTypeOK
  <2>6. QED
    BY <2>1, <2>4, <2>5 DEF Ask, OrgTyped, OrgTypeOK
<1>3. ASSUME NEW c \in Clerks, SaveDoc(c) PROVE OrgTypeOK' /\ clerk' \in [Clerks -> Errand]
  <2>1. /\ [do |-> "provide", fields |-> clerk[c].fields, rules |-> clerk[c].rules] \in Errand
        /\ Off \in Errand
    BY <1>3, ErrandFields DEF SaveDoc, Errand, Provision
  <2>2. clerk' \in [Clerks -> Errand]
    BY <1>3, <2>1, SaveDocSteps, ClerksApart DEF Put
  <2>3. QED
    BY <1>3, <2>2, SaveDocSteps DEF SaveDoc, OrgTyped, OrgTypeOK
<1>4. ASSUME NEW c \in Clerks, Provides(c) PROVE OrgTypeOK' /\ clerk' \in [Clerks -> Errand]
  <2>1. PICK turn \in {Off} \cup Provision : Put(c, turn)
    BY <1>4, ProvidesOn
  <2>2. QED
    BY <1>4, <2>1, ProvidesOn, ClerksApart DEF Put, Errand
<1>5. ASSUME NEW c \in Clerks, LookForRule(c) PROVE OrgTypeOK' /\ clerk' \in [Clerks -> Errand]
  <2>1. PICK n \in Names, rest \in Provision :
          /\ Put(c, IF Missing(n) THEN [do |-> "rule", name |-> n, then |-> rest] ELSE rest)
          /\ excused' = IF Looking(n) THEN excused \cup {n} ELSE excused
    BY <1>5, RuleLookedFor
  <2>2. [do |-> "rule", name |-> n, then |-> rest] \in Errand /\ rest \in Errand
    BY DEF Errand
  <2>3. clerk' \in [Clerks -> Errand]
    BY <2>1, <2>2, ClerksApart DEF Put
  <2>4. QED
    BY <1>5, <2>1, <2>3 DEF LookForRule, OrgTyped, OrgTypeOK
<1>6. ASSUME NEW c \in Clerks, ProvideRule(c) PROVE OrgTypeOK' /\ clerk' \in [Clerks -> Errand]
  <2>1. clerk[c].name \in Names /\ clerk[c].then \in Errand
    BY <1>6, ErrandFields DEF ProvideRule, Errand
  <2>2. clerk' \in [Clerks -> Errand]
    BY <1>6, <2>1, ClerksApart DEF ProvideRule, Put
  <2>3. QED
    BY <1>6, <2>1, <2>2 DEF ProvideRule, OrgTyped, OrgTypeOK
<1>7. CASE UNCHANGED orgVars
  BY <1>7 DEF orgVars, OrgTyped, OrgTypeOK
<1>8. QED
  BY <1>1, <1>2, <1>3, <1>4, <1>5, <1>6, <1>7, OrgSteps

\* Only a save changes the document, and only one that matched the version takes it to the next.
LEMMA OrgReadsAsIs == OrgTyped /\ ReadAsIs /\ [OrgNext]_orgVars => ReadAsIs'
<1> SUFFICES ASSUME OrgTyped, ReadAsIs, [OrgNext]_orgVars,
                    NEW e \in Clerks, clerk'[e].do = "save"
             PROVE  /\ clerk'[e].read.v <= doc'.v
                    /\ clerk'[e].read.v = doc'.v => clerk'[e].read.modules = doc'.modules
  BY DEF ReadAsIs
<1> DEFINE Fits == /\ clerk'[e].read.v <= doc'.v
                   /\ clerk'[e].read.v = doc'.v => clerk'[e].read.modules = doc'.modules
<1>1. ASSUME clerk'[e] = clerk[e], doc' = doc PROVE Fits
  BY <1>1 DEF ReadAsIs
<1>2. doc \in Doc /\ doc.v \in Nat
  BY DEF OrgTyped, OrgTypeOK, Doc
<1>3. ASSUME NEW c \in Clerks, NEW turn \in {Off} \cup Provision, Put(c, turn)
      PROVE  e # c /\ clerk'[e] = clerk[e]
  <2>1. clerk'[e] = IF e = c THEN turn ELSE clerk[e]
    BY <1>3, ClerksApart DEF Put, Errand
  <2>2. turn.do # "save"
    BY DEF Off, Provision
  <2>3. QED
    BY <2>1, <2>2
<1>4. CASE ByHand
  BY <1>1, <1>4, ByHandOnly
<1>5. ASSUME NEW c \in Clerks, Asks(c) PROVE Fits
  <2>1. PICK to \in Doc, fs \in SUBSET Names, rs \in SUBSET Names : Ask(c, to, fs, rs)
    BY <1>5, AskedFor
  <2>2. /\ clerk'[e] = IF e = c
                       THEN [do |-> "save", read |-> doc, to |-> to, fields |-> fs, rules |-> rs]
                       ELSE clerk[e]
        /\ doc' = doc
    BY <2>1 DEF Ask, Put, OrgTyped
  <2>3. CASE e = c
    BY <1>2, <2>2, <2>3
  <2>4. CASE e # c
    BY <1>1, <2>2, <2>4
  <2>5. QED
    BY <2>3, <2>4
<1>6. ASSUME NEW c \in Clerks, SaveDoc(c) PROVE Fits
  <2>1. [do |-> "provide", fields |-> clerk[c].fields, rules |-> clerk[c].rules] \in Provision
    BY <1>6, ErrandFields DEF SaveDoc, Provision
  <2>2. clerk'[e] = clerk[e]
    BY <1>3, <1>6, <2>1, SaveDocSteps
  <2>3. clerk[e].read \in Doc /\ clerk[e].read.v \in Nat
    BY <2>2, ErrandFields DEF Doc
  <2>4. /\ clerk[e].read.v <= doc.v
        /\ clerk[e].read.v = doc.v => clerk[e].read.modules = doc.modules
    BY <2>2 DEF ReadAsIs
  <2>5. \/ doc'.modules = doc.modules /\ doc'.v \in {doc.v, doc.v + 1}
        \/ doc'.v = doc.v + 1
    BY <1>6, SaveDocSteps
  <2>6. QED
    BY <1>2, <2>2, <2>3, <2>4, <2>5
<1>7. ASSUME NEW c \in Clerks, Provides(c) PROVE Fits
  BY <1>1, <1>3, <1>7, ProvidesOn
<1>8. ASSUME NEW c \in Clerks, LookForRule(c) \/ ProvideRule(c) PROVE Fits
  <2>1. doc' = doc
    BY <1>8 DEF LookForRule, ProvideRule
  <2>2. CASE LookForRule(c)
    <3>1. PICK n \in Names, rest \in Provision :
            Put(c, IF Missing(n) THEN [do |-> "rule", name |-> n, then |-> rest] ELSE rest)
      BY <2>2, RuleLookedFor
    <3>2. CASE Missing(n)
      <4>1. clerk'[e] = IF e = c THEN [do |-> "rule", name |-> n, then |-> rest] ELSE clerk[e]
        BY <3>1, <3>2 DEF Put, OrgTyped
      <4>2. QED
        BY <1>1, <2>1, <4>1
    <3>3. CASE ~Missing(n)
      BY <1>1, <1>3, <2>1, <3>1, <3>3
    <3>4. QED
      BY <3>2, <3>3
  <2>3. CASE ProvideRule(c)
    <3>1. Put(c, clerk[c].then) /\ clerk[c].then \in Provision
      BY <2>3, ErrandFields DEF ProvideRule
    <3>2. QED
      BY <1>1, <1>3, <2>1, <3>1
  <2>4. QED
    BY <1>8, <2>2, <2>3
<1>9. CASE UNCHANGED orgVars
  BY <1>1, <1>9 DEF orgVars
<1>10. QED
  BY <1>4, <1>5, <1>6, <1>7, <1>8, <1>9, OrgSteps

\* No request is about to create a rule that it did not itself look for, and not find.
LEMMA OrgLooksForRules == OrgTyped /\ RulesLookedFor /\ [OrgNext]_orgVars => RulesLookedFor'
<1> SUFFICES ASSUME OrgTyped, RulesLookedFor, [OrgNext]_orgVars, NEW n \in Names, n \notin excused'
             PROVE  /\ rules'[n] <= 1
                    /\ \A c \in Clerks : clerk'[c].do = "rule" /\ clerk'[c].name = n =>
                         /\ rules'[n] = 0
                         /\ \A e \in Clerks : clerk'[e].do = "rule" /\ clerk'[e].name = n => e = c
  BY DEF RulesLookedFor
<1> DEFINE About(c) == clerk[c].do = "rule" /\ clerk[c].name = n
           Then(c) == clerk'[c].do = "rule" /\ clerk'[c].name = n
           Kept == /\ rules'[n] <= 1
                   /\ \A c \in Clerks : Then(c) =>
                        /\ rules'[n] = 0
                        /\ \A e \in Clerks : Then(e) => e = c
<1>1. n \notin excused =>
        /\ rules[n] \in Nat /\ rules[n] <= 1
        /\ \A c \in Clerks : About(c) => rules[n] = 0 /\ \A e \in Clerks : About(e) => e = c
  BY DEF RulesLookedFor, OrgTyped, OrgTypeOK
<1>2. ASSUME n \notin excused, rules'[n] = rules[n], \A c \in Clerks : Then(c) => About(c)
      PROVE  Kept
  BY <1>1, <1>2
<1>3. ASSUME NEW c \in Clerks, NEW turn \in {Off} \cup Provision, Put(c, turn)
      PROVE  ~Then(c) /\ \A e \in Clerks : Then(e) => About(e)
  <2>1. \A e \in Clerks : clerk'[e] = IF e = c THEN turn ELSE clerk[e]
    BY <1>3, ClerksApart DEF Put, Errand
  <2>2. turn.do # "rule"
    BY DEF Off, Provision
  <2>3. QED
    BY <2>1, <2>2
<1> HIDE DEF Kept
<1>4. ASSUME ByHand PROVE Kept
  <2>1. clerk' = clerk /\ n \notin excused
    BY <1>4, ByHandOnly
  <2>2. PICK m \in Names : \/ CreateCustomField(m) \/ DeleteCustomField(m)
                           \/ CreateBusinessRule(m) \/ DeleteBusinessRule(m)
    BY <1>4 DEF ByHand
  <2>3. rules'[n] = rules[n] \/ (rules[n] > 0 /\ rules'[n] = rules[n] - 1)
    BY <2>2 DEF CreateCustomField, DeleteCustomField, CreateBusinessRule, DeleteBusinessRule,
      OrgTyped, OrgTypeOK
  <2>4. CASE rules'[n] = rules[n]
    BY <1>2, <2>1, <2>4
  <2>5. CASE rules[n] > 0 /\ rules'[n] = rules[n] - 1
    BY <1>1, <2>1, <2>5 DEF Kept
  <2>6. QED
    BY <2>3, <2>4, <2>5
<1>5. ASSUME NEW c \in Clerks, Asks(c) PROVE Kept
  <2>1. PICK to \in Doc, fs \in SUBSET Names, rs \in SUBSET Names : Ask(c, to, fs, rs)
    BY <1>5, AskedFor
  <2>2. \A e \in Clerks : clerk'[e] = IF e = c
          THEN [do |-> "save", read |-> doc, to |-> to, fields |-> fs, rules |-> rs] ELSE clerk[e]
    BY <2>1 DEF Ask, Put, OrgTyped
  <2>3. \A e \in Clerks : Then(e) => About(e)
    BY <2>2
  <2>4. rules' = rules /\ excused' = excused
    BY <2>1 DEF Ask
  <2>5. QED
    BY <1>2, <2>3, <2>4
<1>6. ASSUME NEW c \in Clerks, SaveDoc(c) PROVE Kept
  <2>1. [do |-> "provide", fields |-> clerk[c].fields, rules |-> clerk[c].rules] \in Provision
    BY <1>6, ErrandFields DEF SaveDoc, Provision
  <2>2. \A e \in Clerks : Then(e) => About(e)
    BY <1>3, <1>6, <2>1, SaveDocSteps
  <2>3. rules' = rules /\ excused' = excused
    BY <1>6 DEF SaveDoc
  <2>4. QED
    BY <1>2, <2>2, <2>3
<1>7. ASSUME NEW c \in Clerks, Provides(c) PROVE Kept
  <2>1. PICK turn \in {Off} \cup Provision : Put(c, turn)
    BY <1>7, ProvidesOn
  <2>2. \A e \in Clerks : Then(e) => About(e)
    BY <1>3, <2>1
  <2>3. rules' = rules /\ excused' = excused
    BY <1>7, ProvidesOn
  <2>4. QED
    BY <1>2, <2>2, <2>3
<1>8. ASSUME NEW c \in Clerks, LookForRule(c) PROVE Kept
  <2>1. PICK m \in Names, rest \in Provision :
          /\ Put(c, IF Missing(m) THEN [do |-> "rule", name |-> m, then |-> rest] ELSE rest)
          /\ excused' = IF Looking(m) THEN excused \cup {m} ELSE excused
    BY <1>8, RuleLookedFor
  <2>2. n \notin excused /\ rules' = rules
    BY <1>8, <2>1 DEF LookForRule
  <2>3. CASE ~Missing(m)
    <3>1. Put(c, rest)
      BY <2>1, <2>3
    <3>2. \A e \in Clerks : Then(e) => About(e)
      BY <1>3, <3>1
    <3>3. QED
      BY <1>2, <2>2, <3>2
  <2>4. CASE Missing(m)
    <3>1. \A e \in Clerks :
            clerk'[e] = IF e = c THEN [do |-> "rule", name |-> m, then |-> rest] ELSE clerk[e]
      BY <2>1, <2>4 DEF Put, OrgTyped
    <3>2. CASE m = n
      <4>1. rules[n] = 0
        BY <2>4, <3>2 DEF Missing
      <4>2. \A e \in Clerks : ~About(e)
        BY <2>1, <3>2 DEF Looking
      <4>3. \A e \in Clerks : Then(e) => e = c
        BY <3>1, <4>2
      <4>4. QED
        BY <2>2, <4>1, <4>3 DEF Kept
    <3>3. CASE m # n
      <4>1. \A e \in Clerks : Then(e) => About(e)
        BY <3>1, <3>3
      <4>2. QED
        BY <1>2, <2>2, <4>1
    <3>4. QED
      BY <3>2, <3>3
  <2>5. QED
    BY <2>3, <2>4
<1>9. ASSUME NEW c \in Clerks, ProvideRule(c) PROVE Kept
  <2>1. clerk[c].name \in Names /\ Put(c, clerk[c].then) /\ clerk[c].then \in Provision
    BY <1>9, ErrandFields DEF ProvideRule
  <2>2. ~Then(c) /\ \A e \in Clerks : Then(e) => About(e)
    BY <1>3, <2>1
  <2>3. n \notin excused /\ rules'[n] = IF n = clerk[c].name THEN rules[n] + 1 ELSE rules[n]
    BY <1>9, <2>1 DEF ProvideRule, OrgTyped, OrgTypeOK
  <2>4. CASE n = clerk[c].name
    <3>1. About(c)
      BY <1>9, <2>4 DEF ProvideRule
    <3>2. rules'[n] = 1
      BY <1>1, <2>3, <2>4, <3>1
    <3>3. \A e \in Clerks : ~Then(e)
      BY <1>1, <2>2, <2>3, <3>1
    <3>4. QED
      BY <3>2, <3>3 DEF Kept
  <2>5. CASE n # clerk[c].name
    BY <1>2, <2>2, <2>3, <2>5
  <2>6. QED
    BY <2>4, <2>5
<1>10. ASSUME UNCHANGED orgVars PROVE Kept
  BY <1>2, <1>10 DEF orgVars
<1>11. Kept
  BY <1>4, <1>5, <1>6, <1>7, <1>8, <1>9, <1>10, OrgSteps
<1>12. QED
  BY <1>11 DEF Kept

\* A save takes away only modules its request read: those are the document's still.
LEMMA SeenRemoved ==
  ASSUME OrgTyped, ReadAsIs, NEW c \in Clerks, SaveDoc(c)
  PROVE  doc.modules \ doc'.modules \subseteq clerk[c].read.modules
<1>1. clerk[c].do = "save"
  BY DEF SaveDoc
<1>2. CASE doc'.modules = doc.modules
  BY <1>2
<1>3. CASE doc.v = clerk[c].read.v
  BY <1>1, <1>3 DEF ReadAsIs
<1>4. QED
  BY <1>2, <1>3, SaveDocSteps

LEMMA OrgStep == OrgInv /\ [OrgNext]_orgVars => OrgInv'
  BY OrgStaysTyped, OrgReadsAsIs, OrgLooksForRules DEF OrgInv

\* For every set of modules, presets and architectures, and any number of requests: those that
\* cross, or are cut off and applied again, neither undo each other nor leave a rule behind twice.
THEOREM OrganizationStaysKept == OrgSpec => OrganizationIsKept
<1>1. OrgInv => OrgTypeOK /\ RulesOnce
  BY DEF OrgInv, OrgTyped, RulesLookedFor, RulesOnce
<1>2. OrgInv /\ [OrgNext]_orgVars =>
        [\A c \in Clerks : SaveDoc(c) /\ doc' # doc =>
           doc.modules \ doc'.modules \subseteq clerk[c].read.modules]_orgVars
  BY SeenRemoved DEF OrgInv
<1>3. QED
  BY <1>1, <1>2, OrgStart, OrgStep, PTL DEF OrgSpec, OrganizationIsKept, NothingUnseenRemoved
=============================================================================
