------------------------------ MODULE DeskProofs ------------------------------
(***************************************************************************)
(* Proofs about what people use: sign-in, templates, the invoice form and  *)
(* its way to the server, the assistant, the menu with its pages, and      *)
(* imports and backups of records, for any number of requests, sessions,   *)
(* rows, organizations and models: answers come late, twice or never, and  *)
(* two requests may meet.  They share no state: each part is about one     *)
(* component.                                                              *)
(***************************************************************************)
EXTENDS SignIn, Templates, Composer, Sending, Assistant, Workspace, Catalog, FiniteSetTheorems,
  SequenceTheorems, WellFoundedInduction, TLAPS
-----------------------------------------------------------------------------
(* SignIn: what requests hold *)

Hash == [password : 0..MaxPassword, changedAt : 0..MaxSecond]
SaveWork == [do : {"save"}, password : 0..MaxPassword, at : 1..MaxSecond, link : 0..MaxLink]
SignWork == [do : {"sign"}, password : 0..MaxPassword, read : Hash]
Work == {Free} \cup [do : {"mail", "drop"}] \cup SaveWork \cup SignWork

SignInTyped ==
  /\ SignInTypeOK
  /\ work \in [Workers -> Work]
  /\ resets \in [Link -> Nat]

Doing(does) == {w \in Workers : work[w].do = does}

\* Nothing is dated later than now, and whoever signed in since a new password was dated did so
\* while that password was about to be saved.
Dated ==
  /\ hash.changedAt <= now
  /\ \A s \in sessions : s.iat <= now
  /\ \A w \in Doing("save") :
       work[w].at <= now /\ \A s \in sessions : s.iat > work[w].at => s.late

\* A link that has set a password is about to be dropped, and one that is about to has not yet.
LinksUsed ==
  /\ \A l \in links : l <= mailed
  /\ \A l \in Link : resets[l] > 0 => l <= mailed
  /\ \A w \in Doing("save") : work[w].link <= mailed
  /\ "reset" \notin tangled =>
       /\ \A v, w \in Doing("save") : v = w
       /\ \A v \in Doing("drop"), w \in Doing("save") : work[w].link = 0
       /\ \A l \in Link : resets[l] <= 1
       /\ \A l \in links : resets[l] > 0 => Doing("drop") # {}
       /\ \A w \in Doing("save") : work[w].link # 0 => resets[work[w].link] = 0

\* While a link is about to be made there is no other.
LinksMailed ==
  "mail" \notin tangled =>
    /\ \A v, w \in Doing("mail") : v = w
    /\ Doing("mail") # {} => links = {}
    /\ \A k, l \in links : k = l

SignInInv == SignInTyped /\ OldSessionsEnd /\ Dated /\ LinksUsed /\ LinksMailed
-----------------------------------------------------------------------------
\* At first there are no links and no sessions.
LEMMA SignInStarts == SignInInit => SignInInv
  <1> SUFFICES ASSUME SignInInit PROVE SignInInv
    OBVIOUS
  <1>1. /\ MaxPassword \in Nat /\ MaxLink \in Nat /\ MaxSession \in Nat
        /\ MaxSecond \in Nat /\ MaxSecond # 0
    BY SignInAssumption
  <1>2. SignInTypeOK
    BY <1>1 DEF SignInInit, SignInTypeOK
  <1>3. work \in [Workers -> Work] /\ resets \in [Link -> Nat]
    BY DEF SignInInit, Work
  <1>4. \A does \in {"save", "drop", "mail"} : Doing(does) = {}
    BY DEF SignInInit, Doing, Free
  <1>5. OldSessionsEnd /\ Dated /\ LinksUsed /\ LinksMailed
    BY <1>1, <1>4 DEF SignInInit, OldSessionsEnd, Dated, LinksUsed, LinksMailed
  <1> QED
    BY <1>2, <1>3, <1>5 DEF SignInInv, SignInTyped

\* What a request of the account holds, by what it does next.
LEMMA WorkFields ==
  ASSUME SignInTyped, NEW w \in Workers
  PROVE  /\ work[w].do = "save" =>
              /\ work[w].password \in 0..MaxPassword /\ work[w].at \in 1..MaxSecond
              /\ work[w].link \in 0..MaxLink
         /\ work[w].do = "sign" => work[w].password \in 0..MaxPassword /\ work[w].read \in Hash
         /\ work[w] # Free =>
              work[w].do \in {"mail", "drop", "save", "sign"}
         /\ work[w] = Free => work[w].do = "free"
  <1>1. work[w] \in Work
    BY DEF SignInTyped
  <1> QED
    BY <1>1 DEF Work, SaveWork, SignWork, Free

\* What a request does next changes for it alone.
LEMMA GoFields ==
  ASSUME SignInTyped, NEW w \in Workers, NEW rec \in Work, Go(w, rec)
  PROVE  /\ work' \in [Workers -> Work] /\ work'[w] = rec
         /\ \A v \in Workers \ {w} : work'[v] = work[v]
         /\ \A does : Doing(does)' = {v \in Workers : IF v = w THEN rec.do = does
                                                     ELSE work[v].do = does}
  <1>1. /\ work' \in [Workers -> Work] /\ work'[w] = rec
        /\ \A v \in Workers \ {w} : work'[v] = work[v]
    BY DEF SignInTyped, Go
  <1> QED
    BY <1>1 DEF Doing

\* What a request may become is something it can hold.
LEMMA SomeWork ==
  /\ Free \in Work /\ [do |-> "mail"] \in Work /\ [do |-> "drop"] \in Work
  /\ \A p \in 0..MaxPassword, h \in Hash :
       [do |-> "sign", password |-> p, read |-> h] \in Work
  /\ \A p \in 0..MaxPassword, t \in 1..MaxSecond, l \in 0..MaxLink :
       [do |-> "save", password |-> p, at |-> t, link |-> l] \in Work
  BY DEF Work, SaveWork, SignWork

\* The history of the links gains one use at most.
LEMMA ResetsCount ==
  ASSUME SignInTyped, NEW w \in Workers, SavePassword(w)
  PROVE  /\ resets' \in [Link -> Nat]
         /\ \A l \in Link : resets'[l] = IF l = work[w].link THEN resets[l] + 1 ELSE resets[l]
  BY DEF SignInTyped, SavePassword

\* The steps of a request keep every type.
LEMMA SignInStepTyped ==
  ASSUME SignInTyped, SignInNext
  PROVE  SignInTyped'
  <1>1. /\ MaxPassword \in Nat /\ MaxLink \in Nat /\ MaxSession \in Nat
        /\ MaxSecond \in Nat /\ MaxSecond # 0
    BY SignInAssumption
  <1>2. /\ hash \in Hash /\ links \subseteq Link /\ sessions \subseteq Session
        /\ now \in 1..MaxSecond /\ chosen \in 0..MaxPassword
        /\ mailed \in 0..MaxLink /\ opened \in 0..MaxSession
        /\ work \in [Workers -> Work] /\ resets \in [Link -> Nat]
    BY DEF SignInTyped, SignInTypeOK, Hash
  <1> DEFINE Fits ==
        /\ hash' \in Hash /\ links' \subseteq Link /\ sessions' \subseteq Session
        /\ now' \in 1..MaxSecond /\ chosen' \in 0..MaxPassword
        /\ mailed' \in 0..MaxLink /\ opened' \in 0..MaxSession
        /\ work' \in [Workers -> Work] /\ resets' \in [Link -> Nat]
  <1> SUFFICES Fits
    BY DEF SignInTyped, SignInTypeOK, Hash, Work, SaveWork, SignWork, Link, Session
  <1>3. ASSUME NEW w \in Workers, NEW rec \in Work, Go(w, rec)
        PROVE  work' \in [Workers -> Work]
    BY <1>3, GoFields
  <1>4. CASE Tick
    BY <1>1, <1>2, <1>4 DEF Tick
  <1>5. ASSUME NEW w \in Workers, StartSession(w) PROVE Fits
    <2>1. PICK p \in {hash.password} \cup {s.password : s \in {x \in sessions : Accepted(x)}} :
            Go(w, [do |-> "sign", password |-> p, read |-> hash])
      BY <1>5 DEF StartSession
    <2>2. p \in 0..MaxPassword
      BY <1>2, <2>1 DEF Hash, Session
    <2>3. work' \in [Workers -> Work]
      BY <1>2, <1>3, <2>1, <2>2, SomeWork
    <2> QED
      BY <1>2, <1>5, <2>3 DEF StartSession
  <1>6. ASSUME NEW w \in Workers, SignToken(w) PROVE Fits
    <2> DEFINE t == [iat |-> now, password |-> work[w].password,
                     late |-> \/ hash # work[w].read \/ Busy(w, "save")
                              \/ work[w].password # work[w].read.password]
    <2>1. work[w].password \in 0..MaxPassword
      BY <1>6, WorkFields DEF SignToken
    <2>2. t \in Session
      BY <1>2, <2>1 DEF Session
    <2>3. sessions' = sessions \cup {t}
      BY <1>6 DEF SignToken
    <2>4. work' \in [Workers -> Work]
      BY <1>3, <1>6, SomeWork DEF SignToken
    <2> HIDE DEF t
    <2> QED
      BY <1>1, <1>2, <1>6, <2>2, <2>3, <2>4 DEF SignToken
  <1>7. ASSUME NEW w \in Workers, DropLinks(w) PROVE Fits
    <2>1. work' \in [Workers -> Work]
      BY <1>3, <1>7, SomeWork DEF DropLinks
    <2> QED
      BY <1>2, <1>7, <2>1 DEF DropLinks, Outdated
  <1>8. ASSUME NEW w \in Workers, MailLink(w) PROVE Fits
    <2>1. work' \in [Workers -> Work]
      BY <1>3, <1>8, SomeWork DEF MailLink
    <2> QED
      BY <1>1, <1>2, <1>8, <2>1 DEF MailLink, Link
  <1>9. ASSUME NEW w \in Workers, ReadLink(w) \/ SetPassword(w) PROVE Fits
    <2>1. PICK l \in links \cup {0} : Choose(w, l)
      BY <1>9 DEF ReadLink, SetPassword
    <2>2. l \in 0..MaxLink /\ chosen' \in 0..MaxPassword
      BY <1>1, <1>2, <2>1 DEF Choose, Link
    <2>3. work' \in [Workers -> Work]
      BY <1>2, <1>3, <2>1, <2>2, SomeWork DEF Choose
    <2> QED
      BY <1>2, <1>9, <2>2, <2>3 DEF ReadLink, SetPassword
  <1>10. ASSUME NEW w \in Workers, SavePassword(w) PROVE Fits
    <2>1. work[w].password \in 0..MaxPassword /\ work[w].at \in 1..MaxSecond
      BY <1>10, WorkFields DEF SavePassword
    <2>2. NewHash(work[w]) \in Hash
      BY <1>1, <2>1 DEF NewHash, Hash
    <2>3. work' \in [Workers -> Work]
      BY <1>3, <1>10, SomeWork DEF SavePassword
    <2> QED
      BY <1>2, <1>10, <2>2, <2>3, ResetsCount DEF SavePassword
  <1>11. ASSUME NEW w \in Workers, DropUsed(w) \/ Abort(w) PROVE Fits
    <2>1. work' \in [Workers -> Work]
      BY <1>3, <1>11, SomeWork DEF DropUsed, Abort
    <2> QED
      BY <1>2, <1>11, <2>1 DEF DropUsed, Abort
  <1>12. ASSUME NEW s \in sessions, Logout(s) PROVE Fits
    BY <1>2, <1>12 DEF Logout
  <1>13. ASSUME NEW l \in links, Expire(l) PROVE Fits
    BY <1>2, <1>13 DEF Expire
  <1> HIDE DEF Fits
  <1> QED
    BY <1>4, <1>5, <1>6, <1>7, <1>8, <1>9, <1>10, <1>11, <1>12, <1>13 DEF SignInNext

\* How the requests at work change.
LEMMA DoingStep ==
  ASSUME SignInTyped, NEW w \in Workers, NEW rec \in Work, Go(w, rec), NEW does
  PROVE  /\ rec.do = does => Doing(does)' = Doing(does) \cup {w}
         /\ rec.do # does => Doing(does)' = Doing(does) \ {w}
         /\ \A v \in Doing(does) \ {w} : work'[v] = work[v]
         /\ work'[w] = rec
  BY GoFields DEF Doing

\* Sessions are dated, whatever the step.
LEMMA DatedStep ==
  ASSUME SignInInv, SignInNext
  PROVE  Dated' /\ OldSessionsEnd'
  <1> USE DEF SignInInv
  <1>1. /\ hash \in Hash /\ sessions \subseteq Session /\ now \in 1..MaxSecond
        /\ MaxSecond \in Nat /\ MaxPassword \in Nat
    BY SignInAssumption DEF SignInTyped, SignInTypeOK, Hash
  <1>2. \A w \in Workers : work[w].do = "save" => work[w].at \in 1..MaxSecond
    BY WorkFields
  <1>3. ASSUME UNCHANGED <<hash, now>>, sessions' \subseteq sessions,
               \A w \in Doing("save")' : w \in Doing("save") /\ work'[w] = work[w]
        PROVE  Dated' /\ OldSessionsEnd'
    <2>1. Dated'
      BY <1>3 DEF Dated
    <2> QED
      BY <1>3, <2>1 DEF OldSessionsEnd, Accepted
  <1>4. CASE Tick
    <2>1. /\ now' \in Int /\ now' = now + 1
          /\ UNCHANGED <<hash, sessions, work>>
      BY <1>1, <1>4 DEF Tick
    <2>2. Doing("save")' = Doing("save")
      BY <2>1 DEF Doing
    <2>3. Dated'
      BY <1>1, <1>2, <2>1, <2>2 DEF Dated, Doing, Session, Hash
    <2> QED
      BY <2>1, <2>3 DEF OldSessionsEnd, Accepted
  <1>5. ASSUME NEW w \in Workers,
               StartSession(w) \/ DropLinks(w) \/ MailLink(w) \/ DropUsed(w) \/ Abort(w)
        PROVE  Dated' /\ OldSessionsEnd'
    <2>1. PICK rec \in Work : Go(w, rec) /\ rec.do # "save"
      <3>1. Free.do = "free"
        BY DEF Free
      <3>2. CASE StartSession(w)
        <4>1. PICK p \in {hash.password} \cup {s.password : s \in {x \in sessions : Accepted(x)}} :
                Go(w, [do |-> "sign", password |-> p, read |-> hash])
          BY <3>2 DEF StartSession
        <4>2. p \in 0..MaxPassword
          BY <1>1, <4>1 DEF Hash, Session
        <4> QED
          BY <1>1, <4>1, <4>2, SomeWork
      <3>3. CASE DropLinks(w)
        BY <3>3, SomeWork DEF DropLinks
      <3>4. CASE MailLink(w) \/ DropUsed(w) \/ Abort(w)
        BY <3>1, <3>4, SomeWork DEF MailLink, DropUsed, Abort
      <3> QED
        BY <1>5, <3>2, <3>3, <3>4
    <2>2. UNCHANGED <<hash, now, sessions>>
      BY <1>5 DEF StartSession, DropLinks, MailLink, DropUsed, Abort
    <2>3. \A v \in Doing("save")' : v \in Doing("save") /\ work'[v] = work[v]
      BY <2>1, DoingStep
    <2> QED
      BY <1>3, <2>2, <2>3
  <1>6. ASSUME NEW w \in Workers, SignToken(w) PROVE Dated' /\ OldSessionsEnd'
    <2> DEFINE t == [iat |-> now, password |-> work[w].password,
                     late |-> \/ hash # work[w].read \/ Busy(w, "save")
                              \/ work[w].password # work[w].read.password]
    <2>1. /\ sessions' = sessions \cup {t} /\ UNCHANGED <<hash, now>> /\ work[w].do = "sign"
      BY <1>6 DEF SignToken
    <2>2. \A v \in Doing("save")' : v \in Doing("save") /\ work'[v] = work[v] /\ v # w
      BY <1>6, <2>1, SomeWork, DoingStep DEF SignToken, Free, Doing
    <2>3. t.iat = now /\ t.password = work[w].password
          /\ t.late = (\/ hash # work[w].read \/ Busy(w, "save")
                       \/ work[w].password # work[w].read.password)
      OBVIOUS
    <2>4. Doing("save")' # {} => t.late
      <3>1. ASSUME NEW v \in Doing("save")' PROVE t.late
        <4>1. v \in Workers \ {w} /\ work[v].do = "save"
          BY <2>2, <3>1 DEF Doing
        <4>2. Busy(w, "save")
          BY <4>1 DEF Busy
        <4> HIDE DEF t
        <4> QED
          BY <2>3, <4>2
      <3> QED
        BY <3>1
    <2>5. t.late \/ t.password = hash.password
      BY <2>3
    <2> HIDE DEF t
    <2>6. Dated'
      <3>1. \A v \in Doing("save")' :
              work'[v].at <= now /\ \A s \in sessions : s.iat > work'[v].at => s.late
        BY <2>2 DEF Dated
      <3>2. \A v \in Doing("save")' : t.late
        BY <2>4
      <3>3. hash'.changedAt <= now' /\ \A s \in sessions' : s.iat <= now'
        BY <1>1, <2>1, <2>3 DEF Dated
      <3>4. \A v \in Doing("save")' :
              work'[v].at <= now' /\ \A s \in sessions' : s.iat > work'[v].at => s.late
        BY <2>1, <3>1, <3>2
      <3> QED
        BY <3>3, <3>4 DEF Dated
    <2>7. OldSessionsEnd'
      BY <2>1, <2>5 DEF OldSessionsEnd, Accepted
    <2> QED
      BY <2>6, <2>7
  <1>7. ASSUME NEW w \in Workers, ReadLink(w) \/ SetPassword(w) PROVE Dated' /\ OldSessionsEnd'
    <2>1. PICK l \in links \cup {0} : Choose(w, l)
      BY <1>7 DEF ReadLink, SetPassword
    <2> DEFINE rec == [do |-> "save", password |-> chosen', at |-> now, link |-> l]
    <2>2. Go(w, rec) /\ rec.do = "save" /\ rec.at = now /\ UNCHANGED <<hash, now, sessions>>
      BY <1>7, <2>1 DEF Choose, ReadLink, SetPassword
    <2>3. rec \in Work
      <3>1. l \in 0..MaxLink /\ chosen' \in 0..MaxPassword
        BY <1>1, <2>1, SignInAssumption DEF SignInTyped, SignInTypeOK, Choose, Link
      <3> QED
        BY <1>1, <3>1, SomeWork
    <2> HIDE DEF rec
    <2>4. Doing("save")' = Doing("save") \cup {w} /\ work'[w].at = now
          /\ \A v \in Doing("save") \ {w} : work'[v] = work[v]
      BY <2>2, <2>3, DoingStep
    <2>5. Dated'
      BY <1>1, <1>2, <2>2, <2>4 DEF Dated, Session
    <2> QED
      BY <2>2, <2>5 DEF OldSessionsEnd, Accepted
  <1>8. ASSUME NEW w \in Workers, SavePassword(w) PROVE Dated' /\ OldSessionsEnd'
    <2> DEFINE q == work[w]
    <2>1. w \in Doing("save") /\ q.at \in 1..MaxSecond
      BY <1>2, <1>8 DEF SavePassword, Doing
    <2>2. hash'.changedAt = q.at /\ UNCHANGED <<now, sessions>>
      BY <1>8 DEF SavePassword, NewHash
    <2>3. PICK rec \in Work : Go(w, rec) /\ rec.do # "save"
      BY <1>8, SomeWork DEF SavePassword, Free
    <2>4. \A v \in Doing("save")' : v \in Doing("save") /\ work'[v] = work[v]
      BY <2>3, DoingStep
    <2>5. Dated'
      BY <2>1, <2>2, <2>4 DEF Dated
    <2>6. OldSessionsEnd'
      <3>1. ASSUME NEW s \in sessions, s.iat >= q.at PROVE s.late \/ s.iat = q.at
        BY <1>1, <2>1, <3>1 DEF Dated, Session
      <3> QED
        BY <2>2, <3>1 DEF OldSessionsEnd, Accepted
    <2> QED
      BY <2>5, <2>6
  <1>9. ASSUME NEW s \in sessions, Logout(s) PROVE Dated' /\ OldSessionsEnd'
    <2>1. UNCHANGED <<hash, now, work>> /\ sessions' \subseteq sessions
      BY <1>9 DEF Logout
    <2> QED
      BY <1>3, <2>1 DEF Doing
  <1>10. ASSUME NEW l \in links, Expire(l) PROVE Dated' /\ OldSessionsEnd'
    <2>1. UNCHANGED <<hash, now, work>> /\ sessions' \subseteq sessions
      BY <1>10 DEF Expire
    <2> QED
      BY <1>3, <2>1 DEF Doing
  <1> QED
    BY <1>4, <1>5, <1>6, <1>7, <1>8, <1>9, <1>10 DEF SignInNext

\* What the steps do that set no password: they end resets, or make and drop links.
LEMMA LinksUsedKept ==
  ASSUME SignInTyped, LinksUsed, resets' = resets,
         mailed' \in {mailed, mailed + 1} \cap 0..MaxLink,
         links' \subseteq links \cup {mailed'}, mailed' = mailed => links' \subseteq links,
         "reset" \in tangled => "reset" \in tangled',
         \A w \in Doing("save")' : w \in Doing("save") /\ work'[w] = work[w],
         Doing("drop")' \subseteq Doing("drop"),
         "reset" \in tangled' \/ links' = {} \/ Doing("drop")' = Doing("drop")
  PROVE  LinksUsed'
  <1>1. /\ mailed \in Nat /\ mailed' \in Nat /\ mailed <= mailed' /\ resets \in [Link -> Nat]
        /\ links \subseteq Link /\ \A w \in Doing("save") : work[w].link \in Nat
    <2>1. /\ mailed \in 0..MaxLink /\ resets \in [Link -> Nat] /\ links \subseteq Link
          /\ MaxLink \in Nat
      BY SignInAssumption DEF SignInTyped, SignInTypeOK
    <2>2. \A w \in Doing("save") : work[w].link \in 0..MaxLink
      BY WorkFields DEF Doing
    <2>3. \A w \in Doing("save") : work[w].link \in Nat
      BY <2>1, <2>2
    <2>4. mailed' \in 0..MaxLink /\ (mailed' = mailed \/ mailed' = mailed + 1)
      OBVIOUS
    <2>5. mailed \in Nat /\ mailed' \in Nat /\ mailed <= mailed'
      BY <2>1, <2>4
    <2> QED
      BY <2>1, <2>3, <2>5
  <1>2. \A l \in links' : l <= mailed'
    <2> SUFFICES ASSUME NEW l \in links' PROVE l <= mailed'
      OBVIOUS
    <2>1. CASE l \in links
      <3>1. l <= mailed /\ l \in Nat
        BY <1>1, <2>1 DEF LinksUsed, Link
      <3> QED
        BY <1>1, <3>1
    <2>2. CASE l = mailed'
      BY <1>1, <2>2
    <2> QED
      BY <2>1, <2>2
  <1>3. \A l \in Link : resets'[l] > 0 => l <= mailed'
    BY <1>1 DEF LinksUsed, Link
  <1>4. \A w \in Doing("save")' : work'[w].link <= mailed'
    BY <1>1 DEF LinksUsed
  <1>5. ASSUME "reset" \notin tangled'
        PROVE  /\ \A v, w \in Doing("save")' : v = w
               /\ \A v \in Doing("drop")', w \in Doing("save")' : work'[w].link = 0
               /\ \A l \in Link : resets'[l] <= 1
               /\ \A w \in Doing("save")' : work'[w].link # 0 => resets'[work'[w].link] = 0
    <2>1. "reset" \notin tangled
      BY <1>5
    <2>2. \A v, w \in Doing("save")' : v = w
      BY <2>1 DEF LinksUsed
    <2>3. \A v \in Doing("drop")', w \in Doing("save")' : work'[w].link = 0
      BY <2>1 DEF LinksUsed
    <2>4. \A l \in Link : resets'[l] <= 1
      BY <2>1 DEF LinksUsed
    <2>5. \A w \in Doing("save")' : work'[w].link # 0 => resets'[work'[w].link] = 0
      BY <2>1 DEF LinksUsed
    <2> QED
      BY <2>2, <2>3, <2>4, <2>5
  <1>6. ASSUME "reset" \notin tangled', NEW l \in links', resets'[l] > 0
        PROVE  Doing("drop")' # {}
    <2>1. Doing("drop")' = Doing("drop")
      BY <1>6
    <2>2. l \in links
      <3>1. CASE mailed' = mailed
        BY <1>6, <3>1
      <3>2. CASE mailed' = mailed + 1 /\ l = mailed'
        <4>1. l \in Link => l <= mailed
          BY <1>6 DEF LinksUsed
        <4>2. l \in Link
          BY <1>1, <3>2 DEF Link
        <4> QED
          BY <1>1, <3>2, <4>1, <4>2
      <3> QED
        BY <1>6, <3>1, <3>2
    <2> QED
      BY <1>6, <2>1, <2>2 DEF LinksUsed
  <1> QED
    BY <1>2, <1>3, <1>4, <1>5, <1>6 DEF LinksUsed

\* A link that has set a password is used, or its request was caught with another.
LEMMA LinksUsedStep ==
  ASSUME SignInInv, SignInNext
  PROVE  LinksUsed'
  <1> USE DEF SignInInv
  <1>1. /\ mailed \in 0..MaxLink /\ MaxLink \in Nat /\ resets \in [Link -> Nat]
        /\ links \subseteq Link /\ chosen \in 0..MaxPassword /\ MaxPassword \in Nat
        /\ now \in 1..MaxSecond /\ MaxSecond \in Nat
    BY SignInAssumption DEF SignInTyped, SignInTypeOK
  <1>2. Free.do = "free" /\ \A w \in Workers : work[w] = Free => work[w].do = "free"
    BY DEF Free
  <1>3. ASSUME NEW w \in Workers, NEW rec \in Work, Go(w, rec), rec.do \notin {"save", "drop"}
        PROVE  /\ \A v \in Doing("save")' : v \in Doing("save") /\ work'[v] = work[v]
               /\ Doing("drop")' = Doing("drop") \ {w}
    BY <1>3, DoingStep
  <1>4. CASE work' = work /\ UNCHANGED <<resets, mailed, tangled>> /\ links' \subseteq links
    BY <1>1, <1>4, LinksUsedKept DEF Doing
  <1>5. ASSUME NEW w \in Workers, StartSession(w) \/ SignToken(w)
        PROVE  LinksUsed'
    <2>1. work[w].do \notin {"save", "drop"}
      BY <1>2, <1>5 DEF StartSession, SignToken
    <2>2. PICK rec \in Work : Go(w, rec) /\ rec.do \in {"sign", "free"}
      <3>1. CASE StartSession(w)
        <4>1. PICK p \in {hash.password} \cup {s.password : s \in {x \in sessions : Accepted(x)}} :
                Go(w, [do |-> "sign", password |-> p, read |-> hash])
          BY <3>1 DEF StartSession
        <4>2. p \in 0..MaxPassword /\ hash \in Hash
          BY <4>1 DEF SignInTyped, SignInTypeOK, Hash, Session
        <4> QED
          BY <4>1, <4>2, SomeWork
      <3> QED
        BY <1>2, <1>5, <3>1, SomeWork DEF SignToken
    <2>3. /\ \A v \in Doing("save")' : v \in Doing("save") /\ work'[v] = work[v]
          /\ Doing("drop")' = Doing("drop")
      BY <1>3, <2>1, <2>2 DEF Doing
    <2>4. UNCHANGED <<resets, mailed, links, tangled>>
      BY <1>5 DEF StartSession, SignToken
    <2> QED
      BY <1>1, <2>3, <2>4, LinksUsedKept
  <1>6. ASSUME NEW w \in Workers, DropLinks(w) \/ DropUsed(w)
        PROVE  LinksUsed'
    <2>1. PICK rec \in Work : Go(w, rec) /\ rec.do \in {"mail", "free"}
      BY <1>2, <1>6, SomeWork DEF DropLinks, DropUsed
    <2>2. /\ \A v \in Doing("save")' : v \in Doing("save") /\ work'[v] = work[v]
          /\ Doing("drop")' \subseteq Doing("drop")
      BY <1>3, <2>1
    <2>3. UNCHANGED <<resets, mailed>> /\ links' = {} /\ tangled \subseteq tangled'
      BY <1>6 DEF DropLinks, DropUsed, Outdated
    <2> QED
      BY <1>1, <2>2, <2>3, LinksUsedKept
  <1>7. ASSUME NEW w \in Workers, MailLink(w)
        PROVE  LinksUsed'
    <2>1. Go(w, Free) /\ work[w].do # "drop"
      BY <1>7 DEF MailLink
    <2>2. /\ \A v \in Doing("save")' : v \in Doing("save") /\ work'[v] = work[v]
          /\ Doing("drop")' = Doing("drop")
      BY <1>2, <1>3, <2>1, SomeWork DEF Doing
    <2>3. /\ UNCHANGED <<resets, tangled>> /\ mailed' = mailed + 1 /\ mailed' \in 0..MaxLink
          /\ links' = links \cup {mailed'}
      BY <1>1, <1>7 DEF MailLink
    <2>4. mailed' # mailed
      BY <1>1, <2>3
    <2> QED
      BY <2>2, <2>3, <2>4, LinksUsedKept
  <1>8. ASSUME NEW w \in Workers, Abort(w)
        PROVE  LinksUsed'
    <2>1. Go(w, Free) /\ UNCHANGED <<resets, mailed, links>> /\ tangled \subseteq tangled'
      BY <1>8 DEF Abort
    <2>2. /\ \A v \in Doing("save")' : v \in Doing("save") /\ work'[v] = work[v]
          /\ Doing("drop")' = Doing("drop") \ {w}
      BY <1>2, <1>3, <2>1, SomeWork
    <2>3. "reset" \in tangled' \/ w \notin Doing("drop")
      BY <1>8 DEF Abort, Doing
    <2> QED
      BY <1>1, <2>1, <2>2, <2>3, LinksUsedKept
  <1>9. ASSUME NEW w \in Workers, ReadLink(w) \/ SetPassword(w)
        PROVE  LinksUsed'
    <2>1. PICK l \in links \cup {0} :
            /\ Choose(w, l)
            /\ "reset" \in tangled' \/ ~Busy(w, "save")
            /\ l # 0 => l \in links /\ ("reset" \in tangled' \/ ~Busy(w, "drop"))
      BY <1>1, <1>9 DEF ReadLink, SetPassword
    <2> DEFINE rec == [do |-> "save", password |-> chosen', at |-> now, link |-> l]
    <2>2. Go(w, rec) /\ rec.do = "save" /\ rec.link = l /\ work[w].do = "free"
      BY <1>2, <1>9, <2>1 DEF Choose, ReadLink, SetPassword
    <2>3. rec \in Work
      <3>1. l \in 0..MaxLink /\ chosen' \in 0..MaxPassword
        BY <1>1, <2>1 DEF Choose, Link
      <3> QED
        BY <1>1, <3>1, SomeWork
    <2> HIDE DEF rec
    <2>4. /\ Doing("save")' = Doing("save") \cup {w} /\ work'[w].link = l
          /\ \A v \in Doing("save") \ {w} : work'[v] = work[v]
          /\ Doing("drop")' = Doing("drop")
      <3>1. w \notin Doing("drop") /\ "save" # "drop"
        BY <2>2 DEF Doing
      <3>2. work'[w].link = l /\ Doing("save")' = Doing("save") \cup {w}
        BY <2>2, <2>3, DoingStep
      <3>3. \A v \in Doing("save") \ {w} : work'[v] = work[v]
        BY <2>2, <2>3, DoingStep
      <3>4. Doing("drop")' = Doing("drop") \ {w}
        BY <2>2, <2>3, DoingStep
      <3> QED
        BY <3>1, <3>2, <3>3, <3>4
    <2>5. UNCHANGED <<resets, mailed, links>> /\ tangled \subseteq tangled'
      BY <1>9 DEF ReadLink, SetPassword
    <2>6. /\ "reset" \in tangled' \/ Doing("save") = {}
          /\ l # 0 => "reset" \in tangled' \/ Doing("drop") = {}
      BY <2>1, <2>2 DEF Busy, Doing
    <2>7. l = 0 \/ (l \in links /\ l \in Link)
      BY <1>1, <2>1
    <2>8. l <= mailed
      BY <1>1, <2>7 DEF LinksUsed
    <2>9. "reset" \notin tangled' => l = 0 \/ resets[l] = 0
      <3>1. SUFFICES ASSUME "reset" \notin tangled', l # 0 PROVE resets[l] = 0
        OBVIOUS
      <3>2. ~(resets[l] > 0)
        BY <2>5, <2>6, <2>7, <3>1 DEF LinksUsed
      <3> QED
        BY <1>1, <2>7, <3>1, <3>2
    <2>10. \A v \in Doing("save")' : work'[v].link <= mailed
      BY <2>4, <2>8 DEF LinksUsed
    <2>11. ASSUME "reset" \notin tangled'
           PROVE  /\ \A v, u \in Doing("save")' : v = u
                  /\ \A v \in Doing("drop")', u \in Doing("save")' : work'[u].link = 0
                  /\ \A u \in Doing("save")' : work'[u].link # 0 => resets[work'[u].link] = 0
      BY <2>4, <2>6, <2>9, <2>11
    <2> QED
      BY <2>4, <2>5, <2>10, <2>11 DEF LinksUsed
  <1>10. ASSUME NEW w \in Workers, SavePassword(w)
         PROVE  LinksUsed'
    <2> DEFINE q == work[w]
    <2>1. w \in Doing("save") /\ q.link \in 0..MaxLink /\ q.link <= mailed
      BY <1>10, WorkFields DEF SavePassword, Doing, LinksUsed
    <2>2. PICK rec \in Work : /\ Go(w, rec)
                              /\ rec.do = IF q.link = 0 THEN "free" ELSE "drop"
      BY <1>2, <1>10, SomeWork DEF SavePassword
    <2>3. /\ Doing("save")' = Doing("save") \ {w}
          /\ \A v \in Doing("save") \ {w} : work'[v] = work[v]
          /\ Doing("drop")' \subseteq Doing("drop") \cup {w}
          /\ Doing("drop") \subseteq Doing("drop")'
          /\ q.link # 0 => w \in Doing("drop")'
      <3>1. w \notin Doing("drop")
        BY <2>1 DEF Doing
      <3> QED
        BY <2>2, <3>1, DoingStep
    <2>4. /\ UNCHANGED <<mailed, links, tangled>>
          /\ \A l \in Link : resets'[l] = IF l = q.link THEN resets[l] + 1 ELSE resets[l]
      BY <1>10, ResetsCount DEF SavePassword
    <2>5. \A l \in Link : resets'[l] > 0 => l <= mailed
      BY <1>1, <2>1, <2>4 DEF LinksUsed, Link
    <2>6. ASSUME "reset" \notin tangled
          PROVE  /\ Doing("save")' = {}
                 /\ \A l \in Link : resets'[l] <= 1
                 /\ \A l \in links : resets'[l] > 0 => Doing("drop")' # {}
      <3>1. Doing("save")' = {}
        BY <2>1, <2>3, <2>6 DEF LinksUsed
      <3>2. \A l \in Link : resets'[l] <= 1
        <4> SUFFICES ASSUME NEW l \in Link PROVE resets'[l] <= 1
          OBVIOUS
        <4>1. CASE l # q.link
          BY <2>4, <2>6, <4>1 DEF LinksUsed
        <4>2. CASE l = q.link
          <5>1. l # 0
            BY <1>1 DEF Link
          <5>2. resets[l] = 0
            BY <2>1, <2>6, <4>2, <5>1 DEF LinksUsed
          <5> QED
            BY <2>4, <4>2, <5>2
        <4> QED
          BY <4>1, <4>2
      <3>3. \A l \in links : resets'[l] > 0 => Doing("drop")' # {}
        BY <1>1, <2>3, <2>4, <2>6 DEF LinksUsed, Link
      <3> QED
        BY <3>1, <3>2, <3>3
    <2>7. /\ \A l \in links' : l <= mailed'
          /\ \A v \in Doing("save")' : work'[v].link <= mailed'
      BY <2>3, <2>4 DEF LinksUsed
    <2> QED
      BY <2>4, <2>5, <2>6, <2>7 DEF LinksUsed
  <1>11. CASE Tick \/ (\E s \in sessions : Logout(s)) \/ (\E l \in links : Expire(l))
    BY <1>4, <1>11 DEF Tick, Logout, Expire
  <1> QED
    BY <1>5, <1>6, <1>7, <1>8, <1>9, <1>10, <1>11 DEF SignInNext

\* Two links open the form at once only if two mails crossed.
LEMMA LinksMailedStep ==
  ASSUME SignInInv, SignInNext
  PROVE  LinksMailed'
  <1> USE DEF SignInInv
  <1>1. tangled \subseteq tangled'
    BY DEF SignInNext, Tick, StartSession, SignToken, DropLinks, MailLink, ReadLink, SetPassword,
           SavePassword, DropUsed, Abort, Logout, Expire
  <1>2. CASE "mail" \in tangled'
    BY <1>2 DEF LinksMailed
  <1>3. CASE "mail" \notin tangled'
    <2> SUFFICES /\ \A v, w \in Doing("mail")' : v = w
                 /\ Doing("mail")' # {} => links' = {}
                 /\ \A k, l \in links' : k = l
      BY DEF LinksMailed
    <2>1. /\ \A v, w \in Doing("mail") : v = w
          /\ Doing("mail") # {} => links = {}
          /\ \A k, l \in links : k = l
      BY <1>1, <1>3 DEF LinksMailed
    <2>2. CASE links' \subseteq links /\ Doing("mail")' \subseteq Doing("mail")
      BY <2>1, <2>2
    <2>3. ASSUME NEW w \in Workers, NEW rec \in Work, Go(w, rec), rec.do # "mail"
          PROVE  Doing("mail")' = Doing("mail") \ {w}
      BY <2>3, DoingStep
    <2>4. ASSUME NEW w \in Workers, DropLinks(w)
          PROVE  /\ \A v, u \in Doing("mail")' : v = u
                 /\ Doing("mail")' # {} => links' = {}
                 /\ \A k, l \in links' : k = l
      <3>1. Doing("mail")' = Doing("mail") \cup {w} /\ links' = {}
        BY <2>4, SomeWork, DoingStep DEF DropLinks, Outdated
      <3>2. Doing("mail") \subseteq {w}
        BY <1>3, <2>4 DEF DropLinks, Busy, Doing
      <3> QED
        BY <3>1, <3>2
    <2>5. ASSUME NEW w \in Workers, MailLink(w)
          PROVE  /\ \A v, u \in Doing("mail")' : v = u
                 /\ Doing("mail")' # {} => links' = {}
                 /\ \A k, l \in links' : k = l
      <3>1. w \in Doing("mail") /\ links' = links \cup {mailed'}
        BY <2>5 DEF MailLink, Doing
      <3>2. Doing("mail")' = Doing("mail") \ {w}
        BY <2>3, <2>5, SomeWork DEF MailLink, Free
      <3> QED
        BY <2>1, <3>1, <3>2
    <2>6. ASSUME NEW w \in Workers, StartSession(w)
          PROVE  links' \subseteq links /\ Doing("mail")' \subseteq Doing("mail")
      <3>1. PICK p \in {hash.password} \cup {s.password : s \in {x \in sessions : Accepted(x)}} :
              Go(w, [do |-> "sign", password |-> p, read |-> hash])
        BY <2>6 DEF StartSession
      <3>2. p \in 0..MaxPassword /\ hash \in Hash
        BY <3>1 DEF SignInTyped, SignInTypeOK, Hash, Session
      <3> QED
        BY <2>3, <2>6, <3>1, <3>2, SomeWork DEF StartSession
    <2>7. ASSUME NEW w \in Workers, ReadLink(w) \/ SetPassword(w)
          PROVE  links' \subseteq links /\ Doing("mail")' \subseteq Doing("mail")
      <3>1. PICK l \in links \cup {0} : Choose(w, l)
        BY <2>7 DEF ReadLink, SetPassword
      <3>2. /\ l \in 0..MaxLink /\ chosen' \in 0..MaxPassword /\ now \in 1..MaxSecond
        <4>1. MaxLink \in Nat /\ MaxPassword \in Nat
          BY SignInAssumption
        <4>2. links \subseteq Link /\ chosen \in 0..MaxPassword /\ now \in 1..MaxSecond
          BY DEF SignInTyped, SignInTypeOK
        <4>3. chosen < MaxPassword /\ chosen' = chosen + 1
          BY <3>1 DEF Choose
        <4> QED
          BY <3>1, <4>1, <4>2, <4>3 DEF Link
      <3>3. Doing("mail")' \subseteq Doing("mail")
        BY <2>3, <3>1, <3>2, SomeWork DEF Choose
      <3> QED
        BY <2>7, <3>3 DEF ReadLink, SetPassword
    <2>8. ASSUME NEW w \in Workers, SignToken(w) \/ SavePassword(w) \/ DropUsed(w) \/ Abort(w)
          PROVE  links' \subseteq links /\ Doing("mail")' \subseteq Doing("mail")
      <3>1. PICK rec \in Work : Go(w, rec) /\ rec.do # "mail"
        BY <2>8, SomeWork DEF SignToken, SavePassword, DropUsed, Abort, Free
      <3>2. Doing("mail")' \subseteq Doing("mail")
        BY <2>3, <3>1
      <3> QED
        BY <2>8, <3>2 DEF SignToken, SavePassword, DropUsed, Abort
    <2>9. CASE Tick \/ (\E s \in sessions : Logout(s)) \/ (\E l \in links : Expire(l))
      <3>1. links' \subseteq links /\ work' = work
        BY <2>9 DEF Tick, Logout, Expire
      <3> QED
        BY <2>2, <3>1 DEF Doing
    <2> QED
      BY <2>2, <2>4, <2>5, <2>6, <2>7, <2>8, <2>9 DEF SignInNext
  <1> QED
    BY <1>2, <1>3

\* Every step keeps the invariant.
LEMMA SignInSteps == SignInInv /\ [SignInNext]_signInVars => SignInInv'
  <1> SUFFICES ASSUME SignInInv, [SignInNext]_signInVars PROVE SignInInv'
    OBVIOUS
  <1>1. CASE SignInNext
    BY <1>1, SignInStepTyped, DatedStep, LinksUsedStep, LinksMailedStep DEF SignInInv
  <1>2. CASE UNCHANGED signInVars
    <2>1. /\ UNCHANGED <<hash, links, sessions, work, now, chosen, mailed, resets, opened>>
          /\ tangled' = tangled /\ \A does : Doing(does)' = Doing(does)
      BY <1>2 DEF signInVars, Doing
    <2>2. SignInTyped' /\ OldSessionsEnd' /\ Dated'
      BY <2>1 DEF SignInInv, SignInTyped, SignInTypeOK, OldSessionsEnd, Accepted, Dated, Work,
                  SaveWork, SignWork, Link, Session, Hash
    <2>3. LinksUsed' /\ LinksMailed'
      BY <2>1 DEF SignInInv, LinksUsed, LinksMailed
    <2> QED
      BY <2>2, <2>3 DEF SignInInv
  <1> QED
    BY <1>1, <1>2

\* However requests that sign in, reset and change a password overlap, for every number of them,
\* of passwords, links and seconds: a session of an earlier password is refused unless it was
\* signed in the second of the change or while one was under way; and unless two resets or two
\* mails crossed, a link sets one password and the last one mailed is the only one.
THEOREM SessionsAlwaysEnd == SignInSpec => []SessionsEnd
  <1>1. SignInInv => SessionsEnd
    <2> SUFFICES ASSUME SignInInv PROVE SessionsEnd
      OBVIOUS
    <2>1. "mail" \notin tangled => Cardinality(links) <= 1
      <3> SUFFICES ASSUME "mail" \notin tangled PROVE Cardinality(links) <= 1
        OBVIOUS
      <3>1. \A k, l \in links : k = l
        BY DEF SignInInv, LinksMailed
      <3>2. CASE links = {}
        BY <3>2, FS_EmptySet
      <3>3. CASE links # {}
        <4>1. PICK l \in links : TRUE
          BY <3>3
        <4>2. links = {l}
          BY <3>1, <4>1
        <4>3. Cardinality({l}) = 1
          BY FS_Singleton
        <4> QED
          BY <4>2, <4>3
      <3> QED
        BY <3>2, <3>3
    <2> QED
      BY <2>1 DEF SignInInv, SignInTyped, SessionsEnd, LinksUsed, LinksAreSingle
  <1> QED
    BY <1>1, SignInStarts, SignInSteps, PTL DEF SignInSpec
-----------------------------------------------------------------------------
(* Templates: what requests hold *)

Template == [name : Titles, isDefault : BOOLEAN, there : BOOLEAN]

TemplatesTyped ==
  /\ templates \in Seq(Template)
  /\ saving \subseteq [id : Nat, name : Titles, isDefault : BOOLEAN]

NamesApart == \A i, j \in There : templates[i].name = templates[j].name => i = j

\* Unless two overlapped, a request about to set the default has taken it from all others.
DefaultsFit == ~overlap =>
  /\ \A i, j \in Defaults : i = j
  /\ \A r, s \in saving : r.isDefault /\ s.isDefault => r = s
  /\ \A r \in saving : r.isDefault => Defaults \subseteq {r.id}

TemplatesInv == TemplatesTyped /\ NamesApart /\ DefaultsFit
-----------------------------------------------------------------------------
\* There are no templates at first.
LEMMA TemplatesStart == TemplatesInit => TemplatesInv
  BY DEF TemplatesInit, TemplatesInv, TemplatesTyped, NamesApart, DefaultsFit, There, Defaults

\* What updateMany leaves.
LEMMA ClearedFields ==
  ASSUME TemplatesTyped, NEW id \in Nat
  PROVE  /\ Cleared(id) \in Seq(Template)
         /\ DOMAIN Cleared(id) = DOMAIN templates
         /\ \A i \in DOMAIN templates :
              /\ Cleared(id)[i].name = templates[i].name
              /\ Cleared(id)[i].there = templates[i].there
              /\ Cleared(id)[i].isDefault = (templates[i].isDefault /\ i = id)
  <1>1. /\ Len(templates) \in Nat /\ DOMAIN templates = 1..Len(templates)
        /\ \A i \in DOMAIN templates : templates[i] \in Template
    BY DEF TemplatesTyped
  <1>2. \A i \in DOMAIN templates : Cleared(id)[i] \in Template
    BY <1>1 DEF Cleared, Template
  <1>3. DOMAIN Cleared(id) = DOMAIN templates
    BY DEF Cleared
  <1>4. Cleared(id) \in [1..Len(templates) -> Template]
    BY <1>1, <1>2 DEF Cleared
  <1>5. Cleared(id) \in Seq(Template)
    BY <1>1, <1>4, SeqDef
  <1>6. \A i \in DOMAIN templates :
          /\ Cleared(id)[i].name = templates[i].name
          /\ Cleared(id)[i].there = templates[i].there
          /\ Cleared(id)[i].isDefault = (templates[i].isDefault /\ i = id)
    BY <1>1 DEF Cleared, Template
  <1> QED
    BY <1>3, <1>5, <1>6

\* A row changes, and the others stay.
LEMMA ChangedFields ==
  ASSUME TemplatesTyped, NEW i \in DOMAIN templates, NEW t \in Template,
         templates' = [templates EXCEPT ![i] = t]
  PROVE  /\ templates' \in Seq(Template) /\ DOMAIN templates' = DOMAIN templates
         /\ templates'[i] = t
         /\ \A j \in DOMAIN templates \ {i} : templates'[j] = templates[j]
  BY DEF TemplatesTyped

\* Taking the default from the others leaves one default at most.
LEMMA ClearKeeps ==
  ASSUME TemplatesInv, NEW id \in DOMAIN templates \cup {0}, NEW name \in Titles, NEW d \in BOOLEAN,
         ClearOthers([id |-> id, name |-> name, isDefault |-> d])
  PROVE  TemplatesInv'
  <1> DEFINE r == [id |-> id, name |-> name, isDefault |-> d]
  <1>1. id \in Nat /\ r \in [id : Nat, name : Titles, isDefault : BOOLEAN]
        /\ r.isDefault = d /\ r.id = id
    BY DEF TemplatesInv, TemplatesTyped
  <1>2. /\ templates' = IF d THEN Cleared(id) ELSE templates
        /\ saving' = saving \cup {r}
        /\ overlap' = (overlap \/ (d /\ \E s \in saving : s.isDefault))
    BY <1>1 DEF ClearOthers, Clears
  <1> HIDE DEF r
  <1>3. /\ templates' \in Seq(Template) /\ DOMAIN templates' = DOMAIN templates
        /\ \A i \in DOMAIN templates :
             /\ templates'[i].name = templates[i].name /\ templates'[i].there = templates[i].there
             /\ templates'[i].isDefault => templates[i].isDefault /\ (d => i = id)
    <2>1. CASE d
      BY <1>1, <1>2, <2>1, ClearedFields DEF TemplatesInv
    <2>2. CASE ~d
      BY <1>2, <2>2 DEF TemplatesInv, TemplatesTyped
    <2> QED
      BY <2>1, <2>2
  <1>4. There' = There /\ Defaults' \subseteq Defaults /\ (d => Defaults' \subseteq {id})
    BY <1>3 DEF There, Defaults
  <1>5. NamesApart'
    BY <1>3, <1>4 DEF TemplatesInv, NamesApart, There
  <1>6. DefaultsFit'
    BY <1>1, <1>2, <1>4 DEF TemplatesInv, DefaultsFit
  <1> QED
    BY <1>1, <1>2, <1>3, <1>5, <1>6 DEF TemplatesInv, TemplatesTyped

\* A template stored as the default finds no other, unless two requests overlapped.
LEMMA CreateKeeps ==
  ASSUME TemplatesInv, NEW r \in saving, createTemplate(r)
  PROVE  TemplatesInv'
  <1> DEFINE n == Len(templates) + 1
             t == [name |-> r.name, isDefault |-> r.isDefault, there |-> TRUE]
  <1>1. /\ r \in [id : Nat, name : Titles, isDefault : BOOLEAN] /\ r.id = 0
        /\ saving' = saving \ {r} /\ overlap' = overlap /\ templates \in Seq(Template)
    BY DEF TemplatesInv, TemplatesTyped, createTemplate
  <1>2. CASE templates' = templates
    <2>1. There' = There /\ Defaults' = Defaults
      BY <1>2 DEF There, Defaults
    <2> QED
      BY <1>1, <1>2, <2>1 DEF TemplatesInv, TemplatesTyped, NamesApart, DefaultsFit
  <1>3. CASE ~Taken(r.name, 0) /\ templates' = Append(templates, t)
    <2>1. t \in Template /\ t.name = r.name /\ t.isDefault = r.isDefault /\ t.there
      BY <1>1 DEF Template
    <2> HIDE DEF t
    <2>2. /\ templates' \in Seq(Template) /\ n \in Nat /\ n # 0
          /\ DOMAIN templates' = DOMAIN templates \cup {n} /\ n \notin DOMAIN templates
          /\ templates'[n] = t /\ \A i \in DOMAIN templates : templates'[i] = templates[i]
          /\ 0 \notin DOMAIN templates
      BY <1>1, <1>3, <2>1
    <2> HIDE DEF n
    <2>3. There' = There \cup {n} /\ Defaults' = Defaults \cup {i \in {n} : r.isDefault}
      BY <2>1, <2>2 DEF There, Defaults
    <2>4. NamesApart'
      <3>1. \A i \in There : templates[i].name # r.name
        BY <1>3, <2>2 DEF Taken, There
      <3>2. \A i \in There : templates'[i] = templates[i]
        BY <2>2 DEF There
      <3> QED
        BY <2>1, <2>2, <2>3, <3>1, <3>2 DEF TemplatesInv, NamesApart
    <2>5. DefaultsFit'
      <3>1. CASE r.isDefault
        <4>1. ~overlap => Defaults = {}
          BY <1>1, <2>2, <3>1 DEF TemplatesInv, DefaultsFit, Defaults, There
        <4>2. ~overlap => \A s \in saving' : ~s.isDefault
          BY <1>1, <3>1 DEF TemplatesInv, DefaultsFit
        <4> QED
          BY <1>1, <2>3, <4>1, <4>2 DEF DefaultsFit
      <3>2. CASE ~r.isDefault
        BY <1>1, <2>3, <3>2 DEF TemplatesInv, DefaultsFit
      <3> QED
        BY <3>1, <3>2
    <2> QED
      BY <1>1, <2>2, <2>4, <2>5 DEF TemplatesInv, TemplatesTyped
  <1> QED
    BY <1>2, <1>3 DEF createTemplate

\* So does one that is updated, and its name stays its own.
LEMMA UpdateKeeps ==
  ASSUME TemplatesInv, NEW r \in saving, updateTemplate(r)
  PROVE  TemplatesInv'
  <1>1. /\ r \in [id : Nat, name : Titles, isDefault : BOOLEAN]
        /\ saving' = saving \ {r} /\ overlap' = overlap /\ templates \in Seq(Template)
    BY DEF TemplatesInv, TemplatesTyped, updateTemplate
  <1>2. CASE templates' = templates
    <2>1. There' = There /\ Defaults' = Defaults
      BY <1>2 DEF There, Defaults
    <2> QED
      BY <1>1, <1>2, <2>1 DEF TemplatesInv, TemplatesTyped, NamesApart, DefaultsFit
  <1>3. CASE /\ r.id \in There /\ ~Taken(r.name, r.id)
             /\ templates' =
                  [templates EXCEPT ![r.id].name = r.name, ![r.id].isDefault = r.isDefault]
    <2> DEFINE t == [templates[r.id] EXCEPT !.name = r.name, !.isDefault = r.isDefault]
    <2>1. r.id \in DOMAIN templates /\ templates[r.id] \in Template /\ templates[r.id].there
      BY <1>1, <1>3 DEF There
    <2>2. t \in Template /\ t.name = r.name /\ t.isDefault = r.isDefault /\ t.there
      BY <1>1, <2>1 DEF Template
    <2>3. templates' = [templates EXCEPT ![r.id] = t]
      BY <1>3, <2>1 DEF Template
    <2> HIDE DEF t
    <2>4. /\ templates' \in Seq(Template) /\ DOMAIN templates' = DOMAIN templates
          /\ templates'[r.id] = t
          /\ \A j \in DOMAIN templates \ {r.id} : templates'[j] = templates[j]
      BY <2>1, <2>2, <2>3, ChangedFields DEF TemplatesInv
    <2>5. /\ There' = There
          /\ Defaults' = (Defaults \ {r.id}) \cup {i \in {r.id} : r.isDefault}
      BY <1>3, <2>1, <2>2, <2>4 DEF There, Defaults
    <2>6. NamesApart'
      <3>1. \A i \in There \ {r.id} : templates[i].name # r.name /\ templates'[i] = templates[i]
        BY <1>3, <2>4 DEF Taken, There
      <3> QED
        BY <1>3, <2>2, <2>4, <2>5, <3>1 DEF TemplatesInv, NamesApart
    <2>7. DefaultsFit'
      <3>1. CASE r.isDefault
        <4>1. ~overlap => Defaults \subseteq {r.id}
          BY <3>1 DEF TemplatesInv, DefaultsFit
        <4>2. ~overlap => \A s \in saving' : ~s.isDefault
          BY <1>1, <3>1 DEF TemplatesInv, DefaultsFit
        <4> QED
          BY <1>1, <2>5, <4>1, <4>2 DEF DefaultsFit
      <3>2. CASE ~r.isDefault
        BY <1>1, <2>5, <3>2 DEF TemplatesInv, DefaultsFit
      <3> QED
        BY <3>1, <3>2
    <2> QED
      BY <1>1, <2>4, <2>6, <2>7 DEF TemplatesInv, TemplatesTyped
  <1> QED
    BY <1>2, <1>3 DEF updateTemplate

\* A template that goes leaves the others as they are.
LEMMA DeleteKeeps ==
  ASSUME TemplatesInv, NEW i \in There, deleteTemplate(i)
  PROVE  TemplatesInv'
  <1> DEFINE t == [templates[i] EXCEPT !.there = FALSE, !.isDefault = FALSE]
  <1>1. /\ templates' = [templates EXCEPT ![i].there = FALSE, ![i].isDefault = FALSE]
        /\ saving' = saving /\ overlap' = overlap
    BY DEF deleteTemplate
  <1>2. i \in DOMAIN templates /\ templates[i] \in Template
    BY DEF There, TemplatesInv, TemplatesTyped
  <1>3. t \in Template /\ ~t.there
    BY <1>2 DEF Template
  <1>4. templates' = [templates EXCEPT ![i] = t]
    BY <1>1, <1>2 DEF Template
  <1> HIDE DEF t
  <1>5. /\ templates' \in Seq(Template) /\ DOMAIN templates' = DOMAIN templates
        /\ templates'[i] = t
        /\ \A j \in DOMAIN templates \ {i} : templates'[j] = templates[j]
    BY <1>2, <1>3, <1>4, ChangedFields DEF TemplatesInv
  <1>6. There' = There \ {i} /\ Defaults' = Defaults \ {i}
    BY <1>3, <1>5 DEF There, Defaults
  <1>7. NamesApart'
    BY <1>5, <1>6 DEF TemplatesInv, NamesApart, There
  <1>8. DefaultsFit'
    BY <1>1, <1>6 DEF TemplatesInv, DefaultsFit
  <1> QED
    BY <1>1, <1>5, <1>7, <1>8 DEF TemplatesInv, TemplatesTyped

\* Every step keeps the invariant.
LEMMA TemplatesStep == TemplatesInv /\ [TemplatesNext]_templatesVars => TemplatesInv'
  <1> SUFFICES ASSUME TemplatesInv, [TemplatesNext]_templatesVars PROVE TemplatesInv'
    OBVIOUS
  <1>1. CASE UNCHANGED templatesVars
    <2>1. There' = There /\ Defaults' = Defaults
      BY <1>1 DEF templatesVars, There, Defaults
    <2> QED
      BY <1>1, <2>1 DEF templatesVars, TemplatesInv, TemplatesTyped, NamesApart, DefaultsFit
  <1> QED
    BY <1>1, ClearKeeps, CreateKeeps, UpdateKeeps, DeleteKeeps DEF TemplatesNext

\* Two defaults mean that two requests overlapped.
LEMMA TemplatesHaveOne == TemplatesInv => OneDefault
  <1> SUFFICES ASSUME TemplatesInv PROVE OneDefault
    OBVIOUS
  <1>1. ~overlap => Cardinality(Defaults) <= 1
    <2>1. ASSUME \A i, j \in Defaults : i = j PROVE Cardinality(Defaults) <= 1
      <3>1. CASE Defaults = {}
        BY <3>1, FS_EmptySet
      <3>2. CASE Defaults # {}
        <4>1. PICK i : i \in Defaults
          BY <3>2
        <4>2. Defaults = {i}
          BY <2>1, <4>1
        <4>3. Cardinality({i}) = 1
          BY FS_Singleton
        <4> QED
          BY <4>2, <4>3
      <3> QED
        BY <3>1, <3>2
    <2> QED
      BY <2>1 DEF TemplatesInv, DefaultsFit
  <1> QED
    BY <1>1 DEF TemplatesInv, NamesApart, OneDefault

\* However the two steps of requests interleave and whatever is refused between them, one
\* template at most is the default unless two requests that set it overlapped, and no two
\* templates share a name.
THEOREM AlwaysOneDefault == TemplatesSpec => []OneDefault
  BY TemplatesStart, TemplatesStep, TemplatesHaveOne, PTL DEF TemplatesSpec
-----------------------------------------------------------------------------
(* Composer: the last question is about the form as it stands *)

QuestionsTyped == \A a \in asked : a = [form |-> a.form, last |-> a.last]

\* While nothing is due, the last question that may still be answered is about the form as it is.
LastIsOfForm == ~timer => \A a \in asked : a.last => PreviewOf(a.form) = Wanted(form)

ComposerInv == QuestionsTyped /\ LastIsOfForm /\ PreviewTellsForm

\* At first a question is due.
LEMMA ComposerStarts == ComposerInit => ComposerInv
  BY DEF ComposerInit, ComposerInv, QuestionsTyped, LastIsOfForm, PreviewTellsForm

\* A change of the form makes a question due, and what changes nothing need not.
LEMMA ChangesAskAgain ==
  ASSUME ComposerInv, NEW f, Becomes(f)
  PROVE  ComposerInv'
  <1>1. ~timer' => ~timer /\ form' = form
    BY DEF Becomes, Restarts
  <1> QED
    BY <1>1 DEF Becomes, ComposerInv, QuestionsTyped, LastIsOfForm, PreviewTellsForm, Wanted

\* The question asked is about the form, and no earlier one is the last any more.
LEMMA TimerAsks ==
  ASSUME ComposerInv, TimerFires
  PROVE  ComposerInv'
  <1> DEFINE older == {[a EXCEPT !.last = FALSE] : a \in asked}
  <1>1. \A a \in older : a = [form |-> a.form, last |-> a.last] /\ ~a.last
    BY DEF ComposerInv, QuestionsTyped
  <1>2. timer' = FALSE /\ form' = form
    BY DEF TimerFires
  <1>3. CASE Valid(form.rows) = {}
    <2>1. preview' = NoPreview /\ asked' = older
      BY <1>3 DEF TimerFires
    <2> QED
      BY <1>1, <1>2, <1>3, <2>1
      DEF ComposerInv, QuestionsTyped, LastIsOfForm, PreviewTellsForm, Wanted
  <1>4. CASE Valid(form.rows) # {}
    <2>1. asked' = older \cup {[form |-> form, last |-> TRUE]} /\ fresh' = FALSE
      BY <1>4 DEF TimerFires
    <2>2. PreviewOf(form) = Wanted(form')
      BY <1>2, <1>4 DEF Wanted
    <2> QED
      BY <1>1, <1>2, <2>1, <2>2 DEF ComposerInv, QuestionsTyped, LastIsOfForm, PreviewTellsForm
  <1> QED
    BY <1>3, <1>4

\* What is shown counts as fresh only if it answers the last question.
LEMMA LastAnswerIsOfForm ==
  ASSUME ComposerInv, NEW a \in asked, NEW ok \in BOOLEAN, PreviewAnswers(a, ok)
  PROVE  ComposerInv'
  <1>1. asked' \subseteq asked /\ UNCHANGED <<form, timer>>
    BY DEF PreviewAnswers
  <1>2. CASE ok
    <2>1. preview' = PreviewOf(a.form) /\ fresh' = a.last
      BY <1>2 DEF PreviewAnswers
    <2>2. ~timer' /\ fresh' => preview' = Wanted(form')
      BY <1>1, <2>1 DEF ComposerInv, LastIsOfForm
    <2> QED
      BY <1>1, <2>2 DEF ComposerInv, QuestionsTyped, LastIsOfForm, PreviewTellsForm, Wanted
  <1>3. CASE ~ok
    <2>1. UNCHANGED <<preview, fresh>>
      BY <1>3 DEF PreviewAnswers
    <2> QED
      BY <1>1, <2>1 DEF ComposerInv, QuestionsTyped, LastIsOfForm, PreviewTellsForm, Wanted
  <1> QED
    BY <1>2, <1>3

\* Every step keeps the invariant.
LEMMA ComposerSteps == ComposerInv /\ [ComposerNext]_composerVars => ComposerInv'
  <1> SUFFICES ASSUME ComposerInv, [ComposerNext]_composerVars PROVE ComposerInv'
    OBVIOUS
  <1>1. CASE UNCHANGED composerVars
    BY <1>1 DEF composerVars, ComposerInv, QuestionsTyped, LastIsOfForm, PreviewTellsForm, Wanted
  <1>2. CASE \E f : Becomes(f)
    BY <1>2, ChangesAskAgain
  <1>3. ASSUME NEW d \in Drafts, Reopen(d)
        PROVE  ComposerInv'
    BY <1>3 DEF Reopen, ComposerInv, QuestionsTyped, LastIsOfForm, PreviewTellsForm
  <1>4. CASE TimerFires
    BY <1>4, TimerAsks
  <1>5. ASSUME NEW a \in asked, NEW ok \in BOOLEAN, PreviewAnswers(a, ok)
        PROVE  ComposerInv'
    BY <1>5, LastAnswerIsOfForm
  <1> QED
    BY <1>1, <1>2, <1>3, <1>4, <1>5
    DEF ComposerNext, SelectCustomer, ChangeRow, addItemRow, removeItemRow, Scanned, DraftApplied

\* For any number of customers, rows and questions on their way, and in whatever order they are
\* answered: when nothing is due and what is shown answers the last question, the preview is of
\* the form as it stands.
THEOREM PreviewAlwaysTells == ComposerSpec => []PreviewTellsForm
  <1>1. ComposerInv => PreviewTellsForm
    BY DEF ComposerInv
  <1> QED
    BY <1>1, ComposerStarts, ComposerSteps, PTL DEF ComposerSpec
-----------------------------------------------------------------------------
(* Sending: what was sent *)

Post(p) ==
  /\ p = [visit |-> p.visit, try |-> p.try, buyer |-> p.buyer, whole |-> p.whole, org |-> p.org,
          fate |-> p.fate, heard |-> p.heard]
  /\ p.visit \in 1..visit
  /\ p.heard \in {"no", "yes", "never"}
  /\ p.fate = "refused" => p.heard = "no"
  /\ p.heard = "yes" => p.fate = "made"
  /\ p.fate = "made" => Home[p.buyer] = p.org

PostsTyped ==
  /\ visit \in Nat
  /\ onForm => visit # 0
  /\ IsFiniteSet(posts)
  /\ \A p \in posts : Post(p)

\* What was sent is told apart by the page and the attempt.
TriesApart == \A p, q \in posts : p.visit = q.visit /\ p.try = q.try => p = q

\* A page has sent one invoice at most whose answer it heard or may still hear.
OneHeard ==
  \A p, q \in posts : p.visit = q.visit /\ p.heard # "never" /\ q.heard # "never" => p = q

PostsFit == PostsTyped /\ TriesApart /\ OneHeard

\* The page that is open cannot save while it may still hear an answer.
StillSaving == onForm => \A p \in posts : p.visit = visit /\ p.heard # "never" => isSaving

SendingInv == PostsFit /\ StillSaving

\* At first nothing was sent.
LEMMA SendingStarts == SendingInit => SendingInv
  <1>1. IsFiniteSet({})
    BY FS_EmptySet
  <1> QED
    BY <1>1 DEF SendingInit, SendingInv, PostsFit, PostsTyped, TriesApart, OneHeard, StillSaving

\* A page that is opened or left has sent nothing as it is now.
LEMMA PagesStartAfresh ==
  ASSUME SendingInv, posts' = posts,
         \/ \E o, d : Mounted(o, d)
         \/ Unmounted
         \/ UNCHANGED <<visit, onForm, isSaving>>
  PROVE  SendingInv'
  <1>1. visit' \in Nat /\ visit' >= visit
    BY DEF Mounted, Unmounted, SendingInv, PostsFit, PostsTyped
  <1>2. PostsFit'
    BY <1>1 DEF Mounted, Unmounted, SendingInv, PostsFit, PostsTyped, Post, TriesApart, OneHeard
  <1>3. StillSaving'
    <2>1. CASE \E o, d : Mounted(o, d)
      <3>1. \A p \in posts' : p.visit # visit'
        BY <2>1 DEF Mounted, SendingInv, PostsFit, PostsTyped, Post
      <3> QED
        BY <3>1 DEF StillSaving
    <2>2. CASE ~onForm'
      BY <2>2 DEF StillSaving
    <2>3. CASE UNCHANGED <<visit, onForm, isSaving>>
      BY <2>3 DEF SendingInv, StillSaving
    <2> QED
      BY <2>1, <2>2, <2>3 DEF Unmounted
  <1> QED
    BY <1>2, <1>3 DEF SendingInv

\* Fewer attempts were made than there may be, so one is left to tell the next by.
LEMMA TryIsNew ==
  ASSUME PostsFit, Cardinality(posts) < MaxPosts
  PROVE  \A p \in posts : p.visit = visit => p.try # NextTry
  <1> DEFINE tries == {p.try : p \in posts}
  <1>1. IsFiniteSet(posts)
    BY DEF PostsFit, PostsTyped
  <1>2. IsFiniteSet(tries) /\ Cardinality(tries) <= Cardinality(posts)
    <2> DEFINE g == [p \in posts |-> p.try]
    <2>1. g \in [posts -> tries] /\ \A t \in tries : \E p \in posts : g[p] = t
      OBVIOUS
    <2> HIDE DEF g
    <2>2. g \in Surjection(posts, tries)
      BY <2>1 DEF Surjection
    <2> QED
      BY <1>1, <2>2, FS_Surjection
  <1>3. IsFiniteSet(1..MaxPosts) /\ Cardinality(1..MaxPosts) = MaxPosts
    BY FS_Interval, SendingAssumption
  <1>4. ~(1..MaxPosts \subseteq tries)
    <2> HIDE DEF tries
    <2>1. 1..MaxPosts \subseteq tries => Cardinality(1..MaxPosts) <= Cardinality(tries)
      BY <1>2, FS_Subset
    <2>2. Cardinality(posts) \in Nat /\ Cardinality(tries) \in Nat /\ MaxPosts \in Nat
      BY <1>1, <1>2, FS_CardinalityType, SendingAssumption
    <2> QED
      BY <1>2, <1>3, <2>1, <2>2
  <1>5. \E n \in 1..MaxPosts : \A p \in posts : p.visit = visit => p.try # n
    BY <1>4
  <1> QED
    BY <1>5 DEF NextTry

\* What is sent is the first the open page may hear an answer of.
LEMMA SubmitSends ==
  ASSUME SendingInv, handleSubmit
  PROVE  SendingInv'
  <1> DEFINE new == [visit |-> visit, try |-> NextTry, buyer |-> buyer, whole |-> whole,
                     org |-> session, fate |-> "sent", heard |-> "no"]
  <1>0. PostsTyped /\ TriesApart /\ OneHeard /\ StillSaving
    BY DEF SendingInv, PostsFit
  <1>1. /\ posts' = posts \cup {new} /\ visit' = visit /\ isSaving' = TRUE
        /\ onForm /\ ~isSaving
    BY DEF handleSubmit, MaySubmit
  <1>2. PostsTyped'
    <2>1. IsFiniteSet(posts')
      BY <1>0, <1>1, FS_AddElement DEF PostsTyped
    <2>2. visit \in 1..visit
      BY <1>0, <1>1 DEF PostsTyped
    <2> QED
      BY <1>0, <1>1, <2>1, <2>2 DEF PostsTyped, Post, handleSubmit
  <1>3. TriesApart'
    BY <1>0, <1>1, TryIsNew DEF TriesApart, PostsFit, handleSubmit
  <1>4. OneHeard'
    <2>1. \A p \in posts : p.visit = visit => p.heard = "never"
      BY <1>0, <1>1 DEF StillSaving
    <2> QED
      BY <1>0, <1>1, <2>1 DEF OneHeard
  <1>5. StillSaving'
    BY <1>1 DEF StillSaving
  <1> QED
    BY <1>2, <1>3, <1>4, <1>5 DEF SendingInv, PostsFit

\* A post that goes on stays on its page; nobody hears again who has given up.
LEMMA PostGoesOn ==
  ASSUME PostsFit, NEW p \in posts, NEW q, visit' = visit, onForm' => onForm,
         posts' = Becoming(p, q), Post(q),
         q.visit = p.visit, q.try = p.try, q.heard # "never" => p.heard # "never"
  PROVE  PostsFit'
  <1>1. IsFiniteSet(posts')
    BY FS_AddElement, FS_RemoveElement DEF PostsFit, PostsTyped, Becoming
  <1>2. PostsTyped'
    BY <1>1 DEF PostsFit, PostsTyped, Post, Becoming
  <1>3. TriesApart'
    BY DEF PostsFit, TriesApart, Becoming
  <1>4. OneHeard'
    BY DEF PostsFit, OneHeard, Becoming
  <1> QED
    BY <1>2, <1>3, <1>4 DEF PostsFit

\* A post that was refused is forgotten.
LEMMA PostGoes ==
  ASSUME PostsFit, NEW p \in posts, visit' = visit, onForm' => onForm, posts' = posts \ {p}
  PROVE  PostsFit'
  <1>1. IsFiniteSet(posts')
    BY FS_RemoveElement DEF PostsFit, PostsTyped
  <1> QED
    BY <1>1 DEF PostsFit, PostsTyped, Post, TriesApart, OneHeard

\* The server stores what is whole and of a customer it finds.
LEMMA ServerAnswers ==
  ASSUME SendingInv, NEW p \in posts, createInvoice(p)
  PROVE  SendingInv'
  <1>1. Post(p) /\ p.fate = "sent" /\ UNCHANGED <<visit, onForm, isSaving>>
    BY DEF SendingInv, PostsFit, PostsTyped, createInvoice, pageVars
  <1>2. CASE p.whole /\ Finds(p.buyer, p.org)
    <2> DEFINE q == [p EXCEPT !.fate = "made"]
    <2>1. posts' = Becoming(p, q)
      BY <1>2 DEF createInvoice
    <2>2. q = [visit |-> p.visit, try |-> p.try, buyer |-> p.buyer, whole |-> p.whole,
               org |-> p.org, fate |-> "made", heard |-> p.heard]
      BY <1>1 DEF Post
    <2>3. Post(q)
      BY <1>1, <1>2, <2>2 DEF Post, Finds
    <2>4. PostsFit'
      BY <1>1, <2>1, <2>2, <2>3, PostGoesOn DEF SendingInv
    <2> QED
      BY <1>1, <2>1, <2>2, <2>4 DEF SendingInv, StillSaving, Becoming
  <1>3. CASE ~(p.whole /\ Finds(p.buyer, p.org)) /\ p.heard = "never"
    <2>1. posts' = posts \ {p}
      BY <1>3 DEF createInvoice
    <2>2. PostsFit'
      BY <1>1, <2>1, PostGoes DEF SendingInv
    <2> QED
      BY <1>1, <2>1, <2>2 DEF SendingInv, StillSaving
  <1>4. CASE ~(p.whole /\ Finds(p.buyer, p.org)) /\ p.heard # "never"
    <2> DEFINE q == [p EXCEPT !.fate = "refused"]
    <2>1. posts' = Becoming(p, q)
      BY <1>4 DEF createInvoice
    <2>2. q = [visit |-> p.visit, try |-> p.try, buyer |-> p.buyer, whole |-> p.whole,
               org |-> p.org, fate |-> "refused", heard |-> p.heard]
      BY <1>1 DEF Post
    <2>3. Post(q)
      BY <1>1, <1>4, <2>2 DEF Post
    <2>4. PostsFit'
      BY <1>1, <2>1, <2>2, <2>3, PostGoesOn DEF SendingInv
    <2> QED
      BY <1>1, <2>1, <2>2, <2>4 DEF SendingInv, StillSaving, Becoming
  <1> QED
    BY <1>2, <1>3, <1>4

\* The page that hears an answer is left.
LEMMA AnswerIsHeard ==
  ASSUME SendingInv, NEW p \in posts, InvoiceOpens(p)
  PROVE  SendingInv'
  <1> DEFINE q == [p EXCEPT !.heard = "yes"]
  <1>1. Post(p) /\ p.fate = "made" /\ p.heard = "no" /\ visit' = visit /\ ~onForm'
    BY DEF SendingInv, PostsFit, PostsTyped, InvoiceOpens, Unmounted
  <1>2. posts' = Becoming(p, q)
    BY DEF InvoiceOpens
  <1>3. q = [visit |-> p.visit, try |-> p.try, buyer |-> p.buyer, whole |-> p.whole,
             org |-> p.org, fate |-> p.fate, heard |-> "yes"]
    BY <1>1 DEF Post
  <1>4. Post(q)
    BY <1>1, <1>3 DEF Post
  <1>5. PostsFit'
    BY <1>1, <1>2, <1>3, <1>4, PostGoesOn DEF SendingInv
  <1> QED
    BY <1>1, <1>5 DEF SendingInv, StillSaving

\* A page that may save again was waiting for this answer, and for no other.
LEMMA NoOtherAnswer ==
  ASSUME SendingInv, NEW p \in posts, p.heard = "no", Unsaving(p), onForm' = onForm,
         visit' = visit,
         \A r \in posts' : r.heard # "never" => r \in posts \ {p}
  PROVE  StillSaving'
  <1> SUFFICES ASSUME onForm, NEW r \in posts', r.visit = visit, r.heard # "never"
               PROVE  isSaving'
    BY DEF StillSaving
  <1>1. r \in posts /\ r # p /\ isSaving
    BY DEF SendingInv, StillSaving
  <1>2. p.visit # visit
    BY <1>1 DEF SendingInv, PostsFit, OneHeard
  <1> QED
    BY <1>1, <1>2 DEF Unsaving

\* An error that is told lets the page save again.
LEMMA RefusalIsHeard ==
  ASSUME SendingInv, NEW p \in posts, ErrorShows(p)
  PROVE  SendingInv'
  <1>1. p.heard = "no"
    BY DEF SendingInv, PostsFit, PostsTyped, Post, ErrorShows
  <1>2. posts' = posts \ {p} /\ visit' = visit /\ onForm' = onForm /\ Unsaving(p)
    BY DEF ErrorShows
  <1>3. PostsFit'
    BY <1>2, PostGoes DEF SendingInv
  <1>4. StillSaving'
    BY <1>1, <1>2, NoOtherAnswer
  <1> QED
    BY <1>3, <1>4 DEF SendingInv

\* So does an answer nobody waits for any more.
LEMMA NobodyWaits ==
  ASSUME SendingInv, NEW p \in posts, GiveUp(p)
  PROVE  SendingInv'
  <1> DEFINE q == [p EXCEPT !.heard = "never"]
  <1>1. /\ Post(p) /\ p.fate # "refused" /\ p.heard = "no"
        /\ visit' = visit /\ onForm' = onForm /\ Unsaving(p)
    BY DEF SendingInv, PostsFit, PostsTyped, GiveUp
  <1>2. posts' = Becoming(p, q)
    BY DEF GiveUp
  <1>3. q = [visit |-> p.visit, try |-> p.try, buyer |-> p.buyer, whole |-> p.whole,
             org |-> p.org, fate |-> p.fate, heard |-> "never"]
    BY <1>1 DEF Post
  <1>4. Post(q)
    BY <1>1, <1>3 DEF Post
  <1>5. PostsFit'
    BY <1>1, <1>2, <1>3, <1>4, PostGoesOn DEF SendingInv
  <1>6. StillSaving'
    BY <1>1, <1>2, <1>3, NoOtherAnswer DEF Becoming
  <1> QED
    BY <1>5, <1>6 DEF SendingInv

\* Whoever reloads hears no answer to what he sent.
LEMMA ReloadHearsNothing ==
  ASSUME SendingInv, Reload
  PROVE  SendingInv'
  <1> DEFINE left == {q \in posts : q.fate # "refused"}
  <1>0. PostsTyped /\ TriesApart /\ OneHeard
    BY DEF SendingInv, PostsFit
  <1>1. posts' = {Unheard(p) : p \in left}
    BY DEF Reload
  <1>2. /\ visit' \in Nat /\ visit' >= visit
        /\ onForm' => visit' # 0 /\ visit' # visit
    BY <1>0 DEF Reload, Mounted, pageVars, PostsTyped
  <1>3. \A p \in left :
          /\ Post(Unheard(p)) /\ Unheard(p).visit = p.visit /\ Unheard(p).try = p.try
          /\ Unheard(p).heard # "never" => Unheard(p) = p
    BY <1>0 DEF PostsTyped, Post, Unheard
  <1>4. IsFiniteSet(posts')
    <2>1. IsFiniteSet(left)
      BY <1>0, FS_Subset DEF PostsTyped
    <2>2. [p \in left |-> Unheard(p)] \in Surjection(left, posts')
      BY <1>1 DEF Surjection
    <2> QED
      BY <2>1, <2>2, FS_Surjection
  <1>5. PostsTyped'
    <2>1. \A q \in posts' : Post(q)
      BY <1>1, <1>3
    <2>2. visit \in Nat
      BY <1>0 DEF PostsTyped
    <2>3. \A q \in posts' : Post(q)'
      BY <1>2, <2>1, <2>2 DEF Post
    <2> QED
      BY <1>2, <1>4, <2>3 DEF PostsTyped
  <1>6. TriesApart'
    BY <1>0, <1>1, <1>3 DEF TriesApart
  <1>7. OneHeard'
    BY <1>0, <1>1, <1>3 DEF OneHeard
  <1>8. StillSaving'
    BY <1>0, <1>1, <1>2, <1>3 DEF StillSaving, PostsTyped, Post
  <1> QED
    BY <1>5, <1>6, <1>7, <1>8 DEF SendingInv, PostsFit

\* Every step keeps the invariant.
LEMMA SendingSteps == SendingInv /\ [SendingNext]_sendingVars => SendingInv'
  <1> SUFFICES ASSUME SendingInv, [SendingNext]_sendingVars PROVE SendingInv'
    OBVIOUS
  <1>1. CASE /\ posts' = posts
             /\ \/ \E o, d : Mounted(o, d)
                \/ Unmounted
                \/ UNCHANGED <<visit, onForm, isSaving>>
    BY <1>1, PagesStartAfresh
  <1>2. CASE handleSubmit
    BY <1>2, SubmitSends
  <1>3. ASSUME NEW p \in posts,
               createInvoice(p) \/ InvoiceOpens(p) \/ ErrorShows(p) \/ GiveUp(p)
        PROVE  SendingInv'
    BY <1>3, ServerAnswers, AnswerIsHeard, RefusalIsHeard, NobodyWaits
  <1>4. CASE Reload
    BY <1>4, ReloadHearsNothing
  <1>5. CASE UNCHANGED sendingVars
    BY <1>1, <1>5 DEF sendingVars, pageVars
  <1>6. ASSUME OpenForm \/ LeaveForm
        PROVE  SendingInv'
    BY <1>1, <1>6 DEF OpenForm, LeaveForm
  <1>7. ASSUME NEW c, ChooseBuyer(c)
        PROVE  SendingInv'
    BY <1>1, <1>7 DEF ChooseBuyer
  <1>8. ASSUME NEW b, FillRows(b) \/ OcrAnswers(b)
        PROVE  SendingInv'
    BY <1>1, <1>8 DEF FillRows, OcrAnswers
  <1>9. ASSUME NEW d, handleApplyDraft(d)
        PROVE  SendingInv'
    BY <1>1, <1>9 DEF handleApplyDraft
  <1>10. CASE handleOcrUpload
    BY <1>1, <1>10 DEF handleOcrUpload
  <1>11. ASSUME NEW o, handleSwitch(o) \/ OtherTabSwitches(o) \/ SignInAgain(o)
         PROVE  SendingInv'
    BY <1>1, <1>11 DEF handleSwitch, OtherTabSwitches, SignInAgain, Shows, pageVars
  <1>12. CASE handleInvitation
    BY <1>1, <1>12 DEF handleInvitation, Shows, pageVars
  <1> QED
    BY <1>2, <1>3, <1>4, <1>5, <1>6, <1>7, <1>8, <1>9, <1>10, <1>11, <1>12 DEF SendingNext

\* Of what a page sent and the server stored, all but one were never answered.
LEMMA AllButOneUnheard ==
  ASSUME SendingInv, NEW v
  PROVE  LET its == {p \in StoredPosts : p.visit = v} IN
         Cardinality(its) <= 1 + Cardinality({p \in its : p.heard = "never"})
  <1> DEFINE its == {p \in StoredPosts : p.visit = v}
             never == {p \in its : p.heard = "never"}
  <1>1. IsFiniteSet(its) /\ IsFiniteSet(never)
    BY FS_Subset DEF SendingInv, PostsFit, PostsTyped, StoredPosts
  <1>2. Cardinality(its) \in Nat /\ Cardinality(never) \in Nat
    BY <1>1, FS_CardinalityType
  <1>3. CASE its = never
    BY <1>2, <1>3
  <1>4. CASE its # never
    <2>1. PICK p \in its : p.heard # "never"
      BY <1>4
    <2>2. its = never \cup {p} /\ p \notin never
      BY <2>1 DEF SendingInv, PostsFit, OneHeard, StoredPosts
    <2>3. Cardinality(never \cup {p}) = Cardinality(never) + 1
      BY <1>1, <2>2, FS_AddElement
    <2> QED
      BY <1>2, <2>2, <2>3
  <1> QED
    BY <1>3, <1>4

\* For any number of organizations, customers, pages opened and invoices sent, however a user
\* switches, signs out, reloads and sends again: an invoice is stored where its customer
\* belongs, and a page stores one, and one more for each answer it never heard.
THEOREM InvoicesSentWhereMeant == SendingSpec => []SentWhereMeant
  <1>1. SendingInv => SentWhereMeant
    <2> SUFFICES ASSUME SendingInv PROVE SentWhereMeant
      OBVIOUS
    <2>1. OwnCustomer
      BY DEF SendingInv, PostsFit, PostsTyped, Post, OwnCustomer, StoredPosts
    <2>2. StoredOnce
      BY AllButOneUnheard DEF StoredOnce
    <2> QED
      BY <2>1, <2>2 DEF SentWhereMeant
  <1> QED
    BY <1>1, SendingStarts, SendingSteps, PTL DEF SendingSpec
-----------------------------------------------------------------------------
(* Assistant: the time a request has taken *)

AssistantTyped ==
  /\ elapsed \in Nat /\ served \in Nat
  /\ attempt \in {0, 1}
  /\ counted = [store |-> counted.store, memory |-> counted.memory]
  /\ counted.store \in Nat /\ counted.memory \in Nat
  /\ step \in {"idle", "gemini", "openai", "done", "answered"}

\* The budget is looked at before a model is tried: two attempts may follow, with a pause.
TimeTaken ==
  /\ step = "idle" => elapsed = 0 /\ attempt = 0
  /\ step = "gemini" => elapsed <= Budget + 2 * Timeout + Wait
  /\ step = "gemini" /\ attempt = 1 => elapsed <= Budget + Timeout + Wait
  /\ step = "openai" => elapsed <= Budget + 2 * Timeout + Wait
  /\ elapsed <= Budget + 3 * Timeout + Wait

\* Only what was let through takes time, and its answer is still to come.
AskedInOrder ==
  /\ step \in {"gemini", "openai", "done"} \/ elapsed > 0 => request.input = "fine"
  /\ step # "answered" => status = 0
  /\ step = "answered" /\ elapsed > 0 /\ request.kind \in WithFallback => status = 200

UpToMax(n) == IF n < MaxAsks THEN n ELSE MaxAsks

\* Each count lets through its maximum.
ServedCounted == served <= UpToMax(counted.store) + UpToMax(counted.memory)

AssistantInv == AssistantTyped /\ TimeTaken /\ AskedInOrder /\ ServedCounted

\* The limits are natural numbers, and so is the time a call takes.
LEMMA AssistantBounds ==
  /\ Models \in Nat /\ Timeout \in Nat /\ Wait \in Nat /\ Budget \in Nat /\ MaxAsks \in Nat
  /\ Durations \subseteq Nat /\ \A d \in Durations : d <= Timeout
  BY AssistantAssumption DEF Durations

\* At first nothing was asked.
LEMMA AssistantStarts == AssistantInit => AssistantInv
  BY AssistantBounds
  DEF AssistantInit, AssistantInv, AssistantTyped, TimeTaken, AskedInOrder, ServedCounted, UpToMax

\* A request is counted, then checked.
LEMMA AskIsCounted ==
  ASSUME AssistantInv, NEW r, NEW where \in {"store", "memory"}, NEW dbFails \in BOOLEAN,
         r.input \in Uploads, Ask(r, where, dbFails)
  PROVE  AssistantInv'
  <1> USE AssistantBounds
  <1>0. AssistantTyped /\ TimeTaken /\ AskedInOrder /\ ServedCounted /\ step = "idle"
    BY DEF AssistantInv, Ask
  <1>1. /\ counted' = [counted EXCEPT ![where] = @ + 1]
        /\ request' = r /\ UNCHANGED <<attempt, elapsed>>
    BY DEF Ask, Bucket
  <1>2. /\ counted' = [store |-> counted'.store, memory |-> counted'.memory]
        /\ counted'.store \in Nat /\ counted'.memory \in Nat
        /\ counted'[where] = counted[where] + 1
        /\ \A w \in {"store", "memory"} \ {where} : counted'[w] = counted[w]
    <2>0. PICK a \in Nat, b \in Nat : counted = [store |-> a, memory |-> b]
      BY <1>0 DEF AssistantTyped
    <2>1. CASE where = "store"
      <3>1. counted' = [store |-> a + 1, memory |-> b]
        BY <1>1, <2>0, <2>1
      <3> QED
        BY <2>0, <2>1, <3>1
    <2>2. CASE where = "memory"
      <3>1. counted' = [store |-> a, memory |-> b + 1]
        BY <1>1, <2>0, <2>2
      <3> QED
        BY <2>0, <2>2, <3>1
    <2> QED
      BY <2>1, <2>2
  <1>3. elapsed = 0 /\ attempt = 0
    BY <1>0 DEF TimeTaken
  <1>4. CASE counted'[where] > MaxAsks
    <2>1. step' = "answered" /\ served' = served
      BY <1>4 DEF Ask
    <2>2. ServedCounted'
      BY <1>0, <1>2, <2>1 DEF AssistantTyped, ServedCounted, UpToMax
    <2> QED
      BY <1>0, <1>1, <1>2, <1>3, <2>1, <2>2
      DEF AssistantInv, AssistantTyped, TimeTaken, AskedInOrder
  <1>5. CASE ~(counted'[where] > MaxAsks)
    <2>1. served' = served + 1
      BY <1>5 DEF Ask
    <2>2. ServedCounted'
      BY <1>0, <1>2, <1>5, <2>1 DEF AssistantTyped, ServedCounted, UpToMax
    <2>3. CASE Refusal(r, dbFails) = "none"
      <3>1. step' = "gemini" /\ status' = status
        BY <1>5, <2>3 DEF Ask
      <3>2. r.input = "fine"
        BY <2>3 DEF Refusal, Uploads, Inputs
      <3> QED
        BY <1>0, <1>1, <1>2, <1>3, <2>1, <2>2, <3>1, <3>2
        DEF AssistantInv, AssistantTyped, TimeTaken, AskedInOrder
    <2>4. CASE Refusal(r, dbFails) # "none"
      <3>1. step' = "answered"
        BY <1>5, <2>4 DEF Ask
      <3> QED
        BY <1>0, <1>1, <1>2, <1>3, <2>1, <2>2, <3>1
        DEF AssistantInv, AssistantTyped, TimeTaken, AskedInOrder
    <2> QED
      BY <2>3, <2>4
  <1> QED
    BY <1>4, <1>5

\* An attempt takes a call's time, and the first one of a model perhaps a pause.
LEMMA GeminiTakesTime ==
  ASSUME AssistantInv, NEW reply, NEW d \in Durations, GeminiAnswers(reply, d)
  PROVE  AssistantInv'
  <1> USE AssistantBounds
  <1>0. AssistantTyped /\ TimeTaken /\ AskedInOrder /\ ServedCounted /\ step = "gemini" /\ MayTry
    BY DEF AssistantInv, GeminiAnswers
  <1> DEFINE pause == IF reply = "overloaded" /\ attempt = 0 THEN Wait ELSE 0
  <1>1. /\ elapsed' = elapsed + d + pause /\ UNCHANGED <<request, status, counted, served>>
        /\ d \in Nat /\ d <= Timeout /\ pause \in Nat /\ pause <= Wait
        /\ attempt = 1 => pause = 0
    BY DEF GeminiAnswers
  <1>2. elapsed' \in Nat /\ elapsed' <= Budget + 2 * Timeout + Wait
    BY <1>0, <1>1 DEF AssistantTyped, TimeTaken, MayTry
  <1>3. attempt = 0 => elapsed' <= Budget + Timeout + Wait
    BY <1>0, <1>1 DEF AssistantTyped, MayTry
  <1>4. ServedCounted'
    BY <1>0, <1>1 DEF ServedCounted, UpToMax
  <1>5. \/ step' = "done" /\ attempt' = attempt
        \/ step' = "gemini" /\ attempt' = 0
        \/ step' = "gemini" /\ attempt = 0 /\ attempt' = 1
    BY <1>0 DEF GeminiAnswers, NextModel, Again
  <1>6. AskedInOrder'
    BY <1>0, <1>1, <1>5 DEF AskedInOrder
  <1>7. AssistantTyped'
    BY <1>0, <1>1, <1>2, <1>5 DEF AssistantTyped
  <1>8. TimeTaken'
    BY <1>2, <1>3, <1>5 DEF TimeTaken
  <1> QED
    BY <1>4, <1>6, <1>7, <1>8 DEF AssistantInv

\* The other provider is called once.
LEMMA OpenAiTakesTime ==
  ASSUME AssistantInv, NEW reply, NEW d \in Durations, OpenAiAnswers(reply, d)
  PROVE  AssistantInv'
  <1> USE AssistantBounds
  <1>0. AssistantTyped /\ TimeTaken /\ AskedInOrder /\ ServedCounted /\ step = "openai"
    BY DEF AssistantInv, OpenAiAnswers
  <1>1. /\ elapsed' = elapsed + d /\ d \in Nat /\ d <= Timeout
        /\ step' = "done" /\ UNCHANGED <<request, attempt, status, counted, served>>
    BY <1>0 DEF OpenAiAnswers, AssistantTyped
  <1>2. elapsed' \in Nat /\ elapsed' <= Budget + 3 * Timeout + Wait
    BY <1>0, <1>1 DEF AssistantTyped, TimeTaken
  <1> QED
    BY <1>0, <1>1, <1>2
    DEF AssistantInv, AssistantTyped, TimeTaken, AskedInOrder, ServedCounted, UpToMax

\* What is left takes no time.
LEMMA RestTakesNoTime ==
  ASSUME AssistantInv, GeminiEnds \/ Answer \/ NextRequest \/ NextWindow \/ UNCHANGED assistantVars
  PROVE  AssistantInv'
  <1> USE AssistantBounds DEF AssistantInv, AssistantTyped, TimeTaken, AskedInOrder
  <1>1. CASE GeminiEnds
    BY <1>1 DEF GeminiEnds, ServedCounted, UpToMax
  <1>2. CASE Answer
    BY <1>2 DEF Answer, AnswerWithFallback, ServedCounted, UpToMax
  <1>3. CASE NextRequest
    BY <1>3 DEF NextRequest, ServedCounted, UpToMax
  <1>4. CASE NextWindow
    BY <1>4 DEF NextWindow, ServedCounted, UpToMax
  <1>5. CASE UNCHANGED assistantVars
    BY <1>5 DEF assistantVars, ServedCounted, UpToMax
  <1> QED
    BY <1>1, <1>2, <1>3, <1>4, <1>5

\* Every step keeps the invariant.
LEMMA AssistantSteps == AssistantInv /\ [AssistantNext]_assistantVars => AssistantInv'
  <1> SUFFICES ASSUME AssistantInv, [AssistantNext]_assistantVars PROVE AssistantInv'
    OBVIOUS
  <1>1. ASSUME NEW where \in {"store", "memory"}, NEW dbFails \in BOOLEAN, NEW k,
               NEW i \in Uploads, Ask([kind |-> k, input |-> i], where, dbFails)
        PROVE  AssistantInv'
    BY <1>1, AskIsCounted
  <1>2. ASSUME NEW reply, NEW d \in Durations, GeminiAnswers(reply, d)
        PROVE  AssistantInv'
    BY <1>2, GeminiTakesTime
  <1>3. ASSUME NEW reply, NEW d \in Durations, OpenAiAnswers(reply, d)
        PROVE  AssistantInv'
    BY <1>3, OpenAiTakesTime
  <1>4. Inputs \subseteq Uploads
    BY DEF Uploads
  <1> QED
    BY <1>1, <1>2, <1>3, <1>4, RestTakesNoTime DEF AssistantNext

\* For any number of models and of requests, any budget and whatever the providers answer: a
\* request takes the budget, two attempts of one more model and one call elsewhere at most, a
\* draft or a question is answered whatever they do, and a window lets through what is counted.
THEOREM AssistantAlwaysAnswers == AssistantSpec => []AssistantAnswers
  <1>1. AssistantInv => AssistantAnswers
    BY AssistantBounds
    DEF AssistantInv, AssistantTyped, TimeTaken, AskedInOrder, ServedCounted, UpToMax,
        AssistantAnswers
  <1> QED
    BY <1>1, AssistantStarts, AssistantSteps, PTL DEF AssistantSpec
-----------------------------------------------------------------------------
(* Workspace: the copy and what it is a copy of *)

OrgShape(o) ==
  /\ o = [type |-> o.type, modules |-> o.modules, onboarded |-> o.onboarded, next |-> o.next]
  /\ o.type \in Types /\ o.onboarded \in BOOLEAN /\ o.next \in Nat

WorkspaceTyped ==
  /\ OrgShape(org)
  /\ mine = [type |-> mine.type, modules |-> mine.modules, onboarded |-> mine.onboarded,
             next |-> mine.next, role |-> mine.role]
  /\ mine.type \in Types /\ role \in Everyone
  /\ mine.next \in Nat /\ mine.onboarded \in BOOLEAN
  /\ changes \in Nat

PatchTyped ==
  /\ patch = [on |-> patch.on, seen |-> patch.seen, put |-> patch.put, whole |-> patch.whole,
              stale |-> patch.stale, heard |-> patch.heard]
  /\ patch.on \in {"none", "save", "profile", "between"}
  /\ patch.whole \in BOOLEAN /\ patch.stale \in BOOLEAN /\ patch.heard \in BOOLEAN
  /\ OrgShape(patch.seen) /\ OrgShape(patch.put)

\* A request raises the counter it read and onboards, only the first of two brings modules, and
\* while the version is what was read the modules are.
PatchSound ==
  patch.on \in {"save", "profile"} =>
    /\ patch.put.next >= patch.seen.next
    /\ patch.seen.onboarded => patch.put.onboarded
    /\ patch.on = "save" => patch.put.modules = patch.seen.modules
    /\ ~patch.stale => org.modules = patch.seen.modules

WorkspaceInv == WorkspaceTyped /\ PatchTyped /\ PatchSound

\* What an organization is made of is what it has.
LEMMA OrgMade ==
  ASSUME NEW t, NEW ms, NEW b, NEW n
  PROVE  /\ OrgOf(t, ms, b, n).type = t /\ OrgOf(t, ms, b, n).modules = ms
         /\ OrgOf(t, ms, b, n).onboarded = b /\ OrgOf(t, ms, b, n).next = n
         /\ t \in Types /\ b \in BOOLEAN /\ n \in Nat => OrgShape(OrgOf(t, ms, b, n))
  BY DEF OrgOf, OrgShape

\* What one has.
LEMMA OrgHas ==
  ASSUME NEW o, OrgShape(o)
  PROVE  o.type \in Types /\ o.onboarded \in BOOLEAN /\ o.next \in Nat
  BY DEF OrgShape

\* The copy of an organization is one.
LEMMA CopyStays ==
  ASSUME NEW o, OrgShape(o), NEW r, mine' = Copy(o, r)
  PROVE  /\ mine' = [type |-> mine'.type, modules |-> mine'.modules,
                     onboarded |-> mine'.onboarded, next |-> mine'.next, role |-> mine'.role]
         /\ mine'.type \in Types /\ mine'.next \in Nat /\ mine'.onboarded \in BOOLEAN
  <1>1. mine' = [type |-> o.type, modules |-> o.modules, onboarded |-> o.onboarded,
                 next |-> o.next, role |-> r]
    BY DEF Copy
  <1>2. /\ mine'.type = o.type /\ mine'.modules = o.modules /\ mine'.onboarded = o.onboarded
        /\ mine'.next = o.next /\ mine'.role = r
    BY <1>1
  <1> QED
    BY <1>1, <1>2 DEF OrgShape

\* At sign-in the copy is what the server holds.
LEMMA NoPatchTyped ==
  /\ NoPatch.on = "none" /\ NoPatch.heard /\ ~NoPatch.stale
  /\ NoPatch = [on |-> "none", seen |-> NoPatch.seen, put |-> NoPatch.put, whole |-> FALSE,
                stale |-> FALSE, heard |-> TRUE]
  /\ OrgShape(NoPatch.seen) /\ OrgShape(NoPatch.put)
  <1>1. OrgShape(OrgOf("general", {}, FALSE, 1))
    BY OrgMade DEF Types
  <1> QED
    BY <1>1 DEF NoPatch

\* A request of that kind is one.
LEMMA PatchMade ==
  ASSUME NEW on, NEW seen, NEW put, NEW all \in BOOLEAN, NEW old \in BOOLEAN,
         NEW heard \in BOOLEAN, on \in {"none", "save", "profile", "between"},
         OrgShape(seen), OrgShape(put),
         patch' = [on |-> on, seen |-> seen, put |-> put, whole |-> all, stale |-> old,
                   heard |-> heard]
  PROVE  PatchTyped' /\ patch'.on = on /\ (on \notin {"save", "profile"} => PatchSound')
  <1>1. /\ patch'.on = on /\ patch'.seen = seen /\ patch'.put = put /\ patch'.whole = all
        /\ patch'.stale = old /\ patch'.heard = heard
    OBVIOUS
  <1>2. OrgShape(patch'.seen) /\ OrgShape(patch'.put)
    BY <1>1
  <1>3. (OrgShape(patch.seen) /\ OrgShape(patch.put))'
    BY <1>2 DEF OrgShape
  <1>4. PatchTyped'
    BY <1>1, <1>3 DEF PatchTyped
  <1>5. on \notin {"save", "profile"} => PatchSound'
    BY <1>1 DEF PatchSound
  <1> QED
    BY <1>1, <1>4, <1>5


LEMMA WorkspaceStarts == WorkspaceInit => WorkspaceInv
  <1> SUFFICES ASSUME WorkspaceInit PROVE WorkspaceInv
    OBVIOUS
  <1>1. WorkspaceTyped
    BY DEF WorkspaceInit, WorkspaceTyped, OrgShape, Copy
  <1>2. PatchTyped /\ PatchSound
    <2>1. patch = NoPatch
      BY DEF WorkspaceInit
    <2>2. /\ patch.on = "none" /\ patch.whole = FALSE /\ patch.stale = FALSE
          /\ patch.heard = TRUE /\ OrgShape(patch.seen) /\ OrgShape(patch.put)
          /\ patch = [on |-> patch.on, seen |-> patch.seen, put |-> patch.put,
                      whole |-> patch.whole, stale |-> patch.stale, heard |-> patch.heard]
      <3> DEFINE a == NoPatch.seen b == NoPatch.put
      <3>1. /\ NoPatch = [on |-> "none", seen |-> a, put |-> b, whole |-> FALSE,
                          stale |-> FALSE, heard |-> TRUE]
            /\ OrgShape(a) /\ OrgShape(b)
        BY NoPatchTyped
      <3> HIDE DEF a, b
      <3> QED
        BY <2>1, <3>1
    <2> QED
      BY <2>2 DEF PatchTyped, PatchSound
  <1> QED
    BY <1>1, <1>2 DEF WorkspaceInv

\* A request that has been read is sound.
LEMMA PatchStarts ==
  ASSUME WorkspaceInv, NEW on \in {"save", "profile"}, NEW put, NEW all \in BOOLEAN,
         NEW heard \in BOOLEAN, Patch(on, put, all, heard), UNCHANGED <<org, role, mine, changes>>,
         OrgShape(put), put.next >= org.next, org.onboarded => put.onboarded,
         on = "save" => put.modules = org.modules
  PROVE  WorkspaceInv'
  <1>1. WorkspaceTyped'
    BY DEF WorkspaceInv, WorkspaceTyped, OrgShape
  <1>2. /\ patch' = [on |-> on, seen |-> org, put |-> put, whole |-> all, stale |-> FALSE,
                     heard |-> heard]
        /\ OrgShape(org) /\ org' = org
    BY DEF Patch, WorkspaceInv, WorkspaceTyped
  <1>3. /\ patch'.on = on /\ patch'.seen = org /\ patch'.put = put /\ patch'.whole = all
        /\ patch'.stale = FALSE /\ patch'.heard = heard
    BY <1>2
  <1>5. PatchTyped'
    BY <1>2, PatchMade
  <1>6. PatchSound'
    BY <1>2, <1>3 DEF PatchSound
  <1> QED
    BY <1>1, <1>5, <1>6 DEF WorkspaceInv

\* Once onboarded it is one.
LEMMA OnboardedStays ==
  ASSUME OrgShape(org)
  PROVE  /\ Onboarded.next = org.next /\ Onboarded.modules = org.modules
         /\ Onboarded.onboarded = TRUE /\ OrgShape(Onboarded) /\ org.next \in Nat
  <1>1. Onboarded = [type |-> org.type, modules |-> org.modules, onboarded |-> TRUE,
                     next |-> org.next]
    BY DEF Onboarded, OrgOf
  <1>2. /\ Onboarded.type = org.type /\ Onboarded.modules = org.modules
        /\ Onboarded.onboarded = TRUE /\ Onboarded.next = org.next
    BY <1>1
  <1> QED
    BY <1>1, <1>2 DEF OrgShape

\* A form begins a request.
LEMMA FormsAsk ==
  ASSUME WorkspaceInv
  PROVE  /\ \A t \in FormTypes, edited \in BOOLEAN :
              handleSaveOrgSettings(t, edited) => WorkspaceInv'
         /\ \A t \in FormTypes : goTo(t) => WorkspaceInv'
         /\ \A t \in FormTypes, ms \in FormModules, edited \in BOOLEAN :
              saveBusinessProfile(t, ms, edited) => WorkspaceInv'
         /\ handleSkip => WorkspaceInv'
  <1>1. OrgShape(org) /\ mine.next \in Nat /\ FormTypes \subseteq Types
    BY WorkspaceAssumption DEF WorkspaceInv, WorkspaceTyped, Types
  <1>2. ASSUME NEW t \in FormTypes, NEW edited \in BOOLEAN, handleSaveOrgSettings(t, edited)
        PROVE  WorkspaceInv'
    <2> DEFINE put == OrgOf(t, org.modules, org.onboarded, mine.next)
    <2>1. /\ put.next = mine.next /\ put.modules = org.modules /\ put.onboarded = org.onboarded
          /\ OrgShape(put)
      BY <1>1, OrgMade, OrgHas
    <2>2. /\ Patch("save", put, edited \/ mine.next # org.next, TRUE)
          /\ UNCHANGED <<org, role, mine, changes>> /\ mine.next >= org.next
      BY <1>2 DEF handleSaveOrgSettings, MayAsk, CounterOk
    <2>3. (edited \/ mine.next # org.next) \in BOOLEAN
      OBVIOUS
    <2> HIDE DEF put
    <2> QED
      BY <1>1, <2>1, <2>2, <2>3, PatchStarts
  <1>3. ASSUME NEW t \in FormTypes, goTo(t)
        PROVE  WorkspaceInv'
    <2> DEFINE put == OrgOf(t, org.modules, org.onboarded, org.next)
    <2>1. /\ put.next = org.next /\ put.modules = org.modules /\ put.onboarded = org.onboarded
          /\ OrgShape(put) /\ org.next \in Nat
      BY <1>1, OrgMade, OrgHas
    <2>2. Patch("save", put, FALSE, TRUE) /\ UNCHANGED <<org, role, mine, changes>>
      BY <1>3 DEF goTo, MayAsk
    <2>3. put.next >= org.next
      BY <2>1
    <2> HIDE DEF put
    <2> QED
      BY <1>1, <2>1, <2>2, <2>3, PatchStarts
  <1>4. ASSUME NEW t \in FormTypes, NEW ms \in FormModules, NEW edited \in BOOLEAN,
               saveBusinessProfile(t, ms, edited)
        PROVE  WorkspaceInv'
    <2> DEFINE put == OrgOf(t, ms, org.onboarded, org.next)
    <2>1. /\ put.next = org.next /\ put.onboarded = org.onboarded
          /\ OrgShape(put) /\ org.next \in Nat
      BY <1>1, OrgMade, OrgHas
    <2>2. Patch("profile", put, edited, TRUE) /\ UNCHANGED <<org, role, mine, changes>>
      BY <1>4 DEF saveBusinessProfile, MayAsk
    <2>3. put.next >= org.next
      BY <2>1
    <2> HIDE DEF put
    <2> QED
      BY <1>1, <2>1, <2>2, <2>3, PatchStarts
  <1>5. CASE handleSkip
    <2> DEFINE put == Onboarded
    <2>1. /\ put.next = org.next /\ put.modules = org.modules /\ put.onboarded = TRUE
          /\ OrgShape(put) /\ org.next \in Nat
      BY <1>1, OnboardedStays
    <2>2. Patch("save", put, FALSE, TRUE) /\ UNCHANGED <<org, role, mine, changes>>
      BY <1>5 DEF handleSkip, MayAsk
    <2>3. put.next >= org.next
      BY <2>1
    <2> HIDE DEF put
    <2> QED
      BY <1>1, <2>1, <2>2, <2>3, PatchStarts
  <1> QED
    BY <1>2, <1>3, <1>4, <1>5

\* The second request of an onboarding.
LEMMA FinishAsks ==
  ASSUME WorkspaceInv, handleFinish
  PROVE  WorkspaceInv'
  <1>1. OrgShape(org) /\ UNCHANGED <<org, role, mine, changes>> /\ patch.heard \in BOOLEAN
    BY DEF WorkspaceInv, WorkspaceTyped, PatchTyped, handleFinish
  <1>2. CASE patch' = NoPatch
    <2>1. WorkspaceTyped'
      BY <1>1 DEF WorkspaceInv, WorkspaceTyped, OrgShape
    <2>2. PatchTyped' /\ PatchSound'
      BY <1>2, NoPatchTyped, PatchMade
    <2> QED
      BY <2>1, <2>2 DEF WorkspaceInv
  <1>3. CASE Patch("save", Onboarded, FALSE,
                   patch.on = "between" /\ patch.heard)
    <2> DEFINE put == Onboarded
               heard == patch.on = "between" /\ patch.heard
    <2>1. /\ put.next = org.next /\ put.modules = org.modules /\ put.onboarded = TRUE
          /\ OrgShape(put) /\ org.next \in Nat
      BY <1>1, OnboardedStays
    <2>2. Patch("save", put, FALSE, heard) /\ heard \in BOOLEAN
      BY <1>3
    <2>3. put.next >= org.next
      BY <2>1
    <2> HIDE DEF put, heard
    <2> QED
      BY <1>1, <2>1, <2>2, <2>3, PatchStarts
  <1> QED
    BY <1>2, <1>3 DEF handleFinish

\* A save writes an organization, onboarded if it was, with the counter no lower than what was
\* read or is stored, and with other modules only over those that were read.
LEMMA SavesSoundly ==
  ASSUME WorkspaceInv, patch.on \in {"save", "profile"},
         org' = IF Overtaken THEN org ELSE Patched
  PROVE  /\ OrgShape(org')
         /\ org'.next < org.next => patch.whole /\ org'.next >= patch.seen.next
         /\ org'.modules # org.modules =>
              patch.on = "profile" /\ org.modules = patch.seen.modules
         /\ org.onboarded => org'.onboarded
  <1> DEFINE was == patch.seen put == patch.put
  <1>1. OrgShape(org) /\ OrgShape(was) /\ OrgShape(put) /\ patch.whole \in BOOLEAN
        /\ patch.stale \in BOOLEAN /\ patch.on \in {"none", "save", "profile", "between"}
    BY DEF WorkspaceInv, WorkspaceTyped, PatchTyped
  <1>2. /\ put.next >= was.next /\ (was.onboarded => put.onboarded)
        /\ patch.on = "save" => put.modules = was.modules
        /\ ~patch.stale => org.modules = was.modules
    BY DEF WorkspaceInv, PatchSound
  <1>3. /\ org.type \in Types /\ put.type \in Types
        /\ org.next \in Nat /\ put.next \in Nat /\ was.next \in Nat
        /\ org.onboarded \in BOOLEAN /\ put.onboarded \in BOOLEAN /\ was.onboarded \in BOOLEAN
    BY <1>1 DEF OrgShape
  <1>4. CASE org' = org
    BY <1>1, <1>3, <1>4
  <1>5. CASE ~Overtaken
    <2>1. /\ org' = Patched
          /\ put.modules # was.modules => ~patch.stale
      BY <1>5 DEF Overtaken
    <2> HIDE DEF was, put
    <2>2. org' = OrgOf(IF put.type # was.type THEN put.type ELSE org.type,
                       IF put.modules # was.modules THEN put.modules ELSE org.modules,
                       IF put.onboarded # was.onboarded THEN put.onboarded ELSE org.onboarded,
                       IF patch.whole THEN put.next ELSE org.next)
      BY <2>1 DEF Patched, was, put
    <2>3. /\ org'.type = IF put.type # was.type THEN put.type ELSE org.type
          /\ org'.modules = IF put.modules # was.modules THEN put.modules ELSE org.modules
          /\ org'.onboarded = IF put.onboarded # was.onboarded THEN put.onboarded
                              ELSE org.onboarded
          /\ org'.next = IF patch.whole THEN put.next ELSE org.next
      BY <2>2, OrgMade
    <2>5. org'.type \in Types /\ org'.onboarded \in BOOLEAN /\ org'.next \in Nat
      BY <1>3, <2>3
    <2>6. OrgShape(org')
      BY <2>2, <2>3, <2>5, OrgMade
    <2>7. org'.next < org.next => patch.whole /\ org'.next >= was.next
      BY <1>1, <1>2, <1>3, <2>3
    <2>8. org'.modules # org.modules => patch.on = "profile" /\ org.modules = was.modules
      BY <1>1, <1>2, <2>1, <2>3
    <2>9. org.onboarded => org'.onboarded
      BY <1>2, <1>3, <2>3
    <2> QED
      BY <2>6, <2>7, <2>8, <2>9 DEF was
  <1> QED
    BY <1>4, <1>5

\* A save leaves all as it should be.
LEMMA SavesStay ==
  ASSUME WorkspaceInv, NEW heard \in BOOLEAN, SavePatch(heard)
  PROVE  WorkspaceInv'
  <1> DEFINE told == heard /\ ~Overtaken /\ patch.heard
  <1>1. /\ patch.on \in {"save", "profile"} /\ org' = IF Overtaken THEN org ELSE Patched
        /\ UNCHANGED <<role, account, changes>>
    BY DEF SavePatch
  <1>2. OrgShape(org')
    BY <1>1, SavesSoundly
  <1>3. OrgShape(patch.put) /\ told \in BOOLEAN
    BY DEF WorkspaceInv, PatchTyped
  <1>4. mine' = Copy(patch.put, mine.role) \/ mine' = mine
    BY DEF SavePatch
  <1>5. WorkspaceTyped'
    <2>1. CASE mine' = mine
      BY <1>1, <1>2, <2>1 DEF WorkspaceInv, WorkspaceTyped, OrgShape
    <2>2. CASE mine' = Copy(patch.put, mine.role)
      BY <1>1, <1>2, <1>3, <2>2, CopyStays DEF WorkspaceInv, WorkspaceTyped, OrgShape
    <2> QED
      BY <1>4, <2>1, <2>2
  <1>6. patch' = NoPatch \/ patch' = [NoPatch EXCEPT !.on = "between", !.heard = told]
    BY DEF SavePatch
  <1>7. PatchTyped' /\ PatchSound'
    <2>1. CASE patch' = NoPatch
      BY <2>1, NoPatchTyped, PatchMade
    <2>2. CASE patch' = [NoPatch EXCEPT !.on = "between", !.heard = told]
      <3>1. patch' = [on |-> "between", seen |-> NoPatch.seen, put |-> NoPatch.put,
                      whole |-> FALSE, stale |-> FALSE, heard |-> told]
        <4> DEFINE a == NoPatch.seen b == NoPatch.put
        <4>1. NoPatch = [on |-> "none", seen |-> a, put |-> b, whole |-> FALSE,
                         stale |-> FALSE, heard |-> TRUE]
          BY NoPatchTyped
        <4> HIDE DEF a, b
        <4>2. patch' = [on |-> "between", seen |-> a, put |-> b, whole |-> FALSE,
                        stale |-> FALSE, heard |-> told]
          BY <2>2, <4>1
        <4> QED
          BY <4>2 DEF a, b
      <3> QED
        BY <1>3, <3>1, NoPatchTyped, PatchMade
    <2> QED
      BY <1>6, <2>1, <2>2
  <1> QED
    BY <1>5, <1>7 DEF WorkspaceInv

\* Every step keeps organization, copy and request what they are.
LEMMA WorkspaceSteps == WorkspaceInv /\ [WorkspaceNext]_workspaceVars => WorkspaceInv'
  <1> SUFFICES ASSUME WorkspaceInv, [WorkspaceNext]_workspaceVars PROVE WorkspaceInv'
    OBVIOUS
  <1> USE DEF WorkspaceInv
  <1>0. OrgShape(org)
    BY DEF WorkspaceTyped
  <1>1. CASE refreshProfile
    <2>1. WorkspaceTyped'
      BY <1>0, <1>1, CopyStays DEF refreshProfile, WorkspaceTyped, OrgShape
    <2> QED
      BY <1>1, <2>1 DEF refreshProfile, PatchTyped, PatchSound, OrgShape
  <1>2. ASSUME NEW t \in FormTypes, NEW ms \in FormModules, OthersConfigure(t, ms)
        PROVE  WorkspaceInv'
    <2>1. OrgShape(org') /\ org'.modules = ms
      BY <1>0, <1>2, OrgMade, OrgHas, WorkspaceAssumption DEF OthersConfigure, Types
    <2>2. WorkspaceTyped'
      BY <1>2, <2>1 DEF OthersConfigure, ByOthers, WorkspaceTyped, OrgShape
    <2>3. CASE patch' = patch /\ ~(patch.on \in {"save", "profile"} /\ ms # org.modules)
      BY <2>1, <2>2, <2>3 DEF PatchTyped, PatchSound, OrgShape
    <2>4. CASE patch' = [patch EXCEPT !.stale = TRUE]
      <3>1. PICK a, b, c, d, e, f : patch = [on |-> a, seen |-> b, put |-> c, whole |-> d,
                                             stale |-> e, heard |-> f]
        BY DEF PatchTyped
      <3>2. patch' = [on |-> a, seen |-> b, put |-> c, whole |-> d, stale |-> TRUE, heard |-> f]
        BY <2>4, <3>1
      <3>3. /\ patch'.on = patch.on /\ patch'.seen = patch.seen /\ patch'.put = patch.put
            /\ patch'.whole = patch.whole /\ patch'.stale = TRUE /\ patch'.heard = patch.heard
            /\ patch' = [on |-> patch'.on, seen |-> patch'.seen, put |-> patch'.put,
                         whole |-> patch'.whole, stale |-> patch'.stale,
                         heard |-> patch'.heard]
        BY <3>1, <3>2
      <3>4. PatchTyped' /\ PatchSound'
        BY <3>3 DEF PatchTyped, PatchSound, OrgShape
      <3> QED
        BY <2>2, <3>4
    <2> QED
      BY <1>2, <2>3, <2>4 DEF OthersConfigure
  <1>3. ASSUME NEW r \in Everyone, OthersChangeRole(r)
        PROVE  WorkspaceInv'
    BY <1>3 DEF OthersChangeRole, ByOthers, WorkspaceTyped, PatchTyped, PatchSound, OrgShape
  <1>4. CASE OthersInvoice
    <2>1. OrgShape(org') /\ org'.modules = org.modules
      BY <1>0, <1>4, OrgMade, OrgHas DEF OthersInvoice
    <2> QED
      BY <1>4, <2>1 DEF OthersInvoice, ByOthers, WorkspaceTyped, PatchTyped, PatchSound, OrgShape
  <1>5. CASE UNCHANGED workspaceVars
    BY <1>5 DEF workspaceVars, WorkspaceTyped, PatchTyped, PatchSound, OrgShape
  <1> QED
    BY <1>1, <1>2, <1>3, <1>4, <1>5, FormsAsk, FinishAsks, SavesStay DEF WorkspaceNext

\* Only a save lowers the counter or brings modules of the forms, and none sends an organization
\* back.
LEMMA SavesKeepStructure ==
  ASSUME WorkspaceInv, [WorkspaceNext]_workspaceVars
  PROVE  /\ org'.next < org.next =>
              patch.on \in {"save", "profile"} /\ patch.whole /\ org'.next >= patch.seen.next
         /\ org'.modules # org.modules /\ changes' = changes =>
              patch.on = "profile" /\ org.modules = patch.seen.modules
         /\ org.onboarded => org'.onboarded
  <1>1. OrgShape(org) /\ changes \in Nat /\ org.next \in Nat
    BY DEF WorkspaceInv, WorkspaceTyped, OrgShape
  <1>2. CASE org' = org
    BY <1>1, <1>2
  <1>3. ASSUME NEW t \in FormTypes, NEW ms \in FormModules, OthersConfigure(t, ms)
        PROVE  org'.next = org.next /\ changes' # changes /\ org'.onboarded = org.onboarded
    <2>1. org'.next = org.next /\ org'.onboarded = org.onboarded
      BY <1>3, OrgMade DEF OthersConfigure
    <2> QED
      BY <1>1, <1>3, <2>1 DEF OthersConfigure, ByOthers
  <1>4. ASSUME OthersInvoice
        PROVE  org'.next >= org.next /\ org'.modules = org.modules
               /\ org'.onboarded = org.onboarded
    <2>1. /\ org'.next = org.next + 1 /\ org'.modules = org.modules
          /\ org'.onboarded = org.onboarded
      BY <1>4, OrgMade DEF OthersInvoice
    <2> QED
      BY <1>1, <2>1
  <1>5. ASSUME NEW heard \in BOOLEAN, SavePatch(heard)
        PROVE  /\ org'.next < org.next =>
                    patch.on \in {"save", "profile"} /\ patch.whole
                      /\ org'.next >= patch.seen.next
               /\ org'.modules # org.modules =>
                    patch.on = "profile" /\ org.modules = patch.seen.modules
               /\ org.onboarded => org'.onboarded
    BY <1>5, SavesSoundly DEF SavePatch
  <1>6. org' = org \/ OthersInvoice \/ (\E heard \in BOOLEAN : SavePatch(heard))
          \/ \E t \in FormTypes, ms \in FormModules : OthersConfigure(t, ms)
    BY DEF WorkspaceNext, workspaceVars, refreshProfile, OthersChangeRole, handleSaveOrgSettings,
           goTo, saveBusinessProfile, handleFinish, handleSkip, MayAsk
  <1>7. \A a, b \in Nat : b >= a => ~(b < a)
    OBVIOUS
  <1>8. OthersInvoice => org'.next \in Nat
    BY WorkspaceSteps DEF WorkspaceInv, WorkspaceTyped, OrgShape
  <1> QED
    BY <1>1, <1>2, <1>3, <1>4, <1>5, <1>6, <1>7, <1>8

\* However others change the organization meanwhile and however old the copy is: the invoice
\* counter moves back only over numbers taken between what a save read and what it wrote, the
\* forms change modules at the end of an onboarding only and over no others than they had read,
\* and no organization goes back to its onboarding.
THEOREM StructureStaysKept == WorkspaceSpec => StructureIsKept
  BY WorkspaceStarts, WorkspaceSteps, SavesKeepStructure, PTL DEF WorkspaceSpec, StructureIsKept

\* The entries of the menu that a page of the router answers to.
Offerings == {"dashboard", "pos", "held_bills", "products", "inventory", "purchases", "suppliers",
              "invoices", "payments", "customers", "credit_notes", "approvals", "returns", "shifts",
              "expenses", "reports", "plans", "subscriptions", "recurring", "projects",
              "timesheets", "retainers", "team", "settings", "backup", "audit", "dev"}

\* No menu offers anything else.
LEMMA EntriesAreOfferings == \A t \in Types : groups[t] \subseteq Offerings
  BY DEF groups, adminGroup, Types, Offerings

\* Menu and router agree on the module of an entry, and on who may see it.
LEMMA MenuAndRouterAgree ==
  ASSUME NEW p \in Offerings
  PROVE  /\ p \in DOMAIN ROUTE_MODULES =>
              p \in DOMAIN itemModules /\ ROUTE_MODULES[p] = itemModules[p]
         /\ p \in DOMAIN routeRoles =>
              p \in DOMAIN itemRoles /\ itemRoles[p] \subseteq routeRoles[p]
  BY DEF Offerings, ROUTE_MODULES, itemModules, routeRoles, itemRoles

\* What the menu offers opens, or the onboarding does.
LEMMA OfferedOpens ==
  ASSUME WorkspaceInv, NEW p \in visibleGroups(mine)
  PROVE  RouterShell(p, mine) \in {p, "onboarding"}
  <1>1. p \in Offerings
    BY EntriesAreOfferings DEF visibleGroups, WorkspaceInv, WorkspaceTyped
  <1>2. p \in DOMAIN ROUTE_MODULES => ROUTE_MODULES[p] \in mine.modules
    BY <1>1, MenuAndRouterAgree DEF visibleGroups
  <1>3. p \in DOMAIN routeRoles => mine.role \in routeRoles[p]
    BY <1>1, MenuAndRouterAgree DEF visibleGroups
  <1> QED
    BY <1>2, <1>3 DEF RouterShell
-----------------------------------------------------------------------------
(* Workspace: what the pages ask for *)

\* Requests for which no module is needed, and those for which one is.
FreeReads ==
  {<<"reports", "list">>, <<"invoices", "list">>, <<"payments", "list">>, <<"customers", "list">>,
   <<"creditNotes", "list">>, <<"approvals", "list">>, <<"products", "list">>, <<"users", "list">>,
   <<"dynamic", "list">>}
ModuleReads ==
  {<<"expenses", "list">>, <<"pos", "list">>, <<"inventory", "list">>, <<"purchases", "list">>,
   <<"suppliers", "list">>, <<"returns", "list">>, <<"shifts", "current">>, <<"saas", "list">>,
   <<"recurring", "list">>, <<"agency", "list">>}
FreeWrites ==
  {<<"payments", "create">>, <<"payments", "refund">>, <<"payments", "test">>,
   <<"customers", "create">>, <<"customers", "pay">>, <<"creditNotes", "create">>,
   <<"approvals", "decide">>, <<"products", "create">>, <<"users", "create">>,
   <<"users", "change">>, <<"dynamic", "create">>, <<"dynamic", "drop">>,
   <<"organizations", "settings">>, <<"system", "backup">>, <<"system", "restore">>}
ModuleWrites ==
  {<<"expenses", "create">>, <<"pos", "sell">>, <<"inventory", "adjust">>,
   <<"purchases", "create">>, <<"suppliers", "create">>, <<"returns", "create">>,
   <<"shifts", "open">>, <<"saas", "create">>, <<"recurring", "create">>,
   <<"recurring", "run">>, <<"agency", "create">>}

askedModule ==
  [expenses |-> "expenses", pos |-> "pos", inventory |-> "inventory", purchases |-> "purchases",
   suppliers |-> "suppliers", returns |-> "returns", shifts |-> "shifts", saas |-> "subscriptions",
   recurring |-> "subscriptions", agency |-> "projects"]

Route(q) == routers[q[1]][q[2]]

\* Anybody is answered what needs no module.
LEMMA FreeReadsAre ==
  ASSUME NEW q \in FreeReads
  PROVE  Route(q) = Open(Everyone) /\ q[2] \in Reads
  <1>1. /\ q[2] = "list"
        /\ q[1] \in {"reports", "invoices", "payments", "customers", "creditNotes", "approvals",
                     "products", "users", "dynamic"}
    BY DEF FreeReads
  <1>2. \A x \in {"reports", "invoices", "payments", "customers", "creditNotes", "approvals",
                  "products", "users", "dynamic"} : routers[x]["list"] = Open(Everyone)
    BY DEF routers, reportRoutes, invoiceRoutes, paymentRoutes, customerRoutes, creditNoteRoutes,
           approvalRoutes, productRoutes, userRoutes, dynamicRoutes
  <1> QED
    BY <1>1, <1>2 DEF Route, Reads

\* Anybody is answered what needs a module, where it is on.
LEMMA ModuleReadsAre ==
  ASSUME NEW q \in ModuleReads
  PROVE  Route(q) = Needs(askedModule[q[1]], Everyone) /\ q[2] \in Reads
  <1>1. \/ q[1] = "shifts" /\ q[2] = "current"
        \/ /\ q[2] = "list"
           /\ q[1] \in {"expenses", "pos", "inventory", "purchases", "suppliers", "returns", "saas",
                        "recurring", "agency"}
    BY DEF ModuleReads
  <1>2. \A x \in {"expenses", "pos", "inventory", "purchases", "suppliers", "returns", "saas",
                  "recurring", "agency"} : routers[x]["list"] = Needs(askedModule[x], Everyone)
    BY DEF routers, askedModule, expenseRoutes, posRoutes, inventoryRoutes, purchaseRoutes,
           supplierRoutes, returnRoutes, saasRoutes, recurringRoutes, agencyRoutes
  <1>3. routers["shifts"]["current"] = Needs(askedModule["shifts"], Everyone)
    BY DEF routers, shiftRoutes, askedModule
  <1> QED
    BY <1>1, <1>2, <1>3 DEF Route, Reads

\* No button is kept from an administrator whose module is on.
LEMMA FreeWritesAre ==
  ASSUME NEW q \in FreeWrites
  PROVE  Route(q).module = "" /\ "admin" \in Route(q).roles
  <1> DEFINE Is(x, y) == routers[x][y].module = "" /\ "admin" \in routers[x][y].roles
  <1>1. /\ Is("payments", "create") /\ Is("payments", "refund") /\ Is("payments", "test")
        /\ Is("customers", "create") /\ Is("customers", "pay") /\ Is("creditNotes", "create")
        /\ Is("approvals", "decide") /\ Is("products", "create") /\ Is("users", "create")
    BY DEF routers, paymentRoutes, customerRoutes, creditNoteRoutes, approvalRoutes, productRoutes,
           userRoutes, Open, Needs, Everyone, Clerks, Managers, Admins
  <1>2. /\ Is("users", "change") /\ Is("dynamic", "create") /\ Is("dynamic", "drop")
        /\ Is("organizations", "settings") /\ Is("system", "backup") /\ Is("system", "restore")
    BY DEF routers, userRoutes, dynamicRoutes, organizationRoutes, systemRoutes, Open, Needs,
           Managers, Admins
  <1>3. \E x, y : q = <<x, y>> /\ Is(x, y)
    <2> HIDE DEF Is
    <2> QED
      BY <1>1, <1>2, Zenon DEF FreeWrites
  <1>4. PICK x, y : q = <<x, y>> /\ Is(x, y)
    BY <1>3
  <1>5. q[1] = x /\ q[2] = y
    BY <1>4
  <1> QED
    BY <1>4, <1>5 DEF Route

\* Nor is a button of a module that is on.
LEMMA ModuleWritesAre ==
  ASSUME NEW q \in ModuleWrites
  PROVE  Route(q).module = askedModule[q[1]] /\ "admin" \in Route(q).roles
  <1> DEFINE Is(x, y) == routers[x][y].module = askedModule[x] /\ "admin" \in routers[x][y].roles
  <1>1. /\ Is("expenses", "create") /\ Is("pos", "sell") /\ Is("inventory", "adjust")
        /\ Is("purchases", "create") /\ Is("suppliers", "create") /\ Is("returns", "create")
    BY DEF routers, askedModule, expenseRoutes, posRoutes, inventoryRoutes, purchaseRoutes,
           supplierRoutes, returnRoutes, Needs, Everyone, Clerks, Sellers
  <1>2. /\ Is("shifts", "open") /\ Is("saas", "create") /\ Is("recurring", "create")
        /\ Is("recurring", "run") /\ Is("agency", "create")
    BY DEF routers, askedModule, shiftRoutes, saasRoutes, recurringRoutes, agencyRoutes, Needs,
           Everyone, Clerks, Managers
  <1>3. \E x, y : q = <<x, y>> /\ Is(x, y)
    <2> HIDE DEF Is
    <2> QED
      BY <1>1, <1>2, Zenon DEF ModuleWrites
  <1>4. PICK x, y : q = <<x, y>> /\ Is(x, y)
    BY <1>3
  <1>5. q[1] = x /\ q[2] = y
    BY <1>4
  <1> QED
    BY <1>4, <1>5 DEF Route

\* The modules a page needs to be on: its own, and one it leans on.
PageModules(p) ==
  {itemModules[x] : x \in {p} \cap DOMAIN itemModules} \cup {Leans[x] : x \in {p} \cap DOMAIN Leans}

\* A page asks for what needs no module or one of its own.
AsksItsOwn(p, page) ==
  /\ \A q \in page.loads :
       q \in FreeReads \/ (q \in ModuleReads /\ askedModule[q[1]] \in PageModules(p))
  /\ \A q \in page.writes :
       q \in FreeWrites \/ (q \in ModuleWrites /\ askedModule[q[1]] \in PageModules(p))

\* Each page does, but for the figures of a report and the log.
LEMMA PagesAskTheirOwn ==
  ASSUME NEW t \in Types, NEW p \in Offerings \ {"reports", "audit"}
  PROVE  AsksItsOwn(p, pages(t)[p])
  <1> USE DEF AsksItsOwn, Asks, FreeReads, ModuleReads, FreeWrites, ModuleWrites, askedModule,
              PageModules, itemModules, Leans
  <1>1. AsksItsOwn("dashboard", DashboardPage(t))
    <2>1. DashboardPage(t) = Asks({<<"reports", "list">>}, {})
      BY DEF Types, DashboardPage, RetailDashboard, SaaSDashboard, AgencyDashboard, GeneralDashboard
    <2> QED
      BY <2>1
  <1>2. AsksItsOwn("invoices", InvoicesListPage)
    BY DEF InvoicesListPage
  <1>3. AsksItsOwn("payments", PaymentsPage)
    BY DEF PaymentsPage
  <1>4. AsksItsOwn("customers", CustomersPage)
    BY DEF CustomersPage
  <1>5. AsksItsOwn("credit_notes", CreditNotesPage)
    BY DEF CreditNotesPage
  <1>6. AsksItsOwn("approvals", ApprovalsPage)
    BY DEF ApprovalsPage
  <1>7. AsksItsOwn("products", ProductsPage)
    BY DEF ProductsPage
  <1>8. AsksItsOwn("expenses", ExpensesPage)
    BY DEF ExpensesPage
  <1>9. AsksItsOwn("pos", PointOfSalePage)
    BY DEF PointOfSalePage
  <1>10. AsksItsOwn("held_bills", HeldBillsPage)
    BY DEF HeldBillsPage
  <1>11. AsksItsOwn("inventory", InventoryPage)
    BY DEF InventoryPage
  <1>12. AsksItsOwn("purchases", PurchasesPage)
    BY DEF PurchasesPage
  <1>13. AsksItsOwn("suppliers", SuppliersPage)
    BY DEF SuppliersPage
  <1>14. AsksItsOwn("returns", ReturnsPage)
    BY DEF ReturnsPage
  <1>15. AsksItsOwn("shifts", ShiftsPage)
    BY DEF ShiftsPage
  <1>16. AsksItsOwn("plans", SaaSManagementPage)
    BY DEF SaaSManagementPage
  <1>17. AsksItsOwn("subscriptions", SaaSManagementPage)
    BY DEF SaaSManagementPage
  <1>18. AsksItsOwn("recurring", RecurringPage)
    BY DEF RecurringPage
  <1>19. AsksItsOwn("projects", AgencyManagementPage)
    BY DEF AgencyManagementPage
  <1>20. AsksItsOwn("timesheets", AgencyManagementPage)
    BY DEF AgencyManagementPage
  <1>21. AsksItsOwn("retainers", AgencyManagementPage)
    BY DEF AgencyManagementPage
  <1>22. AsksItsOwn("team", TeamPage)
    BY DEF TeamPage
  <1>23. AsksItsOwn("settings", SettingsPage)
    BY DEF SettingsPage
  <1>24. AsksItsOwn("backup", BackupPage)
    BY DEF BackupPage
  <1>25. AsksItsOwn("dev", BillingTestPage)
    BY DEF BillingTestPage
  <1> HIDE DEF AsksItsOwn
  <1>26. /\ pages(t)["dashboard"] = DashboardPage(t)
        /\ pages(t)["invoices"] = InvoicesListPage
        /\ pages(t)["payments"] = PaymentsPage
        /\ pages(t)["customers"] = CustomersPage
        /\ pages(t)["credit_notes"] = CreditNotesPage
        /\ pages(t)["approvals"] = ApprovalsPage
        /\ pages(t)["products"] = ProductsPage
        /\ pages(t)["expenses"] = ExpensesPage
        /\ pages(t)["pos"] = PointOfSalePage
        /\ pages(t)["held_bills"] = HeldBillsPage
        /\ pages(t)["inventory"] = InventoryPage
        /\ pages(t)["purchases"] = PurchasesPage
        /\ pages(t)["suppliers"] = SuppliersPage
        /\ pages(t)["returns"] = ReturnsPage
        /\ pages(t)["shifts"] = ShiftsPage
        /\ pages(t)["plans"] = SaaSManagementPage
        /\ pages(t)["subscriptions"] = SaaSManagementPage
        /\ pages(t)["recurring"] = RecurringPage
        /\ pages(t)["projects"] = AgencyManagementPage
        /\ pages(t)["timesheets"] = AgencyManagementPage
        /\ pages(t)["retainers"] = AgencyManagementPage
        /\ pages(t)["team"] = TeamPage
        /\ pages(t)["settings"] = SettingsPage
        /\ pages(t)["backup"] = BackupPage
        /\ pages(t)["dev"] = BillingTestPage
    BY DEF pages
  <1> QED
    BY <1>1, <1>2, <1>3, <1>4, <1>5, <1>6, <1>7, <1>8, <1>9, <1>10, <1>11, <1>12, <1>13, <1>14,
    <1>15, <1>16, <1>17, <1>18, <1>19, <1>20, <1>21, <1>22, <1>23, <1>24, <1>25, <1>26 DEF
    Offerings

\* What a visible page asks for of its own is served, its buttons to an administrator.
LEMMA OwnIsServed ==
  ASSUME NEW p \in visibleGroups(mine), NEW page, AsksItsOwn(p, page),
         WorkspaceInv, mine = Copy(org, role), p \in DOMAIN Leans => Leans[p] \in org.modules
  PROVE  /\ \A q \in page.loads : Serves(q, org, role)
         /\ role = "admin" => \A q \in page.writes : Serves(q, org, role)
  <1>1. PageModules(p) \subseteq org.modules
    <2>1. p \in DOMAIN itemModules => itemModules[p] \in org.modules
      BY DEF visibleGroups, Copy
    <2> QED
      BY <2>1 DEF PageModules
  <1> DEFINE AnyModule(g) == g.module = "" /\ g.roles = Everyone
  <1>0. AnyModule(Open(Everyone))
    BY DEF Open, Needs
  <1>2. ASSUME NEW q \in FreeReads
        PROVE  Serves(q, org, role)
    <2>1. Route(q) = Open(Everyone) /\ q[2] \in Reads
      BY FreeReadsAre
    <2>2. AnyModule(Route(q))
      BY <1>0, <2>1
    <2> QED
      BY <2>1, <2>2 DEF Serves, Route, ModuleIsOn, RoleServes, WorkspaceInv,
             WorkspaceTyped
  <1>3. ASSUME NEW q \in ModuleReads, askedModule[q[1]] \in PageModules(p)
        PROVE  Serves(q, org, role)
    <2>1. /\ Route(q).module = askedModule[q[1]] /\ Route(q).roles = Everyone
          /\ q[2] \in Reads
      BY ModuleReadsAre DEF Needs
    <2> QED
      BY <1>1, <1>3, <2>1 DEF Serves, Route, ModuleIsOn, RoleServes, WorkspaceInv,
             WorkspaceTyped
  <1>4. ASSUME NEW q \in FreeWrites, role = "admin"
        PROVE  Serves(q, org, role)
    BY <1>4, FreeWritesAre DEF Serves, Route, ModuleIsOn, RoleServes
  <1>5. ASSUME NEW q \in ModuleWrites, askedModule[q[1]] \in PageModules(p), role = "admin"
        PROVE  Serves(q, org, role)
    BY <1>1, <1>5, ModuleWritesAre DEF Serves, Route, ModuleIsOn, RoleServes
  <1> QED
    BY <1>2, <1>3, <1>4, <1>5 DEF AsksItsOwn

\* A report's figures are for clerks, and the log is for managers: who opens the one is no
\* salesman and no viewer, and who sees the other is an administrator.
LEMMA ReportsAndLogServed ==
  ASSUME NEW t, NEW p \in visibleGroups(mine), WorkspaceInv, mine = Copy(org, role)
  PROVE  /\ p = "reports" => /\ pages(t)[p].writes = {}
                             /\ role \notin {"sales", "viewer"} =>
                                  \A q \in pages(t)[p].loads : Serves(q, org, role)
         /\ p = "audit" => /\ pages(t)[p].writes = {}
                           /\ \A q \in pages(t)[p].loads : Serves(q, org, role)
  <1> DEFINE For(x, y, rs) == routers[x][y].module = "" /\ routers[x][y].roles = rs
  <1>1. /\ For("reports", "list", Everyone) /\ For("reports", "gst", Clerks)
        /\ For("reports", "profit", Clerks) /\ For("audit", "list", Managers)
    BY DEF routers, reportRoutes, auditRoutes, Open, Needs
  <1>2. p = "audit" => role = "admin"
    BY DEF visibleGroups, itemRoles, Admins, Copy
  <1>3. role \notin {"sales", "viewer"} => role \in Clerks
    BY DEF WorkspaceInv, WorkspaceTyped, Everyone, Clerks
  <1>4. /\ role \in Everyone => Serves(<<"reports", "list">>, org, role)
        /\ role \in Clerks => /\ Serves(<<"reports", "gst">>, org, role)
                               /\ Serves(<<"reports", "profit">>, org, role)
        /\ role \in Managers => Serves(<<"audit", "list">>, org, role)
    BY <1>1 DEF Serves, ModuleIsOn, RoleServes, Reads
  <1>5. /\ pages(t)["reports"] = ReportsPage /\ pages(t)["audit"] = AuditLogsPage
    BY DEF pages
  <1> HIDE DEF For
  <1> QED
    BY <1>2, <1>3, <1>4, <1>5 DEF ReportsPage, AuditLogsPage, Asks, WorkspaceInv,
       WorkspaceTyped, Managers

\* Whatever the menu offers opens, and while the copy is what the server holds the server
\* answers what the page asks for.
LEMMA OfferedServed ==
  ASSUME WorkspaceInv
  PROVE  OfferedIsServed
  <1> SUFFICES ASSUME NEW p \in visibleGroups(mine)
               PROVE  /\ RouterShell(p, mine) \in {p, "onboarding"}
                      /\ mine = Copy(org, role) /\ (p \in DOMAIN Leans => Leans[p] \in org.modules)
                         => LET asks == pages(mine.type)[p] IN
                            /\ \A q \in asks.loads :
                                 \/ Serves(q, org, role)
                                 \/ p = "reports" /\ role \in {"sales", "viewer"}
                            /\ role = "admin" => \A q \in asks.writes : Serves(q, org, role)
    BY DEF OfferedIsServed
  <1>1. RouterShell(p, mine) \in {p, "onboarding"}
    BY OfferedOpens
  <1>2. p \in Offerings /\ mine.type \in Types
    BY EntriesAreOfferings DEF visibleGroups, WorkspaceInv, WorkspaceTyped
  <1>3. CASE p \in {"reports", "audit"}
    BY <1>1, <1>3, ReportsAndLogServed
  <1>4. CASE p \notin {"reports", "audit"}
    <2>1. AsksItsOwn(p, pages(mine.type)[p])
      BY <1>2, <1>4, PagesAskTheirOwn
    <2> QED
      BY <1>1, <2>1, OwnIsServed
  <1> QED
    BY <1>3, <1>4

\* Menu, router and server agree, whatever modules an organization has left on and however
\* often others changed them: what is offered opens, and what opened is answered.
THEOREM OfferedAlwaysServed == WorkspaceSpec => []OfferedIsServed
  BY WorkspaceStarts, WorkspaceSteps, OfferedServed, PTL DEF WorkspaceSpec
-----------------------------------------------------------------------------
(* Catalog: what one row of a file makes of the products *)

Entry == [kind : Kinds, key : Keys, value : Values, count : Int,
          code : Codes \cup {NoCode, Blank}, active : BOOLEAN]

\* What a record cannot lack.
Held(e) == <<e.value, e.count, e.active>>

\* No two products of a list have one sku.
Apart(s) ==
  \A i, j \in DOMAIN s :
    s[i].kind = "product" /\ s[j].kind = "product" /\ s[i].key = s[j].key => i = j

\* A row that can be read.
Row(r) ==
  /\ r.key \in Keys /\ r.value \in Values /\ r.count \in Nat \cup {NoColumn}
  /\ r.code \in Codes \cup {NoCode}

\* t is s with row r imported at k.
ImportedAt(s, r, t, k) ==
  /\ t \in Seq(Entry) /\ DOMAIN t = DOMAIN s \cup {k}
  /\ k \in 1..(Len(s) + 1) /\ Len(s) <= Len(t)
  /\ \A i \in DOMAIN s : i # k => t[i] = s[i]
  /\ t[k].kind = "product" /\ t[k].key = r.key /\ t[k].value = r.value /\ t[k].active
  /\ r.count # NoColumn => t[k].count = r.count
  /\ r.code # NoCode => t[k].code = r.code
  /\ k \in DOMAIN s => /\ s[k].kind = "product" /\ s[k].key = r.key
                       /\ r.count = NoColumn => t[k].count = s[k].count
                       /\ r.code = NoCode => t[k].code = s[k].code
  /\ k \notin DOMAIN s => /\ \A i \in DOMAIN s : ~(s[i].kind = "product" /\ s[i].key = r.key)
                          /\ r.count = NoColumn => t[k].count = 0
                          /\ r.code = NoCode => t[k].code = NoCode

\* The first of some places of a list is one of them.
LEMMA FirstIsOne ==
  ASSUME NEW S \in SUBSET Nat, S # {}
  PROVE  FirstOf(S) \in S /\ \A i \in S : FirstOf(S) <= i
  <1>1. PICK n \in S : \A m \in S : ~(m < n)
    <2>1. PICK x \in S : \A y \in S : ~(<<y, x>> \in OpToRel(<, Nat))
      BY NatLessThanWellFounded, WFMin
    <2> QED
      BY <2>1 DEF OpToRel
  <1>2. \A m \in S : n <= m
    BY <1>1
  <1> QED
    BY <1>2 DEF FirstOf

\* What holds at first, and of the next one where it holds of one, holds of all up to n.
LEMMA Climbs ==
  ASSUME NEW n \in Nat, NEW S, 0 \in S, \A m \in 0..(n - 1) : m \in S => m + 1 \in S
  PROVE  \A m \in 0..n : m \in S
  <1> DEFINE T == (0..n) \ S
  <1> SUFFICES ASSUME T # {} PROVE FALSE
    OBVIOUS
  <1>1. PICK m \in T : \A l \in T : ~(<<l, m>> \in OpToRel(<, Nat))
    <2>1. T \subseteq Nat
      OBVIOUS
    <2> HIDE DEF T
    <2> QED
      BY <2>1, NatLessThanWellFounded, WFMin
  <1>2. m \in 0..n /\ m \notin S /\ m # 0
    OBVIOUS
  <1>3. m - 1 \in 0..(n - 1) /\ m - 1 \in 0..n /\ m - 1 + 1 = m /\ m - 1 < m
    BY <1>2
  <1>4. m - 1 \in T
    BY <1>2, <1>3
  <1>5. m \in Nat /\ m - 1 \in Nat
    BY <1>2
  <1>6. <<m - 1, m>> \in OpToRel(<, Nat)
    BY <1>3, <1>5 DEF OpToRel
  <1> HIDE DEF T
  <1> QED
    BY <1>1, <1>4, <1>6

\* The columns of the file go over a product that is there.
LEMMA ImportedOverIs ==
  ASSUME NEW p \in Entry, NEW r, Row(r), p.kind = "product", p.key = r.key
  PROVE  /\ ImportedOver(p, r) \in Entry
         /\ ImportedOver(p, r).kind = "product" /\ ImportedOver(p, r).key = r.key
         /\ ImportedOver(p, r).value = r.value /\ ImportedOver(p, r).active
         /\ ImportedOver(p, r).count = IF r.count = NoColumn THEN p.count ELSE r.count
         /\ ImportedOver(p, r).code = IF r.code = NoCode THEN p.code ELSE r.code
  BY DEF ImportedOver, Kept, Row, Entry, NoColumn

\* A row is imported over the product of its sku, or becomes the last product.
LEMMA ImportedIsAt ==
  ASSUME NEW s \in Seq(Entry), NEW r, Row(r)
  PROVE  \E k : ImportedAt(s, r, Imported(s, r), k)
  <1> DEFINE at == Of(s, "product", r.key)
             t == Imported(s, r)
  <1>1. DOMAIN s = 1..Len(s) /\ Len(s) \in Nat /\ r.value \in Values
    BY DEF Row
  <1>2. CASE at # {}
    <2> DEFINE k == FirstOf(at)
    <2>1. at \in SUBSET Nat /\ at \subseteq DOMAIN s
      BY <1>1 DEF Of
    <2>2. k \in at
      BY <1>2, <2>1, FirstIsOne
    <2>3. k \in DOMAIN s /\ s[k].kind = "product" /\ s[k].key = r.key /\ s[k] \in Entry
      BY <2>2 DEF Of
    <2>4. t = [s EXCEPT ![k] = ImportedOver(s[k], r)]
      BY <1>1, <1>2 DEF Imported
    <2> HIDE DEF at, k, t
    <2>5. ImportedOver(s[k], r) \in Entry
      BY <2>3, ImportedOverIs
    <2>6. /\ t \in Seq(Entry) /\ Len(t) = Len(s) /\ DOMAIN t = DOMAIN s
          /\ t[k] = ImportedOver(s[k], r) /\ \A i \in DOMAIN s : i # k => t[i] = s[i]
      BY <2>3, <2>4, <2>5
    <2>7. ImportedAt(s, r, t, k)
      BY <1>1, <2>3, <2>6, ImportedOverIs DEF ImportedAt
    <2> QED
      BY <2>7 DEF t
  <1>3. CASE at = {}
    <2> DEFINE new == Record("product", r.key, r.value,
                             IF r.count = NoColumn THEN 0 ELSE r.count, r.code)
               k == Len(s) + 1
    <2>1. t = Append(s, new)
      BY <1>1, <1>3 DEF Imported
    <2>2. new \in Entry /\ new.kind = "product" /\ new.key = r.key /\ new.value = r.value
          /\ new.active /\ new.count = (IF r.count = NoColumn THEN 0 ELSE r.count)
          /\ new.code = r.code
      BY DEF Record, Row, Entry, Kinds, NoColumn
    <2> HIDE DEF new
    <2>3. /\ t \in Seq(Entry) /\ Len(t) = Len(s) + 1 /\ DOMAIN t = 1..(Len(s) + 1)
          /\ t[k] = new /\ \A i \in DOMAIN s : t[i] = s[i]
      BY <1>1, <2>1, <2>2
    <2>4. \A i \in DOMAIN s : ~(s[i].kind = "product" /\ s[i].key = r.key)
      BY <1>3 DEF Of
    <2> HIDE DEF at, t
    <2>5. DOMAIN t = DOMAIN s \cup {k} /\ k \notin DOMAIN s
      BY <1>1, <2>3
    <2>6. ImportedAt(s, r, t, k)
      BY <1>1, <2>2, <2>3, <2>4, <2>5 DEF ImportedAt
    <2> QED
      BY <2>6 DEF t
  <1> QED
    BY <1>2, <1>3

\* Skus stay apart.
LEMMA ImportedApart ==
  ASSUME NEW s \in Seq(Entry), NEW r, NEW t, NEW k, ImportedAt(s, r, t, k), Apart(s)
  PROVE  Apart(t)
  <1> SUFFICES ASSUME NEW i \in DOMAIN t, NEW j \in DOMAIN t, t[i].kind = "product",
                      t[j].kind = "product", t[i].key = t[j].key
               PROVE  i = j
    BY DEF Apart
  <1>1. CASE i # k /\ j # k
    BY <1>1 DEF Apart, ImportedAt
  <1>2. CASE i = k /\ j # k
    BY <1>2 DEF Apart, ImportedAt
  <1>3. CASE i # k /\ j = k
    BY <1>3 DEF Apart, ImportedAt
  <1> QED
    BY <1>1, <1>2, <1>3
-----------------------------------------------------------------------------
(* Catalog: what an import makes of the list that it began with *)

\* Row n of f is about product e, counts it, gives it a barcode.
Tells(f, n, e) ==
  n \in DOMAIN f /\ f[n].value \in Values /\ e.kind = "product" /\ e.key = f[n].key
Tallies(f, n, e) == Tells(f, n, e) /\ f[n].count # NoColumn
Labels(f, n, e) == Tells(f, n, e) /\ f[n].code # NoCode

WasCount(b, i) == IF i \in DOMAIN b THEN b[i].count ELSE 0
WasCode(b, i) == IF i \in DOMAIN b THEN b[i].code ELSE NoCode

\* s is b with some rows of f imported, any number of times.
KeptOne(b, f, s, i) ==
  /\ i \in DOMAIN b => s[i].kind = b[i].kind /\ s[i].key = b[i].key
  /\ i \notin DOMAIN b => \E n \in DOMAIN f : Tells(f, n, s[i])
  /\ (\A n : ~Tells(f, n, s[i])) => s[i] = b[i]
  /\ (\A n : ~Tallies(f, n, s[i])) => s[i].count = WasCount(b, i)
  /\ (\A n : ~Labels(f, n, s[i])) => s[i].code = WasCode(b, i)
KeptFrom(b, f, s) ==
  /\ s \in Seq(Entry) /\ b \in Seq(Entry) /\ Apart(s) /\ Len(b) <= Len(s)
  /\ \A i \in DOMAIN s : KeptOne(b, f, s, i)

\* s is what the rows before n tell, the last one for each column.
SettledOne(f, n, s, i) ==
  \A m \in 1..(n - 1) :
    /\ Tells(f, m, s[i]) /\ (\A l \in (m + 1)..(n - 1) : ~Tells(f, l, s[i]))
         => s[i].value = f[m].value /\ s[i].active
    /\ Tallies(f, m, s[i]) /\ (\A l \in (m + 1)..(n - 1) : ~Tallies(f, l, s[i]))
         => s[i].count = f[m].count
    /\ Labels(f, m, s[i]) /\ (\A l \in (m + 1)..(n - 1) : ~Labels(f, l, s[i]))
         => s[i].code = f[m].code
SettledTo(f, n, s) ==
  /\ \A m \in 1..(n - 1) :
       m \in DOMAIN f /\ f[m].value \in Values => \E i \in DOMAIN s : Tells(f, m, s[i])
  /\ \A i \in DOMAIN s : SettledOne(f, n, s, i)

\* A file, and a row of it.
IsFile(f) ==
  /\ DOMAIN f = 1..Len(f) /\ Len(f) \in Nat
  /\ \A n \in DOMAIN f : f[n].value \in Values => Row(f[n])

\* The files that may be imported are files, and so is none.
LEMMA FilesAreFiles == \A f \in Files \cup {NoFile} : IsFile(f)
  <1>1. ASSUME NEW f \in Files
        PROVE  IsFile(f)
    <2>1. f \in Seq({f[n] : n \in DOMAIN f})
      BY CatalogAssumption
    <2>2. DOMAIN f = 1..Len(f) /\ Len(f) \in Nat
      BY <2>1
    <2> QED
      BY <2>2, CatalogAssumption DEF IsFile, Row
  <1>2. IsFile(NoFile)
    BY DEF IsFile, NoFile
  <1> QED
    BY <1>1, <1>2

\* Importing a row leaves a list that was imported over.
LEMMA ImportKeeps ==
  ASSUME NEW b, NEW f, NEW s, IsFile(f), NEW n \in DOMAIN f, KeptFrom(b, f, s)
  PROVE  KeptFrom(b, f, Imported(s, f[n]))
  <1> DEFINE t == Imported(s, f[n])
  <1>1. CASE f[n].value \notin Values
    <2>1. t = s
      BY <1>1 DEF Imported
    <2> QED
      BY <2>1
  <1>2. CASE f[n].value \in Values
    <2>1. s \in Seq(Entry) /\ Row(f[n])
      BY <1>2 DEF KeptFrom, IsFile
    <2>2. PICK k : ImportedAt(s, f[n], t, k)
      BY <2>1, ImportedIsAt
    <2> HIDE DEF t
    <2>3. Apart(t)
      BY <2>1, <2>2, ImportedApart DEF KeptFrom
    <2>4. \A i \in DOMAIN s : i # k => KeptOne(b, f, t, i)
      BY <2>2 DEF KeptFrom, KeptOne, ImportedAt
    <2>5. Tells(f, n, t[k])
      BY <1>2, <2>2 DEF Tells, ImportedAt
    <2>6. KeptOne(b, f, t, k)
      <3>1. CASE k \in DOMAIN s
        <4>1. KeptOne(b, f, s, k) /\ s[k].kind = t[k].kind /\ s[k].key = t[k].key
          BY <2>2, <3>1 DEF KeptFrom, ImportedAt
        <4>2. \A m : /\ Tells(f, m, t[k]) <=> Tells(f, m, s[k])
                     /\ Tallies(f, m, t[k]) <=> Tallies(f, m, s[k])
                     /\ Labels(f, m, t[k]) <=> Labels(f, m, s[k])
          BY <4>1 DEF Tells, Tallies, Labels
        <4>3. (\A m : ~Tallies(f, m, t[k])) => t[k].count = s[k].count
          BY <2>2, <2>5, <3>1 DEF Tallies, ImportedAt
        <4>4. (\A m : ~Labels(f, m, t[k])) => t[k].code = s[k].code
          BY <2>2, <2>5, <3>1 DEF Labels, ImportedAt
        <4> QED
          BY <2>5, <4>1, <4>2, <4>3, <4>4 DEF KeptOne
      <3>2. CASE k \notin DOMAIN s
        <4>1. k \notin DOMAIN b
          <5>1. DOMAIN b = 1..Len(b) /\ DOMAIN s = 1..Len(s) /\ Len(b) <= Len(s)
                /\ Len(b) \in Nat /\ Len(s) \in Nat
            BY DEF KeptFrom
          <5> QED
            BY <3>2, <5>1
        <4>2. (\A m : ~Tallies(f, m, t[k])) => t[k].count = 0
          BY <2>2, <2>5, <3>2 DEF Tallies, ImportedAt
        <4>3. (\A m : ~Labels(f, m, t[k])) => t[k].code = NoCode
          BY <2>2, <2>5, <3>2 DEF Labels, ImportedAt
        <4> QED
          BY <2>5, <4>1, <4>2, <4>3 DEF KeptOne, WasCount, WasCode
      <3> QED
        BY <3>1, <3>2
    <2>7. t \in Seq(Entry) /\ Len(b) <= Len(t) /\ b \in Seq(Entry)
      <3>1. /\ t \in Seq(Entry) /\ b \in Seq(Entry) /\ s \in Seq(Entry)
            /\ Len(b) <= Len(s) /\ Len(s) <= Len(t)
        BY <2>2 DEF ImportedAt, KeptFrom
      <3>2. Len(b) \in Nat /\ Len(s) \in Nat /\ Len(t) \in Nat
        BY <3>1
      <3> QED
        BY <3>1, <3>2
    <2>8. \A i \in DOMAIN t : KeptOne(b, f, t, i)
      BY <2>2, <2>4, <2>6 DEF ImportedAt
    <2>9. KeptFrom(b, f, t)
      BY <2>3, <2>7, <2>8 DEF KeptFrom
    <2> QED
      BY <2>9 DEF t
  <1> QED
    BY <1>1, <1>2

\* And what the rows up to it tell.
LEMMA ImportSettles ==
  ASSUME NEW b, NEW f, NEW s, IsFile(f), NEW n \in DOMAIN f, KeptFrom(b, f, s), SettledTo(f, n, s)
  PROVE  SettledTo(f, n + 1, Imported(s, f[n]))
  <1> DEFINE t == Imported(s, f[n])
  <1>0. n \in Nat /\ n >= 1 /\ DOMAIN f = 1..Len(f) /\ Len(f) \in Nat
    BY DEF IsFile
  <1>1. CASE f[n].value \notin Values
    <2>1. t = s
      BY <1>1 DEF Imported
    <2>2. \A e : ~Tells(f, n, e) /\ ~Tallies(f, n, e) /\ ~Labels(f, n, e)
      BY <1>1 DEF Tells, Tallies, Labels
    <2>3. ASSUME NEW i \in DOMAIN s
          PROVE  SettledOne(f, n + 1, s, i)
      <3>1. SettledOne(f, n, s, i)
        BY DEF SettledTo
      <3> QED
        BY <1>0, <2>2, <3>1 DEF SettledOne
    <2>4. \A m \in 1..n : m \in DOMAIN f /\ f[m].value \in Values =>
            \E i \in DOMAIN s : Tells(f, m, s[i])
      BY <1>0, <1>1 DEF SettledTo
    <2>5. SettledTo(f, n + 1, s)
      BY <1>0, <2>3, <2>4 DEF SettledTo
    <2> QED
      BY <2>1, <2>5
  <1>2. CASE f[n].value \in Values
    <2>1. s \in Seq(Entry) /\ Row(f[n])
      BY <1>2 DEF KeptFrom, IsFile
    <2>2. PICK k : ImportedAt(s, f[n], t, k)
      BY <2>1, ImportedIsAt
    <2> HIDE DEF t
    <2>3. Tells(f, n, t[k])
      BY <1>2, <2>2 DEF Tells, ImportedAt
    <2>4. Apart(t)
      BY <2>1, <2>2, ImportedApart DEF KeptFrom
    <2>5. \A m \in 1..n : m \in DOMAIN f /\ f[m].value \in Values =>
            \E i \in DOMAIN t : Tells(f, m, t[i])
      <3>1. ASSUME NEW m \in 1..(n - 1), m \in DOMAIN f, f[m].value \in Values
            PROVE  \E i \in DOMAIN t : Tells(f, m, t[i])
        <4>1. PICK i \in DOMAIN s : Tells(f, m, s[i])
          BY <3>1 DEF SettledTo
        <4>2. i \in DOMAIN t /\ t[i].kind = s[i].kind /\ t[i].key = s[i].key
          BY <2>2 DEF ImportedAt
        <4> QED
          BY <4>1, <4>2 DEF Tells
      <3>2. k \in DOMAIN t
        BY <2>2 DEF ImportedAt
      <3> QED
        BY <1>0, <2>3, <3>1, <3>2
    <2>6. ASSUME NEW i \in DOMAIN t, i # k
          PROVE  SettledOne(f, n + 1, t, i)
      <3>1. i \in DOMAIN s /\ t[i] = s[i] /\ k \in DOMAIN t
        BY <2>2, <2>6 DEF ImportedAt
      <3>2. ~Tells(f, n, t[i])
        BY <2>2, <2>3, <2>4, <2>6, <3>1 DEF Tells, Apart
      <3>3. ~Tallies(f, n, t[i]) /\ ~Labels(f, n, t[i])
        BY <3>2 DEF Tallies, Labels
      <3>4. SettledOne(f, n, s, i)
        BY <3>1 DEF SettledTo
      <3> QED
        BY <1>0, <3>1, <3>2, <3>3, <3>4 DEF SettledOne
    <2>7. SettledOne(f, n + 1, t, k)
      <3>1. /\ t[k].value = f[n].value /\ t[k].active
            /\ f[n].count # NoColumn => t[k].count = f[n].count
            /\ f[n].code # NoCode => t[k].code = f[n].code
        BY <2>2 DEF ImportedAt
      <3>2. CASE k \in DOMAIN s
        <4>1. /\ SettledOne(f, n, s, k) /\ s[k].kind = t[k].kind /\ s[k].key = t[k].key
              /\ f[n].count = NoColumn => t[k].count = s[k].count
              /\ f[n].code = NoCode => t[k].code = s[k].code
          BY <2>2, <3>2 DEF SettledTo, ImportedAt
        <4>2. \A m : /\ Tells(f, m, t[k]) <=> Tells(f, m, s[k])
                     /\ Tallies(f, m, t[k]) <=> Tallies(f, m, s[k])
                     /\ Labels(f, m, t[k]) <=> Labels(f, m, s[k])
          BY <4>1 DEF Tells, Tallies, Labels
        <4>3. /\ Tallies(f, n, t[k]) <=> f[n].count # NoColumn
              /\ Labels(f, n, t[k]) <=> f[n].code # NoCode
          BY <2>3 DEF Tallies, Labels
        <4>4. ASSUME NEW m \in 1..n
              PROVE  /\ Tells(f, m, t[k]) /\ (\A l \in (m + 1)..n : ~Tells(f, l, t[k]))
                          => t[k].value = f[m].value /\ t[k].active
                     /\ Tallies(f, m, t[k]) /\ (\A l \in (m + 1)..n : ~Tallies(f, l, t[k]))
                          => t[k].count = f[m].count
                     /\ Labels(f, m, t[k]) /\ (\A l \in (m + 1)..n : ~Labels(f, l, t[k]))
                          => t[k].code = f[m].code
          <5>1. CASE m = n
            BY <3>1, <4>3, <5>1
          <5>2. CASE m # n
            <6>1. m \in 1..(n - 1) /\ n \in (m + 1)..n
              BY <1>0, <5>2
            <6>2. \A l \in (m + 1)..(n - 1) : l \in (m + 1)..n
              BY <1>0
            <6> QED
              BY <2>3, <4>1, <4>2, <4>3, <6>1, <6>2 DEF SettledOne
          <5> QED
            BY <5>1, <5>2
        <4> QED
          BY <1>0, <4>4 DEF SettledOne
      <3>3. CASE k \notin DOMAIN s
        <4>1. ASSUME NEW m \in 1..(n - 1)
              PROVE  ~Tells(f, m, t[k])
          <5> SUFFICES ASSUME Tells(f, m, t[k]) PROVE FALSE
            OBVIOUS
          <5>1. PICK i \in DOMAIN s : Tells(f, m, s[i])
            BY DEF SettledTo, Tells
          <5> QED
            BY <2>2, <3>3, <5>1 DEF Tells, ImportedAt
        <4>2. ASSUME NEW m \in 1..(n - 1)
              PROVE  ~Tallies(f, m, t[k]) /\ ~Labels(f, m, t[k])
          BY <4>1 DEF Tallies, Labels
        <4> QED
          BY <1>0, <3>1, <4>1, <4>2 DEF SettledOne, Tallies, Labels
      <3> QED
        BY <3>2, <3>3
    <2>8. SettledTo(f, n + 1, t)
      BY <1>0, <2>5, <2>6, <2>7 DEF SettledTo
    <2> QED
      BY <2>8 DEF t
  <1> QED
    BY <1>1, <1>2
-----------------------------------------------------------------------------
(* Catalog: a file imported at once, and again and again *)

\* Of some rows before the n-th one is the last.
LEMMA LastRow ==
  ASSUME NEW n \in Nat, NEW S \in SUBSET (1..n), S # {}
  PROVE  \E m \in S : \A l \in (m + 1)..n : l \notin S
  <1> DEFINE D == {d \in Nat : \E m \in S : d = n - m}
  <1>1. D # {} /\ D \subseteq Nat
    <2>1. PICK x \in S : x \in 1..n
      OBVIOUS
    <2>2. n - x \in Nat
      BY <2>1
    <2> QED
      BY <2>2
  <1> HIDE DEF D
  <1>2. PICK d \in D : \A e \in D : ~(<<e, d>> \in OpToRel(<, Nat))
    BY <1>1, NatLessThanWellFounded, WFMin
  <1>3. PICK m \in S : d = n - m
    BY DEF D
  <1>4. ASSUME NEW l \in (m + 1)..n, l \in S
        PROVE  FALSE
    <2>1. n - l \in D /\ n - l \in Nat /\ d \in Nat /\ n - l < d
      BY <1>1, <1>3, <1>4 DEF D
    <2> QED
      BY <1>2, <2>1 DEF OpToRel
  <1> QED
    BY <1>4

\* A product is the same in two lists that all of a file was told to.
LEMMA ToldTheSame ==
  ASSUME NEW b, NEW f, NEW s, NEW t, IsFile(f), KeptFrom(b, f, s), KeptFrom(b, f, t),
         SettledTo(f, Len(f) + 1, s), SettledTo(f, Len(f) + 1, t),
         NEW i \in DOMAIN s, NEW j \in DOMAIN t, i \in DOMAIN b \/ j \in DOMAIN b => i = j,
         s[i].kind = t[j].kind, s[i].key = t[j].key
  PROVE  s[i] = t[j]
  <1> DEFINE n == Len(f)
  <1>1. n \in Nat /\ DOMAIN f = 1..n /\ n + 1 - 1 = n
    BY DEF IsFile
  <1>2. /\ KeptOne(b, f, s, i) /\ KeptOne(b, f, t, j)
        /\ SettledOne(f, n + 1, s, i) /\ SettledOne(f, n + 1, t, j)
        /\ s[i] \in Entry /\ t[j] \in Entry
    BY DEF KeptFrom, SettledTo
  <1>3. \A m : /\ Tells(f, m, s[i]) <=> Tells(f, m, t[j])
               /\ Tallies(f, m, s[i]) <=> Tallies(f, m, t[j])
               /\ Labels(f, m, s[i]) <=> Labels(f, m, t[j])
               /\ Tells(f, m, s[i]) => m \in 1..n
               /\ Tallies(f, m, s[i]) => m \in 1..n
               /\ Labels(f, m, s[i]) => m \in 1..n
    BY <1>1 DEF Tells, Tallies, Labels
  <1>4. CASE \A m : ~Tells(f, m, s[i])
    <2>1. s[i] = b[i] /\ t[j] = b[j] /\ i \in DOMAIN b
      BY <1>2, <1>3, <1>4 DEF KeptOne
    <2> QED
      BY <2>1
  <1>5. CASE \E m : Tells(f, m, s[i])
    <2>1. s[i].value = t[j].value /\ s[i].active /\ t[j].active
      <3> DEFINE S == {m \in 1..n : Tells(f, m, s[i])}
      <3>1. S # {} /\ S \in SUBSET (1..n)
        BY <1>3, <1>5
      <3>2. PICK m \in S : \A l \in (m + 1)..n : l \notin S
        BY <1>1, <3>1, LastRow
      <3>3. m \in 1..n /\ Tells(f, m, s[i]) /\ \A l \in (m + 1)..n : ~Tells(f, l, s[i])
        BY <1>1, <3>2
      <3> QED
        BY <1>1, <1>2, <1>3, <3>3 DEF SettledOne
    <2>2. s[i].count = t[j].count
      <3>1. CASE \A m : ~Tallies(f, m, s[i])
        BY <1>2, <1>3, <3>1 DEF KeptOne, WasCount
      <3>2. CASE \E m : Tallies(f, m, s[i])
        <4> DEFINE S == {m \in 1..n : Tallies(f, m, s[i])}
        <4>1. S # {} /\ S \in SUBSET (1..n)
          BY <1>3, <3>2
        <4>2. PICK m \in S : \A l \in (m + 1)..n : l \notin S
          BY <1>1, <4>1, LastRow
        <4>3. m \in 1..n /\ Tallies(f, m, s[i]) /\ \A l \in (m + 1)..n : ~Tallies(f, l, s[i])
          BY <1>1, <4>2
        <4> QED
          BY <1>1, <1>2, <1>3, <4>3 DEF SettledOne
      <3> QED
        BY <3>1, <3>2
    <2>3. s[i].code = t[j].code
      <3>1. CASE \A m : ~Labels(f, m, s[i])
        BY <1>2, <1>3, <3>1 DEF KeptOne, WasCode
      <3>2. CASE \E m : Labels(f, m, s[i])
        <4> DEFINE S == {m \in 1..n : Labels(f, m, s[i])}
        <4>1. S # {} /\ S \in SUBSET (1..n)
          BY <1>3, <3>2
        <4>2. PICK m \in S : \A l \in (m + 1)..n : l \notin S
          BY <1>1, <4>1, LastRow
        <4>3. m \in 1..n /\ Labels(f, m, s[i]) /\ \A l \in (m + 1)..n : ~Labels(f, l, s[i])
          BY <1>1, <4>2
        <4> QED
          BY <1>1, <1>2, <1>3, <4>3 DEF SettledOne
      <3> QED
        BY <3>1, <3>2
    <2> QED
      BY <1>2, <2>1, <2>2, <2>3 DEF Entry
  <1> QED
    BY <1>4, <1>5

\* What one list holds the other does, at the same place if the import began with it.
LEMMA ToldInBoth ==
  ASSUME NEW b, NEW f, NEW s, NEW t, IsFile(f), KeptFrom(b, f, s), KeptFrom(b, f, t),
         SettledTo(f, Len(f) + 1, s), SettledTo(f, Len(f) + 1, t), NEW i \in DOMAIN s
  PROVE  \E j \in DOMAIN t : t[j] = s[i] /\ (i \in DOMAIN b \/ j \in DOMAIN b => i = j)
  <1>1. /\ DOMAIN b = 1..Len(b) /\ DOMAIN s = 1..Len(s) /\ DOMAIN t = 1..Len(t)
        /\ Len(b) <= Len(s) /\ Len(b) <= Len(t)
        /\ Len(b) \in Nat /\ Len(s) \in Nat /\ Len(t) \in Nat
    BY DEF KeptFrom
  <1>2. DOMAIN b \subseteq DOMAIN s /\ DOMAIN b \subseteq DOMAIN t
    BY <1>1
  <1>3. CASE i \in DOMAIN b
    <2>1. i \in DOMAIN t /\ s[i].kind = t[i].kind /\ s[i].key = t[i].key
      BY <1>2, <1>3 DEF KeptFrom, KeptOne
    <2>2. s[i] = t[i]
      BY <2>1, ToldTheSame
    <2> QED
      BY <2>1, <2>2
  <1>4. CASE i \notin DOMAIN b
    <2>1. PICK m \in DOMAIN f : Tells(f, m, s[i])
      BY <1>4 DEF KeptFrom, KeptOne
    <2>2. m \in 1..(Len(f) + 1 - 1) /\ f[m].value \in Values
      BY <2>1 DEF IsFile, Tells
    <2>3. PICK j \in DOMAIN t : Tells(f, m, t[j])
      BY <2>2 DEF SettledTo
    <2>4. s[i].kind = "product" /\ t[j].kind = s[i].kind /\ t[j].key = s[i].key
      BY <2>1, <2>3 DEF Tells
    <2>5. j \notin DOMAIN b
      <3> SUFFICES ASSUME j \in DOMAIN b PROVE FALSE
        OBVIOUS
      <3>1. j \in DOMAIN s /\ s[j].kind = t[j].kind /\ s[j].key = t[j].key
        BY <1>2 DEF KeptFrom, KeptOne
      <3> QED
        BY <1>4, <2>4, <3>1 DEF KeptFrom, Apart
    <2>6. s[i] = t[j]
      BY <1>4, <2>4, <2>5, ToldTheSame
    <2> QED
      BY <1>4, <2>5, <2>6
  <1> QED
    BY <1>3, <1>4

\* One list has no more than the other.
LEMMA ToldNoMore ==
  ASSUME NEW b, NEW f, NEW s, NEW t, IsFile(f), KeptFrom(b, f, s), KeptFrom(b, f, t),
         SettledTo(f, Len(f) + 1, s), SettledTo(f, Len(f) + 1, t)
  PROVE  Len(s) <= Len(t)
  <1> DEFINE At(i) == CHOOSE j \in DOMAIN t :
                        t[j] = s[i] /\ (i \in DOMAIN b \/ j \in DOMAIN b => i = j)
             g == [i \in DOMAIN s |-> At(i)]
  <1>1. \A i \in DOMAIN s : /\ At(i) \in DOMAIN t /\ t[At(i)] = s[i]
                            /\ i \in DOMAIN b \/ At(i) \in DOMAIN b => i = At(i)
    BY ToldInBoth
  <1> HIDE DEF At
  <1>2. ASSUME NEW i \in DOMAIN s, NEW j \in DOMAIN s, At(i) = At(j)
        PROVE  i = j
    <2>1. CASE i \in DOMAIN b \/ j \in DOMAIN b
      BY <1>1, <1>2, <2>1
    <2>2. CASE i \notin DOMAIN b /\ j \notin DOMAIN b
      <3>1. s[i] = s[j]
        BY <1>1, <1>2
      <3>2. s[i].kind = "product"
        BY <2>2 DEF KeptFrom, KeptOne, Tells
      <3> QED
        BY <3>1, <3>2 DEF KeptFrom, Apart
    <2> QED
      BY <2>1, <2>2
  <1>3. g \in Injection(DOMAIN s, DOMAIN t)
    <2>1. g \in [DOMAIN s -> DOMAIN t] /\ DOMAIN g = DOMAIN s
      BY <1>1
    <2>2. \A i, j \in DOMAIN s : g[i] = g[j] => i = j
      BY <1>2
    <2> HIDE DEF g
    <2> QED
      BY <2>1, <2>2 DEF Injection, IsInjective
  <1>4. /\ DOMAIN s = 1..Len(s) /\ DOMAIN t = 1..Len(t) /\ Len(s) \in Nat /\ Len(t) \in Nat
    BY DEF KeptFrom
  <1>5. /\ IsFiniteSet(DOMAIN s) /\ Cardinality(DOMAIN s) = Len(s)
        /\ IsFiniteSet(DOMAIN t) /\ Cardinality(DOMAIN t) = Len(t)
    <2>1. \A n \in Nat : IsFiniteSet(1..n) /\ Cardinality(1..n) = n
      BY FS_Interval
    <2> QED
      BY <1>4, <2>1
  <1>6. Cardinality(DOMAIN s) <= Cardinality(DOMAIN t)
    BY <1>3, <1>5, FS_Injection
  <1> QED
    BY <1>5, <1>6

\* Two lists that all of a file was told to hold the same.
LEMMA ToldAlike ==
  ASSUME NEW b, NEW f, NEW s, NEW t, IsFile(f), KeptFrom(b, f, s), KeptFrom(b, f, t),
         SettledTo(f, Len(f) + 1, s), SettledTo(f, Len(f) + 1, t)
  PROVE  SameRecords(s, t)
  <1>1. Len(s) \in Nat /\ Len(t) \in Nat /\ Len(s) <= Len(t) /\ Len(t) <= Len(s)
    BY ToldNoMore DEF KeptFrom
  <1>2. Len(s) = Len(t)
    BY <1>1
  <1>3. \A i \in DOMAIN s : \E j \in DOMAIN t : t[j] = s[i]
    BY ToldInBoth
  <1>4. \A j \in DOMAIN t : \E i \in DOMAIN s : s[i] = t[j]
    BY ToldInBoth
  <1> QED
    BY <1>2, <1>3, <1>4 DEF SameRecords

\* The lists after each row of a file.
Stages(b, f, n, g) ==
  g = [m \in 0..n |-> IF m = 0 THEN b ELSE Imported(g[m - 1], f[m])]

\* There are such, for every file.
LEMMA StagesExist ==
  ASSUME NEW b, NEW f, NEW n \in Nat
  PROVE  \E g : Stages(b, f, n, g)
  <1> DEFINE T == {m \in Nat : \E g : Stages(b, f, m, g)}
  <1>1. 0 \in T
    <2> DEFINE g == [l \in 0..0 |-> b]
    <2>1. Stages(b, f, 0, g)
      BY DEF Stages
    <2> QED
      BY <2>1
  <1>2. ASSUME NEW m \in 0..(n - 1), m \in T
        PROVE  m + 1 \in T
    <2>1. PICK h : Stages(b, f, m, h)
      BY <1>2
    <2> DEFINE g == [l \in 0..(m + 1) |-> IF l = m + 1 THEN Imported(h[m], f[m + 1]) ELSE h[l]]
    <2>2. \A l \in 0..m : h[l] = IF l = 0 THEN b ELSE Imported(h[l - 1], f[l])
      BY <2>1 DEF Stages
    <2>3. \A l \in 0..(m + 1) : g[l] = IF l = 0 THEN b ELSE Imported(g[l - 1], f[l])
      <3> TAKE l \in 0..(m + 1)
      <3>1. CASE l = m + 1
        <4>1. l \in 0..(m + 1) /\ l - 1 = m /\ m \in 0..(m + 1) /\ m # m + 1 /\ l # 0
          BY <3>1
        <4> QED
          BY <3>1, <4>1
      <3>2. CASE l # m + 1 /\ l = 0
        BY <2>2, <3>2
      <3>3. CASE l # m + 1 /\ l # 0
        <4>1. l \in 0..m /\ l - 1 \in 0..(m + 1) /\ l - 1 # m + 1
          BY <3>3
        <4> QED
          BY <2>2, <3>3, <4>1
      <3> QED
        BY <3>1, <3>2, <3>3
    <2>4. Stages(b, f, m + 1, g)
      <3> HIDE DEF g
      <3>1. g = [l \in 0..(m + 1) |-> g[l]]
        BY DEF g
      <3>2. g = [l \in 0..(m + 1) |-> IF l = 0 THEN b ELSE Imported(g[l - 1], f[l])]
        BY <2>3, <3>1
      <3> QED
        BY <3>2 DEF Stages
    <2>5. m + 1 \in Nat
      OBVIOUS
    <2> QED
      BY <2>4, <2>5
  <1> HIDE DEF T
  <1>3. n \in T
    BY <1>1, <1>2, Climbs
  <1> QED
    BY <1>3 DEF T

\* Every stage is told all rows before it.
LEMMA StagesAreTold ==
  ASSUME NEW b \in Seq(Entry), NEW f, IsFile(f), Apart(b), NEW g, Stages(b, f, Len(f), g)
  PROVE  \A m \in 0..Len(f) : KeptFrom(b, f, g[m]) /\ SettledTo(f, m + 1, g[m])
  <1> DEFINE n == Len(f)
             T == {m \in 0..n : KeptFrom(b, f, g[m]) /\ SettledTo(f, m + 1, g[m])}
  <1>0. n \in Nat /\ DOMAIN f = 1..n
    BY DEF IsFile
  <1>1. \A m \in 0..n : g[m] = IF m = 0 THEN b ELSE Imported(g[m - 1], f[m])
    BY DEF Stages
  <1>2. 0 \in T
    <2>1. KeptFrom(b, f, b)
      BY DEF KeptFrom, KeptOne, WasCount, WasCode
    <2>2. SettledTo(f, 1, b)
      BY DEF SettledTo, SettledOne
    <2>3. 0 \in 0..n /\ g[0] = b
      BY <1>0, <1>1
    <2> QED
      BY <2>1, <2>2, <2>3
  <1>3. ASSUME NEW m \in 0..(n - 1), m \in T
        PROVE  m + 1 \in T
    <2>1. m + 1 \in 0..n /\ m + 1 # 0 /\ m + 1 - 1 = m /\ m + 1 \in DOMAIN f
      BY <1>0
    <2>2. g[m + 1] = Imported(g[m], f[m + 1])
      BY <1>1, <2>1
    <2>3. KeptFrom(b, f, g[m + 1]) /\ SettledTo(f, m + 1 + 1, g[m + 1])
      BY <1>3, <2>1, <2>2, ImportKeeps, ImportSettles
    <2> QED
      BY <2>1, <2>3
  <1>4. \A m \in 0..n : m \in T
    <2> HIDE DEF T
    <2> QED
      BY <1>0, <1>2, <1>3, Climbs
  <1> QED
    BY <1>4

\* And so is what an import leaves that is not disturbed.
LEMMA ImportedAllIsTold ==
  ASSUME NEW b \in Seq(Entry), NEW f, IsFile(f), Apart(b)
  PROVE  /\ KeptFrom(b, f, ImportedAll(b, f))
         /\ SettledTo(f, Len(f) + 1, ImportedAll(b, f))
  <1> DEFINE g == CHOOSE h : Stages(b, f, Len(f), h)
  <1>0. Len(f) \in Nat
    BY DEF IsFile
  <1>1. Stages(b, f, Len(f), g)
    BY <1>0, StagesExist
  <1>2. ImportedAll(b, f) = g[Len(f)]
    BY DEF ImportedAll, Stages
  <1> HIDE DEF g
  <1> QED
    BY <1>0, <1>1, <1>2, StagesAreTold
-----------------------------------------------------------------------------
(* Catalog: what an import under way and those before it have left *)

Checked == [key : Keys, value : Values, code : Codes \cup {NoCode}, count : Int]

CatalogTyped ==
  /\ records \in Seq(Entry)
  /\ creating \subseteq Checked
  /\ backup = NoBackup \/ backup \in Seq(Entry)
  /\ file \in Files \cup {NoFile}
  /\ row \in -1..(Len(file) + 1)
  /\ failed \in BOOLEAN

\* While nothing but imports of the file has changed them, the records are what these made of the
\* ones before, and the last import has told them the rows up to its own.
Importing ==
  before # Untold =>
    /\ KeptFrom(before, file, records)
    /\ row >= 0 /\ ~failed => SettledTo(file, IF row = 0 THEN Len(file) + 1 ELSE row, records)

CatalogInv == CatalogTyped /\ Apart(records) /\ Importing

\* At first there is nothing.
LEMMA CatalogStarts == CatalogInit => CatalogInv
  <1> SUFFICES ASSUME CatalogInit PROVE CatalogInv
    OBVIOUS
  <1>1. records = <<>> /\ <<>> \in Seq(Entry) /\ DOMAIN records = {}
    BY DEF CatalogInit
  <1>2. Len(file) = 0
    BY DEF CatalogInit, NoFile
  <1>3. row \in -1..(Len(file) + 1)
    BY <1>2 DEF CatalogInit
  <1>4. CatalogTyped
    BY <1>1, <1>3 DEF CatalogInit, CatalogTyped
  <1>5. Apart(records)
    BY <1>1 DEF Apart
  <1>6. before = Untold
    BY DEF CatalogInit
  <1> QED
    BY <1>4, <1>5, <1>6 DEF CatalogInv, Importing

\* A record that becomes the last one, of a kind and name that no product has.
LEMMA AppendedApart ==
  ASSUME NEW s \in Seq(Entry), Apart(s), NEW e \in Entry,
         e.kind = "product" => Of(s, "product", e.key) = {}
  PROVE  Append(s, e) \in Seq(Entry) /\ Apart(Append(s, e))
  <1> DEFINE t == Append(s, e)
             n == Len(s) + 1
  <1>1. /\ t \in Seq(Entry) /\ DOMAIN t = DOMAIN s \cup {n} /\ n \notin DOMAIN s
        /\ t[n] = e /\ \A i \in DOMAIN s : t[i] = s[i]
    OBVIOUS
  <1> HIDE DEF t, n
  <1>2. \A i \in DOMAIN s : s[i].kind = "product" /\ e.kind = "product" => s[i].key # e.key
    BY DEF Of
  <1>3. Apart(t)
    BY <1>1, <1>2 DEF Apart
  <1> QED
    BY <1>1, <1>3 DEF t

\* A record that becomes another one of its kind, a product with the same sku.
LEMMA ReplacedApart ==
  ASSUME NEW s \in Seq(Entry), Apart(s), NEW k \in DOMAIN s, NEW e \in Entry,
         e.kind = s[k].kind, e.kind = "product" => e.key = s[k].key
  PROVE  [s EXCEPT ![k] = e] \in Seq(Entry) /\ Apart([s EXCEPT ![k] = e])
  <1> DEFINE t == [s EXCEPT ![k] = e]
  <1>1. /\ t \in Seq(Entry) /\ DOMAIN t = DOMAIN s /\ t[k] = e
        /\ \A i \in DOMAIN s : i # k => t[i] = s[i]
    OBVIOUS
  <1> HIDE DEF t
  <1>2. \A i \in DOMAIN s : t[i].kind = s[i].kind /\ (t[i].kind = "product" => t[i].key = s[i].key)
    BY <1>1
  <1>3. Apart(t)
    BY <1>1, <1>2 DEF Apart
  <1> QED
    BY <1>1, <1>3 DEF t

\* What a record of a backup makes of one it is written over.
LEMMA OverIs ==
  ASSUME NEW p \in Entry, NEW e \in Entry
  PROVE  /\ Over(p, e) \in Entry /\ Over(p, e).kind = e.kind /\ Over(p, e).key = e.key
         /\ Held(Over(p, e)) = Held(e) /\ Over(p, e).code = Kept(p.code, e.code)
  <1>1. e.code \in Codes \cup {NoCode, Blank} /\ p.code \in Codes \cup {NoCode, Blank}
    BY DEF Entry
  <1>2. Kept(p.code, e.code) \in Codes \cup {NoCode, Blank}
    BY <1>1 DEF Kept
  <1>3. /\ e.kind \in Kinds /\ e.key \in Keys /\ e.value \in Values /\ e.count \in Int
        /\ e.active \in BOOLEAN
    BY DEF Entry
  <1> QED
    BY <1>2, <1>3 DEF Over, Entry, Held

\* Records that hold the same are the same.
LEMMA AlikeAreEqual ==
  ASSUME NEW p \in Entry, NEW e \in Entry, p.kind = e.kind, p.key = e.key, Held(p) = Held(e),
         p.code = e.code
  PROVE  p = e
  <1>1. p.value = e.value /\ p.count = e.count /\ p.active = e.active
    BY DEF Held
  <1> QED
    BY <1>1 DEF Entry

\* A record of a backup is put where its like is, or becomes the last one.
LEMMA PutApart ==
  ASSUME NEW s \in Seq(Entry), Apart(s), NEW e \in Entry
  PROVE  Put(s, e) \in Seq(Entry) /\ Apart(Put(s, e))
  <1> DEFINE at == Of(s, e.kind, e.key)
  <1>1. CASE at = {}
    BY <1>1, AppendedApart DEF Put, Same
  <1>2. CASE at # {}
    <2>1. at \in SUBSET Nat /\ at \subseteq DOMAIN s
      BY DEF Of
    <2>2. FirstOf(at) \in at
      BY <1>2, <2>1, FirstIsOne
    <2> DEFINE k == FirstOf(at)
               o == Over(s[k], e)
    <2>3. k \in DOMAIN s /\ s[k].kind = e.kind /\ s[k].key = e.key /\ s[k] \in Entry
      BY <2>2 DEF Of
    <2>4. o \in Entry /\ o.kind = s[k].kind /\ o.key = s[k].key
      BY <2>3, OverIs
    <2>5. Put(s, e) = [s EXCEPT ![k] = o]
      BY <1>2 DEF Put, Same
    <2> HIDE DEF k, o
    <2> QED
      BY <2>3, <2>4, <2>5, ReplacedApart
  <1> QED
    BY <1>1, <1>2

\* The lists after each record of a backup.
PutStages(b, saved, kind, n, g) ==
  g = [m \in 0..n |->
         IF m = 0 THEN b
         ELSE IF saved[m].kind = kind THEN Put(g[m - 1], saved[m]) ELSE g[m - 1]]

\* There are such, for every backup.
LEMMA PutStagesExist ==
  ASSUME NEW b, NEW saved, NEW kind, NEW n \in Nat
  PROVE  \E g : PutStages(b, saved, kind, n, g)
  <1> DEFINE T == {m \in Nat : \E g : PutStages(b, saved, kind, m, g)}
             After(p, l) == IF saved[l].kind = kind THEN Put(p, saved[l]) ELSE p
  <1>1. 0 \in T
    <2> DEFINE g == [l \in 0..0 |-> b]
    <2>1. PutStages(b, saved, kind, 0, g)
      BY DEF PutStages
    <2> QED
      BY <2>1
  <1>2. ASSUME NEW m \in 0..(n - 1), m \in T
        PROVE  m + 1 \in T
    <2>1. PICK h : PutStages(b, saved, kind, m, h)
      BY <1>2
    <2> DEFINE g == [l \in 0..(m + 1) |-> IF l = m + 1 THEN After(h[m], m + 1) ELSE h[l]]
    <2>2. \A l \in 0..m : h[l] = IF l = 0 THEN b ELSE After(h[l - 1], l)
      BY <2>1 DEF PutStages
    <2> HIDE DEF After
    <2>3. \A l \in 0..(m + 1) : g[l] = IF l = 0 THEN b ELSE After(g[l - 1], l)
      <3> TAKE l \in 0..(m + 1)
      <3>1. CASE l = m + 1
        <4>1. l \in 0..(m + 1) /\ l - 1 = m /\ m \in 0..(m + 1) /\ m # m + 1 /\ l # 0
          BY <3>1
        <4> QED
          BY <3>1, <4>1
      <3>2. CASE l # m + 1 /\ l = 0
        BY <2>2, <3>2
      <3>3. CASE l # m + 1 /\ l # 0
        <4>1. l \in 0..m /\ l - 1 \in 0..(m + 1) /\ l - 1 # m + 1
          BY <3>3
        <4> QED
          BY <2>2, <3>3, <4>1
      <3> QED
        BY <3>1, <3>2, <3>3
    <2>4. PutStages(b, saved, kind, m + 1, g)
      <3> HIDE DEF g
      <3>1. g = [l \in 0..(m + 1) |-> g[l]]
        BY DEF g
      <3>2. g = [l \in 0..(m + 1) |-> IF l = 0 THEN b ELSE After(g[l - 1], l)]
        BY <2>3, <3>1
      <3> QED
        BY <3>2 DEF PutStages, After
    <2>5. m + 1 \in Nat
      OBVIOUS
    <2> QED
      BY <2>4, <2>5
  <1> HIDE DEF T
  <1>3. n \in T
    BY <1>1, <1>2, Climbs
  <1> QED
    BY <1>3 DEF T

\* What a restore of a kind leaves is the last of these lists.
RestoreStages(b, saved, kind, g) ==
  /\ g[0] = b /\ Restored(b, saved, kind) = g[Len(saved)]
  /\ \A m \in 0..(Len(saved) - 1) :
       g[m + 1] = IF saved[m + 1].kind = kind THEN Put(g[m], saved[m + 1]) ELSE g[m]

\* And there are such lists.
LEMMA RestoredInStages ==
  ASSUME NEW b, NEW saved \in Seq(Entry), NEW kind
  PROVE  \E g : RestoreStages(b, saved, kind, g)
  <1> DEFINE n == Len(saved)
             g == CHOOSE h : PutStages(b, saved, kind, n, h)
  <1>1. n \in Nat
    OBVIOUS
  <1>2. PutStages(b, saved, kind, n, g)
    BY <1>1, PutStagesExist
  <1>3. Restored(b, saved, kind) = g[n]
    BY DEF Restored, PutStages
  <1> HIDE DEF g
  <1>4. \A m \in 0..n : g[m] = IF m = 0 THEN b
                               ELSE IF saved[m].kind = kind THEN Put(g[m - 1], saved[m])
                               ELSE g[m - 1]
    BY <1>2 DEF PutStages
  <1>5. g[0] = b
    BY <1>1, <1>4
  <1>6. ASSUME NEW m \in 0..(n - 1)
        PROVE  g[m + 1] = IF saved[m + 1].kind = kind THEN Put(g[m], saved[m + 1]) ELSE g[m]
    <2>1. m + 1 \in 0..n /\ m + 1 # 0 /\ m + 1 - 1 = m
      BY <1>1
    <2> QED
      BY <1>4, <2>1
  <1> QED
    BY <1>3, <1>5, <1>6 DEF RestoreStages

\* Whatever is restored of a kind leaves skus apart.
LEMMA RestoredApart ==
  ASSUME NEW b \in Seq(Entry), Apart(b), NEW saved \in Seq(Entry), NEW kind
  PROVE  Restored(b, saved, kind) \in Seq(Entry) /\ Apart(Restored(b, saved, kind))
  <1> DEFINE n == Len(saved)
  <1>0. PICK g : RestoreStages(b, saved, kind, g)
    BY RestoredInStages
  <1>1. /\ g[0] = b /\ Restored(b, saved, kind) = g[n]
        /\ \A m \in 0..(n - 1) :
             g[m + 1] = IF saved[m + 1].kind = kind THEN Put(g[m], saved[m + 1]) ELSE g[m]
    BY <1>0 DEF RestoreStages
  <1> DEFINE T == {m \in 0..n : g[m] \in Seq(Entry) /\ Apart(g[m])}
  <1>2. n \in Nat /\ 0 \in T
    BY <1>1
  <1>3. ASSUME NEW m \in 0..(n - 1), m \in T
        PROVE  m + 1 \in T
    <2>1. m + 1 \in 0..n /\ saved[m + 1] \in Entry
      BY <1>2
    <2>2. g[m + 1] \in Seq(Entry) /\ Apart(g[m + 1])
      BY <1>1, <1>3, <2>1, PutApart
    <2> QED
      BY <2>1, <2>2
  <1>4. \A m \in 0..n : m \in T
    <2> HIDE DEF T
    <2> QED
      BY <1>2, <1>3, Climbs
  <1> QED
    BY <1>1, <1>2, <1>4
-----------------------------------------------------------------------------
(* Catalog: every step keeps it *)

\* What changes more than the records an import makes ends what is told of it.
LEMMA UntoldKeeps ==
  ASSUME CatalogInv, before' = Untold, records' \in Seq(Entry), Apart(records'),
         creating' \subseteq Checked, backup' = backup, UNCHANGED <<file, row, failed>>
  PROVE  CatalogInv'
  BY DEF CatalogInv, CatalogTyped, Importing

\* What is stored, changed or restored beside an import keeps the invariant.
LEMMA OneByOneKeeps ==
  ASSUME CatalogInv,
         \/ \E k \in Keys, v \in Values, c \in Codes \cup {NoCode}, n \in 0..1 :
              createProduct([key |-> k, value |-> v, count |-> n, code |-> c])
         \/ \E p \in creating : StoreProduct(p)
         \/ \E kind \in Kinds, k \in Keys, v \in Values, c \in Codes \cup {NoCode} :
              createParty(kind, k, v, c)
         \/ \E i \in DOMAIN records :
              \/ \E k \in Keys, v \in Values, c \in Codes \cup {NoCode, Blank}, a \in BOOLEAN :
                   updateRecord(i, k, v, c, a)
              \/ deleteRecord(i)
              \/ \E d \in {-1, 1} : Moves(i, d)
         \/ restoreTenantBackup
  PROVE  CatalogInv'
  <1>0. records \in Seq(Entry) /\ Apart(records) /\ creating \subseteq Checked
    BY DEF CatalogInv, CatalogTyped
  <1>1. ASSUME NEW k \in Keys, NEW v \in Values, NEW c \in Codes \cup {NoCode}, NEW n \in 0..1,
               createProduct([key |-> k, value |-> v, count |-> n, code |-> c])
        PROVE  CatalogInv'
    <2>1. [key |-> k, value |-> v, count |-> n, code |-> c] \in Checked
      BY DEF Checked
    <2>2. creating' \subseteq Checked /\ records' = records
      BY <1>0, <1>1, <2>1 DEF createProduct
    <2> QED
      BY <1>0, <1>1, <2>2, UntoldKeeps DEF createProduct, Change, NoImport
  <1>2. ASSUME NEW p \in creating, StoreProduct(p)
        PROVE  CatalogInv'
    <2> DEFINE e == Record("product", p.key, p.value, p.count, p.code)
    <2>1. e \in Entry /\ e.kind = "product" /\ e.key = p.key
      BY <1>0 DEF Record, Entry, Checked, Kinds
    <2> HIDE DEF e
    <2>2. records' \in Seq(Entry) /\ Apart(records')
      <3>1. CASE Inserts(p)
        <4>1. records' = Append(records, e)
          BY <1>2, <3>1 DEF StoreProduct, e
        <4> QED
          BY <1>0, <2>1, <3>1, <4>1, AppendedApart DEF Inserts
      <3>2. CASE ~Inserts(p)
        BY <1>0, <1>2, <3>2 DEF StoreProduct
      <3> QED
        BY <3>1, <3>2
    <2>3. creating' \subseteq Checked
      BY <1>0, <1>2 DEF StoreProduct
    <2> QED
      BY <1>2, <2>2, <2>3, UntoldKeeps DEF StoreProduct, NoImport
  <1>3. ASSUME NEW kind \in Kinds, NEW k \in Keys, NEW v \in Values,
               NEW c \in Codes \cup {NoCode}, createParty(kind, k, v, c)
        PROVE  CatalogInv'
    <2> DEFINE e == Record(kind, k, v, 0, c)
    <2>1. e \in Entry /\ e.kind # "product" /\ records' = Append(records, e)
      BY <1>3 DEF Record, Entry, createParty
    <2> HIDE DEF e
    <2>2. records' \in Seq(Entry) /\ Apart(records')
      BY <1>0, <2>1, AppendedApart
    <2> QED
      BY <1>0, <1>3, <2>2, UntoldKeeps DEF createParty, Change, NoImport
  <1>4. ASSUME NEW i \in DOMAIN records, NEW k \in Keys, NEW v \in Values,
               NEW c \in Codes \cup {NoCode, Blank}, NEW a \in BOOLEAN, updateRecord(i, k, v, c, a)
        PROVE  CatalogInv'
    <2> DEFINE e == [kind |-> records[i].kind, key |-> k, value |-> v, count |-> records[i].count,
                     code |-> Kept(records[i].code, c), active |-> a]
    <2>1. /\ e \in Entry /\ e.kind = records[i].kind
          /\ e.kind = "product" => e.key = records[i].key
      <3>1. records[i] \in Entry
        BY <1>0
      <3>2. /\ records[i].kind \in Kinds /\ records[i].count \in Int
            /\ records[i].code \in Codes \cup {NoCode, Blank}
        BY <3>1 DEF Entry
      <3>3. Kept(records[i].code, c) \in Codes \cup {NoCode, Blank}
        BY <3>2 DEF Kept
      <3>4. e \in Entry
        BY <3>2, <3>3 DEF Entry
      <3> QED
        BY <1>4, <3>4 DEF updateRecord
    <2>2. records' = [records EXCEPT ![i] = e]
      BY <1>4 DEF updateRecord
    <2> HIDE DEF e
    <2>3. records' \in Seq(Entry) /\ Apart(records')
      BY <1>0, <2>1, <2>2, ReplacedApart
    <2> QED
      BY <1>0, <1>4, <2>3, UntoldKeeps DEF updateRecord, Change, NoImport
  <1>5. ASSUME NEW i \in DOMAIN records, deleteRecord(i)
        PROVE  CatalogInv'
    <2> DEFINE e == [records[i] EXCEPT !.active = FALSE]
    <2>1. e \in Entry /\ e.kind = records[i].kind /\ e.key = records[i].key
      <3>1. records[i] \in Entry
        BY <1>0
      <3> QED
        BY <3>1 DEF Entry
    <2>2. records' = [records EXCEPT ![i] = e]
      BY <1>5 DEF deleteRecord
    <2> HIDE DEF e
    <2>3. records' \in Seq(Entry) /\ Apart(records')
      BY <1>0, <2>1, <2>2, ReplacedApart
    <2> QED
      BY <1>0, <1>5, <2>3, UntoldKeeps DEF deleteRecord, Change, NoImport
  <1>6. ASSUME NEW i \in DOMAIN records, NEW d \in {-1, 1}, Moves(i, d)
        PROVE  CatalogInv'
    <2> DEFINE e == [records[i] EXCEPT !.count = @ + d]
    <2>1. e \in Entry /\ e.kind = records[i].kind /\ e.key = records[i].key
      <3>1. records[i] \in Entry
        BY <1>0
      <3> QED
        BY <3>1 DEF Entry
    <2>2. records' = [records EXCEPT ![i] = e]
      BY <1>6 DEF Moves
    <2> HIDE DEF e
    <2>3. records' \in Seq(Entry) /\ Apart(records')
      BY <1>0, <2>1, <2>2, ReplacedApart
    <2> QED
      BY <1>0, <1>6, <2>3, UntoldKeeps DEF Moves, Change, NoImport
  <1>7. CASE restoreTenantBackup
    <2>1. backup \in Seq(Entry)
      BY <1>7 DEF restoreTenantBackup, CatalogInv, CatalogTyped
    <2>2. Restoring(records, backup) \in Seq(Entry) /\ Apart(Restoring(records, backup))
      BY <1>0, <2>1, RestoredApart DEF Restoring
    <2> QED
      BY <1>0, <1>7, <2>2, UntoldKeeps DEF restoreTenantBackup, Change, NoImport
  <1> QED
    BY <1>1, <1>2, <1>3, <1>4, <1>5, <1>6, <1>7

\* An import begins, goes on, fails in a row, ends or dies.
LEMMA ImportsKeep ==
  ASSUME CatalogInv,
         \/ \E f \in Files : importProducts(f)
         \/ ImportRow \/ RowFails \/ ImportEnds \/ Dies
         \/ exportTenantBackup
  PROVE  CatalogInv'
  <1>0. /\ records \in Seq(Entry) /\ Apart(records) /\ creating \subseteq Checked
        /\ IsFile(file) /\ row \in Int /\ row >= -1 /\ row <= Len(file) + 1
        /\ file \in Files \cup {NoFile}
    BY FilesAreFiles DEF CatalogInv, CatalogTyped, IsFile
  <1>1. ASSUME NEW f \in Files, importProducts(f)
        PROVE  CatalogInv'
    <2>1. IsFile(f)
      BY FilesAreFiles
    <2>2. CatalogTyped'
      <3>1. file' = f /\ Len(f) \in Nat /\ row' = 1
        BY <1>1, <2>1 DEF importProducts, IsFile
      <3>2. row' \in -1..(Len(file') + 1)
        BY <3>1
      <3> QED
        BY <1>0, <1>1, <3>2 DEF importProducts, CatalogInv, CatalogTyped
    <2>3. before' # Untold => KeptFrom(before', file', records')
      <3>1. CASE before # Untold /\ f = file
        BY <1>1, <3>1 DEF importProducts, CatalogInv, Importing
      <3>2. CASE ~(before # Untold /\ f = file)
        BY <1>0, <1>1, <3>2 DEF importProducts, KeptFrom, KeptOne, WasCount, WasCode
      <3> QED
        BY <3>1, <3>2
    <2>4. SettledTo(file', 1, records')
      BY DEF SettledTo, SettledOne
    <2> QED
      BY <1>0, <1>1, <2>2, <2>3, <2>4 DEF importProducts, CatalogInv, Importing
  <1>2. CASE ImportRow
    <2> DEFINE made == Imported(records, file[row])
    <2>1. /\ row \in DOMAIN file /\ row' = row + 1 /\ records' = made /\ row >= 1
          /\ UNCHANGED <<creating, file, failed, before, backup>>
      BY <1>0, <1>2 DEF ImportRow, IsFile
    <2>2. made \in Seq(Entry) /\ Apart(made)
      <3>1. CASE file[row].value \in Values
        <4>1. Row(file[row])
          BY <1>0, <2>1, <3>1 DEF IsFile
        <4>2. PICK k : ImportedAt(records, file[row], made, k)
          BY <1>0, <4>1, ImportedIsAt
        <4> QED
          BY <1>0, <4>2, ImportedApart DEF ImportedAt
      <3>2. CASE file[row].value \notin Values
        BY <1>0, <3>2 DEF Imported
      <3> QED
        BY <3>1, <3>2
    <2>3. CatalogTyped'
      BY <1>0, <2>1, <2>2 DEF CatalogInv, CatalogTyped, IsFile
    <2>4. before # Untold => KeptFrom(before, file, made)
      BY <1>0, <2>1, ImportKeeps DEF CatalogInv, Importing
    <2>5. before # Untold /\ ~failed => SettledTo(file, row + 1, made)
      BY <1>0, <2>1, ImportSettles DEF CatalogInv, Importing
    <2> HIDE DEF made
    <2>6. row' # 0
      BY <1>0, <2>1
    <2> QED
      BY <2>1, <2>2, <2>3, <2>4, <2>5, <2>6 DEF CatalogInv, Importing
  <1>3. CASE RowFails
    BY <1>0, <1>3 DEF RowFails, CatalogInv, CatalogTyped, Importing, IsFile
  <1>4. CASE ImportEnds
    <2>1. row = Len(file) + 1 /\ row' = 0 /\ row # 0 /\ Len(file) \in Nat
      BY <1>0, <1>4 DEF ImportEnds, IsFile
    <2> QED
      BY <1>0, <1>4, <2>1 DEF ImportEnds, CatalogInv, CatalogTyped, Importing
  <1>5. CASE Dies
    <2>1. Len(file) \in Nat
      BY <1>0 DEF IsFile
    <2>2. CatalogTyped' /\ Apart(records')
      BY <1>0, <1>5, <2>1 DEF Dies, CatalogInv, CatalogTyped
    <2>3. row' = -1 \/ row' = row
      BY <1>5 DEF Dies
    <2> QED
      BY <1>5, <2>2, <2>3 DEF Dies, CatalogInv, Importing
  <1>6. CASE exportTenantBackup
    BY <1>0, <1>6 DEF exportTenantBackup, CatalogInv, CatalogTyped, Importing
  <1> QED
    BY <1>1, <1>2, <1>3, <1>4, <1>5, <1>6

\* Every step keeps the invariant.
LEMMA CatalogSteps == CatalogInv /\ [CatalogNext]_catalogVars => CatalogInv'
  <1> SUFFICES ASSUME CatalogInv, [CatalogNext]_catalogVars PROVE CatalogInv'
    OBVIOUS
  <1>1. CASE UNCHANGED catalogVars
    BY <1>1 DEF catalogVars, CatalogInv, CatalogTyped, Apart, Importing
  <1>2. CASE CatalogNext
    BY <1>2, OneByOneKeeps, ImportsKeep DEF CatalogNext
  <1> QED
    BY <1>1, <1>2

\* What it says of a finished import.
LEMMA ImportsRepeat == CatalogInv => ImportIsRepeatable
  <1> SUFFICES ASSUME CatalogInv PROVE ImportIsRepeatable
    OBVIOUS
  <1>1. SkusApart
    BY DEF CatalogInv, Apart, SkusApart, Of
  <1>2. ASSUME row = 0, ~failed, before # Untold
        PROVE  /\ SameRecords(records, ImportedAll(before, file))
               /\ \A i \in DOMAIN before :
                    (\A n \in DOMAIN file :
                       file[n].key = before[i].key => file[n].count = NoColumn)
                      => records[i].count = before[i].count
    <2>1. KeptFrom(before, file, records) /\ SettledTo(file, Len(file) + 1, records)
      BY <1>2 DEF CatalogInv, Importing
    <2>2. IsFile(file)
      BY FilesAreFiles DEF CatalogInv, CatalogTyped
    <2>3. /\ before \in Seq(Entry) /\ records \in Seq(Entry) /\ Len(before) <= Len(records)
      BY <2>1 DEF KeptFrom
    <2>4. DOMAIN before \subseteq DOMAIN records
      BY <2>3
    <2>5. Apart(before)
      <3>1. \A i \in DOMAIN before :
              records[i].kind = before[i].kind /\ records[i].key = before[i].key
        BY <2>1, <2>4 DEF KeptFrom, KeptOne
      <3> QED
        BY <2>1, <2>4, <3>1 DEF KeptFrom, Apart
    <2>6. SameRecords(records, ImportedAll(before, file))
      BY <2>1, <2>2, <2>3, <2>5, ImportedAllIsTold, ToldAlike
    <2>7. ASSUME NEW i \in DOMAIN before,
                 \A n \in DOMAIN file :
                   file[n].key = before[i].key => file[n].count = NoColumn
          PROVE  records[i].count = before[i].count
      <3>1. KeptOne(before, file, records, i) /\ records[i].key = before[i].key
        BY <2>1, <2>4 DEF KeptFrom, KeptOne
      <3>2. \A n : ~Tallies(file, n, records[i])
        BY <2>7, <3>1 DEF Tallies, Tells
      <3> QED
        BY <3>1, <3>2 DEF KeptOne, WasCount
    <2> QED
      BY <2>6, <2>7
  <1> QED
    BY <1>1, <1>2 DEF ImportIsRepeatable

\* For every file, and whatever else is stored between: an import that died or failed in some
\* rows, any number of times and anywhere, and was repeated leaves what it would have left at
\* once, moves no stock its file does not count, and keeps skus apart.
THEOREM ImportsStayRepeatable == CatalogSpec => []ImportIsRepeatable
  BY CatalogStarts, CatalogSteps, ImportsRepeat, PTL DEF CatalogSpec
-----------------------------------------------------------------------------
(* Catalog: what a restore gives back *)

\* u is s with e put at k, the first place of what is named like e.
PutAt(s, e, u, k) ==
  /\ u \in Seq(Entry) /\ DOMAIN u = DOMAIN s \cup {k}
  /\ u[k].kind = e.kind /\ u[k].key = e.key /\ Held(u[k]) = Held(e)
  /\ u[k].code = Kept(WasCode(s, k), e.code)
  /\ \A i \in DOMAIN s : i # k => u[i] = s[i]
  /\ k \in DOMAIN s => s[k].kind = e.kind /\ s[k].key = e.key
  /\ Of(s, e.kind, e.key) # {} => k = FirstOf(Of(s, e.kind, e.key))
  /\ k \in Of(u, e.kind, e.key) /\ \A i \in Of(u, e.kind, e.key) : k <= i

\* The first of some places is the one that is none after another.
LEMMA FirstIs ==
  ASSUME NEW S \in SUBSET Nat, NEW k \in S, \A i \in S : k <= i
  PROVE  FirstOf(S) = k
  <1>1. FirstOf(S) \in S /\ \A i \in S : FirstOf(S) <= i
    BY FirstIsOne
  <1>2. FirstOf(S) <= k /\ k <= FirstOf(S) /\ FirstOf(S) \in Nat /\ k \in Nat
    BY <1>1
  <1> QED
    BY <1>2

\* There it is put.
LEMMA PutIsAt ==
  ASSUME NEW s \in Seq(Entry), NEW e \in Entry
  PROVE  \E k : PutAt(s, e, Put(s, e), k)
  <1> DEFINE at == Of(s, e.kind, e.key)
             u == Put(s, e)
  <1>0. DOMAIN s = 1..Len(s) /\ Len(s) \in Nat
    OBVIOUS
  <1>1. CASE at # {}
    <2> DEFINE k == FirstOf(at)
               o == Over(s[k], e)
    <2>1. at \in SUBSET Nat
      BY <1>0 DEF Of
    <2>2. k \in at /\ \A i \in at : k <= i
      BY <1>1, <2>1, FirstIsOne
    <2>3. k \in DOMAIN s /\ s[k].kind = e.kind /\ s[k].key = e.key /\ s[k] \in Entry
      BY <2>2 DEF Of
    <2>4. u = [s EXCEPT ![k] = o]
      BY <1>1 DEF Put, Same
    <2>5. o \in Entry /\ o.kind = e.kind /\ o.key = e.key /\ Held(o) = Held(e)
          /\ o.code = Kept(s[k].code, e.code)
      BY <2>3, OverIs
    <2> HIDE DEF at, k, u, o
    <2>6. /\ u \in Seq(Entry) /\ DOMAIN u = DOMAIN s /\ u[k] = o
          /\ \A i \in DOMAIN s : i # k => u[i] = s[i]
      BY <2>3, <2>4, <2>5
    <2>7. Of(u, e.kind, e.key) = at
      BY <2>3, <2>5, <2>6 DEF Of, at
    <2>8. WasCode(s, k) = s[k].code
      BY <2>3 DEF WasCode
    <2>9. PutAt(s, e, u, k)
      BY <2>2, <2>3, <2>5, <2>6, <2>7, <2>8 DEF PutAt, at, k
    <2> QED
      BY <2>9 DEF u
  <1>2. CASE at = {}
    <2> DEFINE k == Len(s) + 1
    <2>1. u = Append(s, e)
      BY <1>2 DEF Put, Same
    <2>2. at = {} /\ \A i \in DOMAIN s : ~(s[i].kind = e.kind /\ s[i].key = e.key)
      BY <1>2 DEF Of
    <2> HIDE DEF at, u
    <2>3. /\ u \in Seq(Entry) /\ DOMAIN u = 1..(Len(s) + 1) /\ u[k] = e
          /\ \A i \in DOMAIN s : u[i] = s[i]
      BY <1>0, <2>1
    <2>4. DOMAIN u = DOMAIN s \cup {k} /\ k \notin DOMAIN s /\ k \in Nat
      BY <1>0, <2>3
    <2>5. Of(u, e.kind, e.key) = {k}
      BY <2>2, <2>3, <2>4 DEF Of
    <2>6. e.code = Kept(WasCode(s, k), e.code)
      BY <2>4 DEF WasCode, Kept
    <2>7. PutAt(s, e, u, k)
      BY <2>2, <2>3, <2>4, <2>5, <2>6 DEF PutAt, at
    <2> QED
      BY <2>7 DEF u
  <1> QED
    BY <1>1, <1>2

\* Row l of a backup names a document, and brings the field that it may lack.
Names(saved, l, kind, key) == saved[l].kind = kind /\ saved[l].key = key
Brings(saved, l, kind, key) == Names(saved, l, kind, key) /\ saved[l].code # NoCode

\* Of the first n rows of saved with its name, the last is at the first place with that name, and
\* the last that brings a code has given it that.
GivenOne(saved, kind, n, s, i) ==
  LET at == Of(s, kind, saved[i].key) IN
  /\ at # {}
  /\ (\A l \in (i + 1)..n : ~Names(saved, l, kind, saved[i].key))
       => Held(s[FirstOf(at)]) = Held(saved[i])
  /\ saved[i].code # NoCode /\ (\A l \in (i + 1)..n : ~Brings(saved, l, kind, saved[i].key))
       => s[FirstOf(at)].code = saved[i].code
GivenTo(saved, kind, n, s) ==
  \A i \in 1..n : saved[i].kind = kind => GivenOne(saved, kind, n, s, i)

\* Putting the next row gives it back, and takes back no other.
LEMMA PutGives ==
  ASSUME NEW s \in Seq(Entry), NEW saved \in Seq(Entry), NEW n \in 0..(Len(saved) - 1),
         NEW kind, saved[n + 1].kind = kind, GivenTo(saved, kind, n, s)
  PROVE  GivenTo(saved, kind, n + 1, Put(s, saved[n + 1]))
  <1> DEFINE e == saved[n + 1]
             u == Put(s, e)
  <1>0. n + 1 \in DOMAIN saved /\ e \in Entry /\ e.kind = kind /\ n \in Nat
    OBVIOUS
  <1> HIDE DEF e
  <1>1. PICK k : PutAt(s, e, u, k)
    BY <1>0, PutIsAt
  <1> HIDE DEF u
  <1>2. ASSUME NEW i \in 1..(n + 1), saved[i].kind = kind
        PROVE  GivenOne(saved, kind, n + 1, u, i)
    <2> DEFINE at == Of(u, kind, saved[i].key)
               was == Of(s, kind, saved[i].key)
    <2>0. at \in SUBSET Nat /\ was \in SUBSET Nat /\ was \subseteq DOMAIN s
      <3>1. u \in Seq(Entry) /\ DOMAIN u \subseteq Nat /\ DOMAIN s \subseteq Nat
        BY <1>1 DEF PutAt
      <3>2. at \subseteq DOMAIN u /\ was \subseteq DOMAIN s
        BY DEF Of
      <3> QED
        BY <3>1, <3>2
    <2>1. CASE saved[i].key = e.key
      <3>1. k \in at /\ FirstOf(at) = k
        <4>1. k \in at /\ \A j \in at : k <= j
          BY <1>0, <1>1, <2>1 DEF PutAt
        <4> QED
          BY <2>0, <4>1, FirstIs
      <3>2. CASE i = n + 1
        BY <1>1, <3>1, <3>2 DEF GivenOne, PutAt, Kept, e
      <3>3. CASE i # n + 1
        <4>1. i \in 1..n /\ n + 1 \in (i + 1)..(n + 1)
          BY <1>0, <3>3
        <4>2. GivenOne(saved, kind, n, s, i) /\ Names(saved, n + 1, kind, saved[i].key)
          BY <1>0, <1>2, <2>1, <4>1 DEF GivenTo, Names, e
        <4>3. was # {} /\ k = FirstOf(was) /\ k \in DOMAIN s
          <5>1. was # {}
            BY <4>2 DEF GivenOne
          <5>2. k = FirstOf(was)
            BY <1>0, <1>1, <2>1, <5>1 DEF PutAt
          <5> QED
            BY <2>0, <5>1, <5>2, FirstIsOne
        <4>4. ASSUME saved[i].code # NoCode,
                     \A l \in (i + 1)..(n + 1) : ~Brings(saved, l, kind, saved[i].key)
              PROVE  u[k].code = saved[i].code
          <5>1. e.code = NoCode
            BY <4>1, <4>2, <4>4 DEF Brings, e
          <5>2. \A l \in (i + 1)..n : ~Brings(saved, l, kind, saved[i].key)
            BY <1>0, <4>4
          <5>3. s[k].code = saved[i].code
            BY <4>2, <4>3, <4>4, <5>2 DEF GivenOne
          <5>4. u[k].code = Kept(WasCode(s, k), e.code)
            BY <1>1 DEF PutAt
          <5> QED
            BY <4>3, <5>1, <5>3, <5>4 DEF Kept, WasCode
        <4> QED
          BY <3>1, <4>1, <4>2, <4>4 DEF GivenOne
      <3> QED
        BY <3>2, <3>3
    <2>2. CASE saved[i].key # e.key
      <3>1. i \in 1..n
        BY <1>0, <2>2 DEF e
      <3>2. \A l \in (i + 1)..n : l \in (i + 1)..(n + 1)
        BY <1>0
      <3>3. GivenOne(saved, kind, n, s, i)
        BY <1>2, <3>1 DEF GivenTo
      <3>4. at = was /\ k \notin was
        BY <1>1, <2>2 DEF PutAt, Of
      <3>5. was # {} /\ FirstOf(was) \in was
        BY <2>0, <3>3, FirstIsOne DEF GivenOne
      <3>6. u[FirstOf(was)] = s[FirstOf(was)]
        BY <1>1, <2>0, <3>4, <3>5 DEF PutAt
      <3> QED
        BY <3>2, <3>3, <3>4, <3>6 DEF GivenOne
    <2> QED
      BY <2>1, <2>2
  <1>3. GivenTo(saved, kind, n + 1, u)
    BY <1>2 DEF GivenTo
  <1> QED
    BY <1>3 DEF u, e

\* Nor does putting what is of another kind.
LEMMA PutTakesNone ==
  ASSUME NEW s \in Seq(Entry), NEW saved, NEW n \in Nat, NEW kind, GivenTo(saved, kind, n, s),
         NEW e \in Entry, e.kind # kind
  PROVE  GivenTo(saved, kind, n, Put(s, e))
  <1> DEFINE u == Put(s, e)
  <1>1. PICK k : PutAt(s, e, u, k)
    BY PutIsAt
  <1> HIDE DEF u
  <1>2. ASSUME NEW key, Of(s, kind, key) # {}
        PROVE  /\ Of(u, kind, key) = Of(s, kind, key)
               /\ u[FirstOf(Of(s, kind, key))] = s[FirstOf(Of(s, kind, key))]
    <2>1. Of(u, kind, key) = Of(s, kind, key) /\ k \notin Of(s, kind, key)
      BY <1>1 DEF PutAt, Of
    <2>2. Of(s, kind, key) \in SUBSET Nat /\ Of(s, kind, key) \subseteq DOMAIN s
      BY DEF Of
    <2>3. FirstOf(Of(s, kind, key)) \in Of(s, kind, key)
      BY <1>2, <2>2, FirstIsOne
    <2> QED
      BY <1>1, <2>1, <2>2, <2>3 DEF PutAt
  <1>3. GivenTo(saved, kind, n, u)
    BY <1>2 DEF GivenTo, GivenOne
  <1> QED
    BY <1>3 DEF u

\* u is s, with documents put over and added: a code that no row brings is as it was.
Unbrought(saved, s, u) ==
  /\ DOMAIN s \subseteq DOMAIN u
  /\ \A i \in DOMAIN s : u[i].kind = s[i].kind /\ u[i].key = s[i].key
  /\ \A i \in DOMAIN u :
       \/ \E l \in DOMAIN saved : Brings(saved, l, u[i].kind, u[i].key)
       \/ u[i].code = WasCode(s, i)

\* So does putting a row leave it.
LEMMA PutUnbrought ==
  ASSUME NEW s \in Seq(Entry), NEW saved \in Seq(Entry), NEW m \in DOMAIN saved
  PROVE  Unbrought(saved, s, Put(s, saved[m]))
  <1> DEFINE e == saved[m]
             u == Put(s, e)
  <1>1. e \in Entry
    OBVIOUS
  <1> HIDE DEF e
  <1>2. PICK k : PutAt(s, e, u, k)
    BY <1>1, PutIsAt
  <1> HIDE DEF u
  <1>3. DOMAIN u = DOMAIN s \cup {k}
    BY <1>2 DEF PutAt
  <1>4. \A i \in DOMAIN s : u[i].kind = s[i].kind /\ u[i].key = s[i].key
    BY <1>2 DEF PutAt
  <1>5. ASSUME NEW i \in DOMAIN u
        PROVE  \/ \E l \in DOMAIN saved : Brings(saved, l, u[i].kind, u[i].key)
               \/ u[i].code = WasCode(s, i)
    <2>1. CASE i # k
      <3>1. i \in DOMAIN s /\ u[i] = s[i]
        BY <1>2, <1>3, <2>1 DEF PutAt
      <3> QED
        BY <3>1 DEF WasCode
    <2>2. CASE i = k /\ e.code # NoCode
      <3>1. Brings(saved, m, u[i].kind, u[i].key)
        BY <1>2, <2>2 DEF PutAt, Brings, Names, e
      <3> QED
        BY <3>1
    <2>3. CASE i = k /\ e.code = NoCode
      BY <1>2, <2>3 DEF PutAt, Kept
    <2> QED
      BY <2>1, <2>2, <2>3
  <1>6. Unbrought(saved, s, u)
    BY <1>3, <1>4, <1>5 DEF Unbrought
  <1> QED
    BY <1>6 DEF u, e

\* And so do two one after the other.
LEMMA UnbroughtOn ==
  ASSUME NEW saved, NEW s, NEW t, NEW u, Unbrought(saved, s, t), Unbrought(saved, t, u)
  PROVE  Unbrought(saved, s, u)
  <1>1. DOMAIN s \subseteq DOMAIN t /\ DOMAIN t \subseteq DOMAIN u
    BY DEF Unbrought
  <1>2. \A i \in DOMAIN s : u[i].kind = s[i].kind /\ u[i].key = s[i].key
    BY <1>1 DEF Unbrought
  <1>3. ASSUME NEW i \in DOMAIN u
        PROVE  \/ \E l \in DOMAIN saved : Brings(saved, l, u[i].kind, u[i].key)
               \/ u[i].code = WasCode(s, i)
    <2>1. CASE i \in DOMAIN t
      <3>1. u[i].kind = t[i].kind /\ u[i].key = t[i].key /\ WasCode(t, i) = t[i].code
        BY <2>1 DEF Unbrought, WasCode
      <3> QED
        BY <2>1, <3>1 DEF Unbrought
    <2>2. CASE i \notin DOMAIN t
      <3>1. WasCode(t, i) = NoCode /\ WasCode(s, i) = NoCode
        BY <1>1, <2>2 DEF WasCode
      <3> QED
        BY <3>1 DEF Unbrought
    <2> QED
      BY <2>1, <2>2
  <1> QED
    BY <1>1, <1>2, <1>3 DEF Unbrought

\* A restored kind is all given back, one restored before it still is, and what the backup does
\* not name or bring is where it was.
LEMMA RestoredGives ==
  ASSUME NEW s \in Seq(Entry), NEW saved \in Seq(Entry), NEW kind
  PROVE  LET u == Restored(s, saved, kind) IN
         /\ GivenTo(saved, kind, Len(saved), u)
         /\ \A other : other # kind /\ GivenTo(saved, other, Len(saved), s)
                       => GivenTo(saved, other, Len(saved), u)
         /\ \A i \in DOMAIN s :
              Of(saved, s[i].kind, s[i].key) = {} => i \in DOMAIN u /\ u[i] = s[i]
         /\ Unbrought(saved, s, u)
  <1> DEFINE n == Len(saved)
  <1>a. PICK g : RestoreStages(s, saved, kind, g)
    BY RestoredInStages
  <1>1. /\ g[0] = s /\ Restored(s, saved, kind) = g[n]
        /\ \A m \in 0..(n - 1) :
             g[m + 1] = IF saved[m + 1].kind = kind THEN Put(g[m], saved[m + 1]) ELSE g[m]
    BY <1>a DEF RestoreStages
  <1> DEFINE Left(t) == \A i \in DOMAIN s :
                          Of(saved, s[i].kind, s[i].key) = {} => i \in DOMAIN t /\ t[i] = s[i]
             Both(t) == \A other : other # kind /\ GivenTo(saved, other, n, s)
                                   => GivenTo(saved, other, n, t)
             T == {m \in 0..n : /\ g[m] \in Seq(Entry)
                                /\ GivenTo(saved, kind, m, g[m]) /\ Both(g[m]) /\ Left(g[m])
                                /\ Unbrought(saved, s, g[m])}
  <1>2. n \in Nat /\ 0 \in T
    <2>1. Unbrought(saved, s, s)
      BY DEF Unbrought, WasCode
    <2> QED
      BY <1>1, <2>1 DEF GivenTo
  <1>3. ASSUME NEW m \in 0..(n - 1), m \in T
        PROVE  m + 1 \in T
    <2>1. m + 1 \in 0..n /\ saved[m + 1] \in Entry /\ m + 1 \in DOMAIN saved /\ m \in Nat
      BY <1>2
    <2>2. /\ g[m] \in Seq(Entry) /\ GivenTo(saved, kind, m, g[m]) /\ Both(g[m]) /\ Left(g[m])
          /\ Unbrought(saved, s, g[m])
      BY <1>3
    <2>3. CASE saved[m + 1].kind = kind
      <3>1. g[m + 1] = Put(g[m], saved[m + 1])
        BY <1>1, <2>3
      <3>2. PICK k : PutAt(g[m], saved[m + 1], g[m + 1], k)
        BY <2>1, <2>2, <3>1, PutIsAt
      <3>3. GivenTo(saved, kind, m + 1, g[m + 1])
        BY <2>2, <2>3, <3>1, PutGives
      <3>4. Both(g[m + 1])
        BY <1>2, <2>1, <2>2, <2>3, <3>1, PutTakesNone
      <3>5. Left(g[m + 1])
        BY <2>1, <2>2, <3>2 DEF PutAt, Of
      <3>6. g[m + 1] \in Seq(Entry)
        BY <3>2 DEF PutAt
      <3>7. Unbrought(saved, s, g[m + 1])
        <4>1. Unbrought(saved, g[m], g[m + 1])
          BY <2>1, <2>2, <3>1, PutUnbrought
        <4> QED
          BY <2>2, <4>1, UnbroughtOn
      <3> QED
        BY <2>1, <3>3, <3>4, <3>5, <3>6, <3>7
    <2>4. CASE saved[m + 1].kind # kind
      <3>1. g[m + 1] = g[m]
        BY <1>1, <2>4
      <3>2. GivenTo(saved, kind, m + 1, g[m])
        <4>1. \A i \in 1..(m + 1) : saved[i].kind = kind => i \in 1..m
          BY <2>1, <2>4
        <4>2. \A i \in 1..m : \A l \in (i + 1)..m : l \in (i + 1)..(m + 1)
          BY <2>1
        <4>3. ASSUME NEW i \in 1..m, GivenOne(saved, kind, m, g[m], i)
              PROVE  GivenOne(saved, kind, m + 1, g[m], i)
          BY <4>2, <4>3 DEF GivenOne
        <4> QED
          BY <2>2, <4>1, <4>3 DEF GivenTo
      <3> QED
        BY <2>1, <2>2, <3>1, <3>2
    <2> QED
      BY <2>3, <2>4
  <1>4. \A m \in 0..n : m \in T
    <2> HIDE DEF T
    <2> QED
      BY <1>2, <1>3, Climbs
  <1>5. n \in T
    BY <1>2, <1>4
  <1> QED
    BY <1>1, <1>5

\* Restored over itself, what holds all of a backup stays as it is.
LEMMA RestoredAgain ==
  ASSUME NEW s \in Seq(Entry), NEW saved \in Seq(Entry), NEW kind,
         GivenTo(saved, kind, Len(saved), s)
  PROVE  Restored(s, saved, kind) = s
  <1> DEFINE n == Len(saved)
  <1>0. n \in Nat /\ DOMAIN saved = 1..n
    OBVIOUS
  <1>a. PICK g : RestoreStages(s, saved, kind, g)
    BY RestoredInStages
  <1>1. /\ g[0] = s /\ Restored(s, saved, kind) = g[n]
        /\ \A m \in 0..(n - 1) :
             g[m + 1] = IF saved[m + 1].kind = kind THEN Put(g[m], saved[m + 1]) ELSE g[m]
    BY <1>a DEF RestoreStages
  <1> DEFINE Place(l) == FirstOf(Of(s, kind, saved[l].key))
             Later(m, i) == \E l \in (m + 1)..n : saved[l].kind = kind /\ i = Place(l)
             Dialed(m, i) == \E l \in (m + 1)..n :
                               saved[l].kind = kind /\ saved[l].code # NoCode /\ i = Place(l)
             Alike(m, i) == /\ g[m][i].kind = s[i].kind /\ g[m][i].key = s[i].key
                            /\ Held(g[m][i]) = Held(s[i]) \/ Later(m, i)
                            /\ g[m][i].code = s[i].code \/ Dialed(m, i)
             T == {m \in 0..n : /\ g[m] \in Seq(Entry) /\ DOMAIN g[m] = DOMAIN s
                                /\ \A i \in DOMAIN s : Alike(m, i)}
  <1>2. 0 \in T
    BY <1>0, <1>1
  <1>3. ASSUME NEW l \in 1..n, saved[l].kind = kind
        PROVE  /\ Place(l) \in DOMAIN s /\ s[Place(l)].kind = kind
               /\ s[Place(l)].key = saved[l].key /\ Of(s, kind, saved[l].key) # {}
               /\ Held(s[Place(l)]) = Held(saved[l]) \/ Later(l, Place(l))
               /\ \/ saved[l].code = NoCode
                  \/ s[Place(l)].code = saved[l].code \/ Dialed(l, Place(l))
    <2>1. GivenOne(saved, kind, n, s, l)
      BY <1>3 DEF GivenTo
    <2>2. Of(s, kind, saved[l].key) \in SUBSET Nat /\ Of(s, kind, saved[l].key) # {}
      BY <2>1 DEF Of, GivenOne
    <2>3. Place(l) \in Of(s, kind, saved[l].key)
      BY <2>2, FirstIsOne
    <2>4. ASSUME NEW m \in (l + 1)..n, Names(saved, m, kind, saved[l].key)
          PROVE  Later(l, Place(l)) /\ (Brings(saved, m, kind, saved[l].key) => Dialed(l, Place(l)))
      <3>1. saved[m].kind = kind /\ Place(l) = Place(m)
        BY <2>4 DEF Names
      <3> QED
        BY <3>1 DEF Brings
    <2>5. Held(s[Place(l)]) = Held(saved[l]) \/ Later(l, Place(l))
      BY <2>1, <2>4 DEF GivenOne
    <2>6. \/ saved[l].code = NoCode
          \/ s[Place(l)].code = saved[l].code \/ Dialed(l, Place(l))
      BY <2>1, <2>4 DEF GivenOne, Brings
    <2> QED
      BY <2>2, <2>3, <2>5, <2>6 DEF Of
  <1>4. ASSUME NEW m \in 0..(n - 1), m \in T
        PROVE  m + 1 \in T
    <2> DEFINE e == saved[m + 1]
               k == Place(m + 1)
    <2>1. m + 1 \in 0..n /\ m + 1 \in 1..n /\ e \in Entry /\ m \in Nat
      BY <1>0
    <2>2. /\ g[m] \in Seq(Entry) /\ DOMAIN g[m] = DOMAIN s
          /\ \A i \in DOMAIN s : Alike(m, i)
      BY <1>4
    <2>3. CASE e.kind = kind
      <3>1. /\ k \in DOMAIN s /\ s[k].kind = kind /\ s[k].key = e.key
            /\ Of(s, kind, e.key) # {}
            /\ Held(s[k]) = Held(e) \/ Later(m + 1, k)
            /\ e.code = NoCode \/ s[k].code = e.code \/ Dialed(m + 1, k)
        BY <1>3, <2>1, <2>3
      <3>2. Of(g[m], e.kind, e.key) = Of(s, kind, e.key)
        BY <2>2, <2>3 DEF Of
      <3>3. PICK x : PutAt(g[m], e, g[m + 1], x)
        BY <1>1, <2>1, <2>2, <2>3, PutIsAt
      <3>4. x = k
        <4>1. x = FirstOf(Of(g[m], e.kind, e.key))
          BY <3>1, <3>2, <3>3 DEF PutAt
        <4> QED
          BY <3>2, <4>1
      <3>5. /\ g[m + 1] \in Seq(Entry) /\ DOMAIN g[m + 1] = DOMAIN s
            /\ g[m + 1][k].kind = e.kind /\ g[m + 1][k].key = e.key
            /\ Held(g[m + 1][k]) = Held(e)
            /\ g[m + 1][k].code = Kept(WasCode(g[m], k), e.code)
            /\ \A i \in DOMAIN s : i # k => g[m + 1][i] = g[m][i]
        BY <2>2, <3>1, <3>3, <3>4 DEF PutAt
      <3>6. ASSUME NEW i \in DOMAIN s, i # k
            PROVE  /\ Later(m, i) => Later(m + 1, i)
                   /\ Dialed(m, i) => Dialed(m + 1, i)
        <4>1. ASSUME NEW l \in (m + 1)..n, i = Place(l)
              PROVE  l \in (m + 1 + 1)..n
          <5>1. l # m + 1
            BY <3>6, <4>1
          <5> QED
            BY <2>1, <5>1
        <4> QED
          BY <4>1
      <3>7. e.code = NoCode /\ Dialed(m, k) => Dialed(m + 1, k)
        <4>1. ASSUME NEW l \in (m + 1)..n, saved[l].code # NoCode, e.code = NoCode
              PROVE  l \in (m + 1 + 1)..n
          <5>1. l # m + 1
            BY <4>1
          <5> QED
            BY <2>1, <5>1
        <4> QED
          BY <4>1
      <3> HIDE DEF Place, Later, Dialed, e, k
      <3>8. g[m + 1][k].code = s[k].code \/ Dialed(m + 1, k)
        <4>1. WasCode(g[m], k) = g[m][k].code
          BY <2>2, <3>1 DEF WasCode
        <4> QED
          BY <2>2, <3>1, <3>5, <3>7, <4>1 DEF Kept
      <3>9. ASSUME NEW i \in DOMAIN s
            PROVE  Alike(m + 1, i)
        <4>1. CASE i = k
          BY <2>3, <3>1, <3>5, <3>8, <4>1
        <4>2. CASE i # k
          BY <2>2, <3>5, <3>6, <4>2
        <4> QED
          BY <4>1, <4>2
      <3> HIDE DEF Alike
      <3> QED
        BY <2>1, <3>5, <3>9
    <2>4. CASE e.kind # kind
      <3>1. g[m + 1] = g[m]
        BY <1>1, <2>4
      <3>2. ASSUME NEW i
            PROVE  /\ Later(m, i) => Later(m + 1, i)
                   /\ Dialed(m, i) => Dialed(m + 1, i)
        <4>1. ASSUME NEW l \in (m + 1)..n, saved[l].kind = kind
              PROVE  l \in (m + 1 + 1)..n
          BY <2>1, <2>4, <4>1
        <4> QED
          BY <4>1
      <3> HIDE DEF Place, Later, Dialed, e
      <3> QED
        BY <2>1, <2>2, <3>1, <3>2
    <2> QED
      BY <2>3, <2>4
  <1>5. \A m \in 0..n : m \in T
    <2> HIDE DEF T
    <2> QED
      BY <1>0, <1>2, <1>4, Climbs
  <1>6. n \in T /\ \A i : ~Later(n, i) /\ ~Dialed(n, i)
    BY <1>0, <1>5
  <1>7. /\ g[n] \in Seq(Entry) /\ DOMAIN g[n] = DOMAIN s
        /\ \A i \in DOMAIN s : Alike(n, i)
    BY <1>6
  <1>8. ASSUME NEW i \in DOMAIN s
        PROVE  g[n][i] = s[i]
    <2>1. g[n][i] \in Entry /\ s[i] \in Entry
      BY <1>7
    <2>2. /\ g[n][i].kind = s[i].kind /\ g[n][i].key = s[i].key
          /\ Held(g[n][i]) = Held(s[i]) /\ g[n][i].code = s[i].code
      BY <1>6, <1>7
    <2> QED
      BY <2>1, <2>2, AlikeAreEqual
  <1>9. g[n] = [i \in DOMAIN g[n] |-> g[n][i]] /\ s = [i \in DOMAIN s |-> s[i]]
    BY <1>7
  <1> QED
    BY <1>1, <1>7, <1>8, <1>9

\* What a restore makes of the records.
LEMMA RestoringGives ==
  ASSUME NEW s \in Seq(Entry), NEW saved \in Seq(Entry), Apart(s)
  PROVE  LET u == Restoring(s, saved) IN
         /\ u \in Seq(Entry)
         /\ \A kind \in Kinds : GivenTo(saved, kind, Len(saved), u)
         /\ \A i \in DOMAIN s :
              Of(saved, s[i].kind, s[i].key) = {} => i \in DOMAIN u /\ u[i] = s[i]
         /\ Unbrought(saved, s, u)
  <1> DEFINE n == Len(saved)
             p == Restored(s, saved, "product")
             q == Restored(p, saved, "customer")
             u == Restored(q, saved, "supplier")
  <1>1. p \in Seq(Entry) /\ Apart(p)
    BY RestoredApart
  <1>2. /\ GivenTo(saved, "product", n, p)
        /\ \A i \in DOMAIN s : Of(saved, s[i].kind, s[i].key) = {} => i \in DOMAIN p /\ p[i] = s[i]
        /\ Unbrought(saved, s, p)
    BY RestoredGives
  <1> HIDE DEF p
  <1>3. q \in Seq(Entry) /\ Apart(q)
    BY <1>1, RestoredApart
  <1>4. /\ GivenTo(saved, "customer", n, q)
        /\ GivenTo(saved, "product", n, p) => GivenTo(saved, "product", n, q)
        /\ \A i \in DOMAIN p : Of(saved, p[i].kind, p[i].key) = {} => i \in DOMAIN q /\ q[i] = p[i]
        /\ Unbrought(saved, p, q)
    BY <1>1, RestoredGives
  <1> HIDE DEF q
  <1>5. u \in Seq(Entry)
    BY <1>3, RestoredApart
  <1>6. /\ GivenTo(saved, "supplier", n, u)
        /\ GivenTo(saved, "product", n, q) => GivenTo(saved, "product", n, u)
        /\ GivenTo(saved, "customer", n, q) => GivenTo(saved, "customer", n, u)
        /\ \A i \in DOMAIN q : Of(saved, q[i].kind, q[i].key) = {} => i \in DOMAIN u /\ u[i] = q[i]
        /\ Unbrought(saved, q, u)
    BY <1>3, RestoredGives
  <1>7. Restoring(s, saved) = u
    BY DEF Restoring, p, q
  <1> HIDE DEF u
  <1>8. \A kind \in Kinds : GivenTo(saved, kind, n, u)
    BY <1>2, <1>4, <1>6 DEF Kinds
  <1>9. \A i \in DOMAIN s : Of(saved, s[i].kind, s[i].key) = {} => i \in DOMAIN u /\ u[i] = s[i]
    BY <1>2, <1>4, <1>6
  <1>10. Unbrought(saved, s, u)
    <2>1. Unbrought(saved, s, q)
      BY <1>2, <1>4, UnbroughtOn
    <2> QED
      BY <1>6, <2>1, UnbroughtOn
  <1> QED
    BY <1>5, <1>7, <1>8, <1>9, <1>10

\* And it gives back the backup as the property tells.
LEMMA RestoresGiveBack ==
  ASSUME CatalogInv, restoreTenantBackup
  PROVE  /\ \A i \in DOMAIN backup :
              LET r == backup[i] IN
              Single(backup, r)
                => \E j \in Of(records', r.kind, r.key) :
                     records'[j] = Returned(records, j, r)
         /\ \A i \in DOMAIN records :
              Of(backup, records[i].kind, records[i].key) = {} => records'[i] = records[i]
         /\ Restoring(records', backup) = records'
  <1> DEFINE n == Len(backup)
  <1>1. /\ records \in Seq(Entry) /\ backup \in Seq(Entry) /\ Apart(records)
        /\ records' = Restoring(records, backup)
    BY DEF CatalogInv, CatalogTyped, restoreTenantBackup
  <1>2. n \in Nat /\ DOMAIN backup = 1..n /\ \A i \in 1..n : backup[i] \in Entry
    BY <1>1
  <1>3. /\ records' \in Seq(Entry)
        /\ \A kind \in Kinds : GivenTo(backup, kind, n, records')
        /\ \A i \in DOMAIN records :
             Of(backup, records[i].kind, records[i].key) = {} => records'[i] = records[i]
        /\ Unbrought(backup, records, records')
    BY <1>1, RestoringGives
  <1>4. ASSUME NEW i \in DOMAIN backup, Single(backup, backup[i])
        PROVE  \E j \in Of(records', backup[i].kind, backup[i].key) :
                 records'[j] = Returned(records, j, backup[i])
    <2> DEFINE r == backup[i]
               S == Of(backup, r.kind, r.key)
               at == Of(records', r.kind, r.key)
               k == FirstOf(at)
    <2>1. i \in S /\ S \subseteq 1..n /\ i \in 1..n /\ r.kind \in Kinds
      BY <1>2 DEF Of, Entry
    <2>2. IsFiniteSet(S)
      <3>1. IsFiniteSet(1..n)
        BY <1>2, FS_Interval
      <3> QED
        BY <2>1, <3>1, FS_Subset
    <2>3. PICK x : S = {x}
      BY <1>4, <2>2, FS_Singleton DEF Single
    <2>4. \A l \in DOMAIN backup : Names(backup, l, r.kind, r.key) => l = i
      BY <2>1, <2>3 DEF Of, Names
    <2>5. \A l \in (i + 1)..n : l \in DOMAIN backup /\ l # i
      BY <1>2, <2>1
    <2>6. GivenOne(backup, r.kind, n, records', i)
      BY <1>3, <2>1 DEF GivenTo
    <2>7. at # {} /\ at \in SUBSET Nat
      BY <1>3, <2>6 DEF Of, GivenOne
    <2>8. k \in at /\ k \in DOMAIN records' /\ records'[k].kind = r.kind /\ records'[k].key = r.key
      BY <2>7, FirstIsOne DEF Of
    <2>9. Held(records'[k]) = Held(r)
      BY <2>4, <2>5, <2>6 DEF GivenOne
    <2>10. records'[k].code = Kept(WasCode(records, k), r.code)
      <3>1. CASE r.code # NoCode
        BY <2>4, <2>5, <2>6, <3>1 DEF GivenOne, Brings, Kept
      <3>2. CASE r.code = NoCode
        <4>1. \A l \in DOMAIN backup : ~Brings(backup, l, r.kind, r.key)
          BY <2>4, <3>2 DEF Brings
        <4>2. records'[k].code = WasCode(records, k)
          BY <1>3, <2>8, <4>1 DEF Unbrought
        <4> QED
          BY <3>2, <4>2 DEF Kept
      <3> QED
        BY <3>1, <3>2
    <2>11. records'[k] \in Entry /\ r \in Entry
      BY <1>2, <1>3, <2>1, <2>8
    <2>12. records'[k] = Returned(records, k, r)
      <3>1. CASE k \in DOMAIN records
        <4>1. records[k] \in Entry /\ WasCode(records, k) = records[k].code
          BY <1>1, <3>1 DEF WasCode
        <4>2. Over(records[k], r) \in Entry
          BY <2>11, <4>1, OverIs
        <4>3. Over(records[k], r).kind = r.kind /\ Over(records[k], r).key = r.key
              /\ Held(Over(records[k], r)) = Held(r)
              /\ Over(records[k], r).code = Kept(records[k].code, r.code)
          BY <2>11, <4>1, OverIs
        <4>4. records'[k] = Over(records[k], r)
          BY <2>8, <2>9, <2>10, <2>11, <4>1, <4>2, <4>3, AlikeAreEqual
        <4> QED
          BY <3>1, <4>4 DEF Returned
      <3>2. CASE k \notin DOMAIN records
        <4>1. records'[k].code = r.code
          BY <2>10, <3>2 DEF WasCode, Kept
        <4>2. records'[k] = r
          BY <2>8, <2>9, <2>11, <4>1, AlikeAreEqual
        <4> QED
          BY <3>2, <4>2 DEF Returned
      <3> QED
        BY <3>1, <3>2
    <2> QED
      BY <2>8, <2>12
  <1>5. Restoring(records', backup) = records'
    <2>1. \A kind \in Kinds : Restored(records', backup, kind) = records'
      BY <1>1, <1>3, RestoredAgain
    <2> QED
      BY <2>1 DEF Restoring, Kinds
  <1> QED
    BY <1>3, <1>4, <1>5

\* For every backup and whatever else is stored, a restore gives back each record that the backup
\* names once, but for a field that it lacked, leaves alone what it does not name, and done twice
\* is done once.
THEOREM RestoresAlwaysGiveBack == CatalogSpec => RestoreGivesBack
  <1>1. CatalogInv /\ [CatalogNext]_catalogVars =>
          [restoreTenantBackup =>
             /\ \A i \in DOMAIN backup :
                  LET r == backup[i] IN
                  Single(backup, r)
                    => \E j \in Of(records', r.kind, r.key) :
                         records'[j] = Returned(records, j, r)
             /\ \A i \in DOMAIN records :
                  Of(backup, records[i].kind, records[i].key) = {} => records'[i] = records[i]
             /\ Restoring(records', backup) = records']_catalogVars
    BY RestoresGiveBack
  <1> QED
    BY CatalogStarts, CatalogSteps, <1>1, PTL DEF CatalogSpec, RestoreGivesBack
=============================================================================
