-------------------------------- MODULE SignIn --------------------------------
(***************************************************************************)
(* One account's password, the links that reset it and the sessions it     *)
(* opens.  Passwords are told by the order in which they were chosen, time *)
(* by the second.  A request compares, hashes, saves and signs in steps.   *)
(***************************************************************************)
EXTENDS Integers, FiniteSets

CONSTANTS
  Workers,     \* requests of the account at work at once
  MaxPassword, \* bound: passwords chosen
  MaxLink,     \* bound: reset links mailed
  MaxSession,  \* bound: sessions opened
  MaxSecond    \* bound: the last second

ASSUME SignInAssumption ==
  {MaxPassword, MaxLink, MaxSession, MaxSecond} \subseteq Nat /\ MaxSecond # 0

VARIABLES
  hash,      \* the password that signs in, and passwordChangedAt (0: never)
  links,     \* PasswordResetToken: links that still open the form
  sessions,  \* session cookies of the browsers
  work,      \* what each request has read, and does next
  now,
  chosen,    \* history: passwords chosen so far
  mailed,    \* history: links made so far
  resets,    \* history: how often each link has set a password
  opened,    \* history: sessions signed so far
  tangled    \* history: what happened while something else was under way

signInVars == <<hash, links, sessions, work, now, chosen, mailed, resets, opened, tangled>>

Link == 1..MaxLink
\* iat, the password that was compared, and whether a change of the password was under way
\* when it was signed, or had been when the session it continues was signed.
Session == [iat : 1..MaxSecond, password : 0..MaxPassword, late : BOOLEAN]
Free == [do |-> "free"]

SignInInit ==
  /\ hash = [password |-> 0, changedAt |-> 0]
  /\ links = {} /\ sessions = {}
  /\ work = [w \in Workers |-> Free]
  /\ now = 1
  /\ chosen = 0 /\ mailed = 0 /\ opened = 0
  /\ resets = [l \in Link |-> 0]
  /\ tangled = {}

Tick ==
  /\ now < MaxSecond /\ now' = now + 1
  /\ UNCHANGED <<hash, links, sessions, work, chosen, mailed, resets, opened, tangled>>

Go(w, rec) == work' = [work EXCEPT ![w] = rec]
Busy(w, does) == \E v \in Workers \ {w} : work[v].do = does
-----------------------------------------------------------------------------
(* Sessions *)

\* tenantMiddleware: issued no earlier than the second of the last change of the password.
Accepted(s) == s.iat >= hash.changedAt

\* The password typed is right for the hash that was read.  A session that is accepted
\* gets a new token when its user switches or creates an organization.
StartSession(w) ==
  /\ work[w] = Free /\ opened < MaxSession
  /\ \E p \in {hash.password} \cup {s.password : s \in {x \in sessions : Accepted(x)}} :
       Go(w, [do |-> "sign", password |-> p, read |-> hash])
  /\ UNCHANGED <<hash, links, sessions, now, chosen, mailed, resets, opened, tangled>>

SignToken(w) ==
  /\ work[w].do = "sign" /\ opened < MaxSession
  /\ sessions' = sessions \cup {[iat |-> now, password |-> work[w].password,
                                late |-> \/ hash # work[w].read \/ Busy(w, "save")
                                         \/ work[w].password # work[w].read.password]}
  /\ opened' = opened + 1
  /\ Go(w, Free)
  /\ UNCHANGED <<hash, links, now, chosen, mailed, resets, tangled>>

\* The cookie is cleared; the token has expired.
Logout(s) ==
  /\ sessions' = sessions \ {s}
  /\ UNCHANGED <<hash, links, work, now, chosen, mailed, resets, opened, tangled>>
-----------------------------------------------------------------------------
(* forgotPassword *)

Outdated == {}

DropLinks(w) ==
  /\ work[w] = Free /\ mailed < MaxLink
  /\ links' = Outdated
  /\ Go(w, [do |-> "mail"])
  /\ tangled' = IF Busy(w, "mail") THEN tangled \cup {"mail"} ELSE tangled
  /\ UNCHANGED <<hash, sessions, now, chosen, mailed, resets, opened>>

MailLink(w) ==
  /\ work[w].do = "mail" /\ mailed < MaxLink
  /\ mailed' = mailed + 1
  /\ links' = links \cup {mailed'}
  /\ Go(w, Free)
  /\ UNCHANGED <<hash, sessions, now, chosen, resets, opened, tangled>>

\* After an hour.
Expire(l) ==
  /\ l \in links /\ links' = links \ {l}
  /\ UNCHANGED <<hash, sessions, work, now, chosen, mailed, resets, opened, tangled>>
-----------------------------------------------------------------------------
(* resetPassword, and the password half of updateUser *)

\* The new password is hashed and passwordChangedAt taken from the clock before they are saved.
Choose(w, link) ==
  /\ chosen < MaxPassword /\ chosen' = chosen + 1
  /\ Go(w, [do |-> "save", password |-> chosen', at |-> now, link |-> link])

ReadLink(w) ==
  /\ work[w] = Free
  /\ \E l \in links : Choose(w, l)
  /\ tangled' = IF Busy(w, "save") \/ Busy(w, "drop") THEN tangled \cup {"reset"} ELSE tangled
  /\ UNCHANGED <<hash, links, sessions, now, mailed, resets, opened>>

SetPassword(w) ==
  /\ work[w] = Free
  /\ Choose(w, 0)
  /\ tangled' = IF Busy(w, "save") THEN tangled \cup {"reset"} ELSE tangled
  /\ UNCHANGED <<hash, links, sessions, now, mailed, resets, opened>>

\* Mutant of NewHash: the date of the change is not kept.
NewHashUndated(q) == [hash EXCEPT !.password = q.password]

NewHash(q) == [password |-> q.password, changedAt |-> q.at]

SavePassword(w) ==
  /\ work[w].do = "save"
  /\ LET q == work[w] IN
     /\ hash' = NewHash(q)
     /\ resets' = [l \in Link |-> IF l = q.link THEN resets[l] + 1 ELSE resets[l]]
     /\ Go(w, IF q.link = 0 THEN Free ELSE [do |-> "drop"])
  /\ UNCHANGED <<links, sessions, now, chosen, mailed, opened, tangled>>

DropUsed(w) ==
  /\ work[w].do = "drop"
  /\ links' = {}
  /\ Go(w, Free)
  /\ UNCHANGED <<hash, sessions, now, chosen, mailed, resets, opened, tangled>>

\* A crash between two steps, or a call that fails.
Abort(w) ==
  /\ work[w] # Free
  /\ tangled' = IF work[w].do = "drop" THEN tangled \cup {"reset"} ELSE tangled
  /\ Go(w, Free)
  /\ UNCHANGED <<hash, links, sessions, now, chosen, mailed, resets, opened>>
-----------------------------------------------------------------------------
SignInNext ==
  \/ Tick
  \/ \E w \in Workers :
       \/ StartSession(w) \/ SignToken(w) \/ DropLinks(w) \/ MailLink(w)
       \/ ReadLink(w) \/ SetPassword(w) \/ SavePassword(w) \/ DropUsed(w) \/ Abort(w)
  \/ \E s \in sessions : Logout(s)
  \/ \E l \in links : Expire(l)

SignInSpec == SignInInit /\ [][SignInNext]_signInVars
-----------------------------------------------------------------------------
(* Properties *)

\* A session of an earlier password is refused, unless it was signed in the very second of the
\* change or while a change was under way, or continues one that was.
OldSessionsEnd ==
  \A s \in sessions :
    Accepted(s) => s.password = hash.password \/ s.late \/ s.iat = hash.changedAt

\* A link sets one password, and the link mailed last is the only one, unless two resets or
\* two mails crossed or the drop after a reset was cut off.
LinksAreSingle ==
  /\ "reset" \in tangled \/ \A l \in Link : resets[l] <= 1
  /\ "mail" \in tangled \/ Cardinality(links) <= 1

SignInTypeOK ==
  /\ hash \in [password : 0..MaxPassword, changedAt : 0..MaxSecond]
  /\ links \subseteq Link /\ sessions \subseteq Session
  /\ now \in 1..MaxSecond /\ chosen \in 0..MaxPassword
  /\ mailed \in 0..MaxLink /\ opened \in 0..MaxSession

\* Requests that sign in, reset and change the password, in whatever order their steps come,
\* leave neither a session of an earlier password nor a link that has been used.
SessionsEnd == SignInTypeOK /\ OldSessionsEnd /\ LinksAreSingle
=============================================================================
