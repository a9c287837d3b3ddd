------------------------------- MODULE Access -------------------------------
(***************************************************************************)
(* Logging in, two-factor codes and forgotten passwords (routers/auth.py,  *)
(* the two-factor part of routers/settings.py, app/auth.py and             *)
(* app/password_reset_email.py).  A request is one transaction, as in the  *)
(* SQLite deployment (RequestGate): each action is a whole handler.        *)
(*                                                                         *)
(* The users are active administrators: no route creates, deactivates or   *)
(* changes one.  A session is nothing but a signed cookie: the server keeps*)
(* no record of it, so a browser may send any cookie it was given, again   *)
(* or in several requests at once, until its max_age or the key ends it.   *)
(* A secret is a number; an authenticator that was shown secret n makes    *)
(* codes of n, and a code is good for the secret it was made of while it   *)
(* is fresh.  What is stored says under which key it was encrypted, or     *)
(* that it is the plain text of an older version.  Requests that change    *)
(* nothing but the audit log (refused input, wrong current password, an    *)
(* unknown link) are no actions.                                           *)
(***************************************************************************)
EXTENDS RateLimit, Sequences

CONSTANTS
  Browsers, Passwords, Nobody,
  MaxSecrets, MaxTokens, MaxKeys,   \* bounds: secrets made, links made, keys lost
  TokenLife                         \* life of a reset link (1 hour)

ASSUME AccessAssumption ==
  /\ Nobody \notin Users
  /\ {MaxSecrets, MaxTokens, MaxKeys, TokenLife} \subseteq Nat

VARIABLES
  key,            \* number of the keys that sign sessions and links and seal secrets
  password,       \* whose hash each User row has
  totp_enabled,
  secret,         \* the TotpSecret row of each user
  issued,         \* secrets made so far
  cookies,        \* the cookies each browser was given and may still send
  tokens,         \* PasswordResetToken rows, in the order of their ids
  confirmed       \* history: the secret each user last proved to have

dbVars   == <<password, totp_enabled, secret, issued, tokens, confirmed>>
vars     == <<rateVars, dbVars, key, cookies>>

Plain    == -1
NoSecret == [id |-> 0, sealed |-> Plain]
Signed(u) == [user |-> u, pending |-> Nobody, attempts |-> 0]
Empty    == Signed(Nobody)               \* also: the request has no cookie

\* The browser can send a complete session of the user.
SignedIn(b, u) == \E c \in cookies[b] : c.user = u

LoginKey(u) == <<"login", u>>
ResetKey(u) == <<"reset", u>>

\* decrypt_totp_secret does not raise.
Readable(u) == secret[u].sealed \in {Plain, key}

\* A code made of the secret s is accepted.
Accepts(u, s) == secret[u] # NoSecret /\ Readable(u) /\ s = secret[u].id

\* The rows of a user that reset_password would find.
Unused(u) == {t \in DOMAIN tokens : tokens[t].user = u /\ ~tokens[t].used}

\* Some users already have two-factor, with a secret from before encryption.
AccessInit ==
  /\ RateInit
  /\ key = 0
  /\ password \in [Users -> Passwords]
  /\ totp_enabled \in [Users -> BOOLEAN]
  /\ secret = [u \in Users |-> IF totp_enabled[u] THEN [id |-> 1, sealed |-> Plain] ELSE NoSecret]
  /\ issued = 1
  /\ cookies = [b \in Browsers |-> {Empty}]
  /\ tokens = <<>>
  /\ confirmed = [u \in Users |-> secret[u].id]
------------------------------------------------------------------------------
(* routers/auth.py *)

\* The answer to a request that carried the cookie c sets the cookie n.  The one
\* it replaces is gone, or was sent with another request or kept.
Answer(b, c, n) ==
  \E kept \in SUBSET {c} : cookies' = [cookies EXCEPT ![b] = (@ \ {c}) \cup kept \cup {n, Empty}]

\* login with a wrong name or password: 401, or 429 when the key is exhausted.
FailedLogin(u) == Hit(LoginKey(u)) /\ UNCHANGED <<dbVars, key, cookies>>

FaultyLogin(b, c, u) ==
  /\ Clear(LoginKey(u))
  /\ Answer(b, c, Signed(u))
  /\ UNCHANGED <<dbVars, key>>

\* login with the right password, which is not limited: the session is complete,
\* waits for a code, or is left alone if the secret is missing (403).
Login(b, c, u) ==
  /\ Clear(LoginKey(u))
  /\ Answer(b, c, IF ~totp_enabled[u] THEN Signed(u)
                  ELSE IF secret[u] = NoSecret THEN c
                  ELSE [Empty EXCEPT !.pending = u])
  /\ UNCHANGED <<dbVars, key>>

\* verify_login_2fa while a code is awaited and the cookie has tries left.
Challenged(c) == c.pending # Nobody /\ c.attempts < LoginMax

\* The challenge is over: too many tries (429), or two-factor was disabled (401).
ChallengeEnds(b, c) ==
  /\ c.pending # Nobody
  /\ \/ ~Challenged(c)
     \/ ~totp_enabled[c.pending]
     \/ secret[c.pending] = NoSecret
  /\ Answer(b, c, Empty)
  /\ UNCHANGED <<dbVars, rateVars, key>>

FaultyWrongCode(b, c) ==
  LET u == c.pending IN
  /\ u # Nobody /\ c.attempts <= LoginMax
  /\ totp_enabled[u] /\ secret[u] # NoSecret /\ Readable(u)
  /\ Answer(b, c, [c EXCEPT !.attempts = @ + 1])
  /\ UNCHANGED <<dbVars, rateVars, key>>

\* The wrong code is counted in the new cookie and nowhere else.
WrongCode(b, c) ==
  LET u == c.pending IN
  /\ Challenged(c)
  /\ totp_enabled[u] /\ secret[u] # NoSecret /\ Readable(u)
  /\ Answer(b, c, [c EXCEPT !.attempts = @ + 1])
  /\ UNCHANGED <<dbVars, rateVars, key>>

\* A plain secret is stored encrypted from now on.
Reseal(u) == secret' = [secret EXCEPT ![u].sealed = key]

RightCode(b, c, s) ==
  LET u == c.pending IN
  /\ Challenged(c)
  /\ totp_enabled[u] /\ Accepts(u, s)
  /\ Reseal(u)
  /\ Answer(b, c, Signed(u))
  /\ UNCHANGED <<password, totp_enabled, issued, tokens, confirmed, rateVars, key>>

\* logout, or the cookie reaches its max_age.
Logout(b, c) == Answer(b, c, Empty) /\ UNCHANGED <<dbVars, rateVars, key>>

\* change_password, with the right current password; links stay as they are.
ChangePassword(b, c, p) ==
  LET u == c.user IN
  /\ u # Nobody /\ p # password[u]
  /\ password' = [password EXCEPT ![u] = p]
  /\ Answer(b, c, Signed(u))
  /\ UNCHANGED <<totp_enabled, secret, issued, tokens, confirmed, rateVars, key>>

Retired(u) ==
  [t \in DOMAIN tokens |-> IF t \in Unused(u) THEN [tokens[t] EXCEPT !.used = TRUE] ELSE tokens[t]]

FaultyNewLink(u) ==
  tokens' = Append(tokens, [user |-> u, expires_at |-> now + TokenLife, used |-> FALSE, key |-> key])

\* Every unused link of the user is marked used, and a new one made.
NewLink(u) ==
  tokens' = Append(Retired(u),
                   [user |-> u, expires_at |-> now + TokenLife, used |-> FALSE, key |-> key])

\* forgot_password.  With the address of the account and below the limit a link
\* is made, whether or not the mail can be delivered; otherwise nothing is.
ForgotPassword(u, matches) ==
  /\ Hit(ResetKey(u))
  /\ IF Admits(ResetKey(u)) /\ matches
     THEN Len(tokens) < MaxTokens /\ NewLink(u)
     ELSE UNCHANGED tokens
  /\ UNCHANGED <<password, totp_enabled, secret, issued, confirmed, key, cookies>>

\* The process ends while the first request of a window is counted in Redis.
CutOff(k) == CutHit(k) /\ UNCHANGED <<dbVars, key, cookies>>

FaultyResetPassword(t, p) ==
  LET u == tokens[t].user IN
  /\ t \in Unused(u) /\ tokens[t].key = key
  /\ tokens[t].expires_at >= now
  /\ p # password[u]
  /\ password' = [password EXCEPT ![u] = p]
  /\ UNCHANGED <<totp_enabled, secret, issued, tokens, confirmed, rateVars, key, cookies>>

\* reset_password.  The digest of the link is made with the present key, so a
\* link from before the key was lost is not found.
ResetPassword(t, p) ==
  LET u == tokens[t].user IN
  /\ t \in Unused(u) /\ tokens[t].key = key
  /\ tokens[t].expires_at >= now
  /\ p # password[u]
  /\ password' = [password EXCEPT ![u] = p]
  /\ tokens' = [tokens EXCEPT ![t].used = TRUE]
  /\ UNCHANGED <<totp_enabled, secret, issued, confirmed, rateVars, key, cookies>>
------------------------------------------------------------------------------
(* routers/settings.py, for the user of a complete session *)

FaultySetup2fa(c) ==
  LET u == c.user IN
  /\ u # Nobody
  /\ issued < MaxSecrets
  /\ issued' = issued + 1
  /\ secret' = [secret EXCEPT ![u] = [id |-> issued', sealed |-> key]]
  /\ UNCHANGED <<password, totp_enabled, tokens, confirmed, rateVars, key, cookies>>

\* setup_2fa: a new secret, in place of one that was not yet confirmed.
Setup2fa(c) ==
  LET u == c.user IN
  /\ u # Nobody /\ ~totp_enabled[u]
  /\ issued < MaxSecrets
  /\ issued' = issued + 1
  /\ secret' = [secret EXCEPT ![u] = [id |-> issued', sealed |-> key]]
  /\ UNCHANGED <<password, totp_enabled, tokens, confirmed, rateVars, key, cookies>>

\* verify_2fa with a code of the secret s.
Verify2fa(c, s) ==
  LET u == c.user IN
  /\ u # Nobody /\ Accepts(u, s)
  /\ Reseal(u)
  /\ totp_enabled' = [totp_enabled EXCEPT ![u] = TRUE]
  /\ confirmed' = [confirmed EXCEPT ![u] = s]
  /\ UNCHANGED <<password, issued, tokens, rateVars, key, cookies>>

\* disable_2fa with the right password, and a code if two-factor is on.
Disable2fa(c, s) ==
  LET u == c.user IN
  /\ u # Nobody
  /\ totp_enabled[u] /\ secret[u] # NoSecret => Accepts(u, s)
  /\ totp_enabled' = [totp_enabled EXCEPT ![u] = FALSE]
  /\ secret' = [secret EXCEPT ![u] = NoSecret]
  /\ UNCHANGED <<password, issued, tokens, confirmed, rateVars, key, cookies>>
------------------------------------------------------------------------------
\* The process starts again, with the keys of its environment or, where none are
\* set, with new random ones that make every cookie invalid.
Restart ==
  /\ Rebuild
  /\ \/ UNCHANGED <<key, cookies>>
     \/ key < MaxKeys /\ key' = key + 1 /\ cookies' = [b \in Browsers |-> {Empty}]
  /\ UNCHANGED dbVars

TimePasses ==
  Tick /\ UNCHANGED <<backend, attempts, count, expires, process, admitted, cut, dbVars, key, cookies>>

\* The requests that neither begin a challenge nor use up a try of it.
OtherRequest(b, c) ==
  \/ Logout(b, c)
  \/ ChallengeEnds(b, c)
  \/ Setup2fa(c)
  \/ \E s \in 1..issued : RightCode(b, c, s) \/ Verify2fa(c, s) \/ Disable2fa(c, s)
  \/ \E p \in Passwords : ChangePassword(b, c, p)

\* A request of the browser b, with the cookie c.
UserNext(b, c) ==
  \/ \E u \in Users : Login(b, c, u)
  \/ WrongCode(b, c)
  \/ OtherRequest(b, c)

\* Requests that need no cookie, the end of a process, and the clock.
ServerNext ==
  \/ \E u \in Users : FailedLogin(u)
  \/ \E u \in Users, matches \in BOOLEAN : ForgotPassword(u, matches)
  \/ \E t \in DOMAIN tokens, p \in Passwords : ResetPassword(t, p)
  \/ \E k \in Keys : CutOff(k)
  \/ Restart
  \/ TimePasses

AccessNext ==
  \/ \E b \in Browsers : \E c \in cookies[b] : UserNext(b, c)
  \/ ServerNext

AccessSpec == AccessInit /\ [][AccessNext]_vars
------------------------------------------------------------------------------
TokenRow == [user : Users, expires_at : Nat, used : BOOLEAN, key : 0..MaxKeys]
Cookie == [user : Users \cup {Nobody}, pending : Users \cup {Nobody}, attempts : 0..LoginMax]
SecretRow == [id : 0..(MaxSecrets + 1), sealed : {Plain} \cup 0..MaxKeys]

\* The rows, the cookies and the limiter have their shape; no cookie counts more
\* wrong codes than a challenge allows.
AccessTypeOK ==
  /\ RateTypeOK
  /\ key \in 0..MaxKeys
  /\ password \in [Users -> Passwords]
  /\ totp_enabled \in [Users -> BOOLEAN]
  /\ secret \in [Users -> SecretRow]
  /\ issued \in Nat
  /\ cookies \in [Browsers -> SUBSET Cookie]
  /\ tokens \in Seq(TokenRow)
  /\ confirmed \in [Users -> Nat]

\* While two-factor is on there is a secret, and it is the one the user proved
\* to have, however the set-up was repeated, taken back or done in two browsers.
SwitchConfirmed ==
  \A u \in Users : totp_enabled[u] => secret[u] # NoSecret /\ secret[u].id = confirmed[u]

\* A user has at most one link that is not used, and it is the newest one.
OneUnusedLink ==
  \A t, v \in DOMAIN tokens : tokens[t].user = tokens[v].user /\ t < v => tokens[t].used

\* While no browser holds a complete session of a user, his password changes only
\* by spending his newest link within its life, and a link that was spent is never
\* good again.
LinksSpentOnce ==
  [][/\ \A u \in Users :
          /\ password'[u] # password[u]
          /\ \A b \in Browsers : ~SignedIn(b, u)
          => \E t \in Unused(u) : tokens'[t].used /\ now <= tokens[t].expires_at
     /\ \A t \in DOMAIN tokens : tokens[t].used => tokens'[t].used]_vars

\* A browser that holds no complete session of a user whose two-factor is on, not
\* even an old one to send again, is given one only for a challenge it was given
\* for that user, and the secret is then stored encrypted.
TwoSteps ==
  [][\A b \in Browsers, u \in Users :
       /\ totp_enabled[u]
       /\ SignedIn(b, u)' /\ ~SignedIn(b, u)
       => /\ \E c \in cookies[b] : c.pending = u /\ Challenged(c)
          /\ secret'[u].sealed # Plain]_vars
=============================================================================
