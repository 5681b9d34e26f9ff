----------------------------- MODULE WebSession -----------------------------
(* The session of a browser (api/client, api/auth, dpop, AuthContext and the  *)
(* server's refresh, login, logout and authMiddleware).  Its tabs share the   *)
(* cookies and the key pair in IndexedDB; each keeps the access token it was  *)
(* given in a variable of its own, and signs every request with the key pair  *)
(* over that token's hash.  The server compares the hash with the cookie.     *)
EXTENDS Integers, FiniteSets

CONSTANTS
  BrowserTabs,
  MaxIssued,    \* bound on the tokens issued
  MaxOpens,     \* bound on the pages opened and reloaded
  MaxLost       \* bound on the requests and answers lost, and the revocations that fail

ASSUME SessionAssumption == IsFiniteSet(BrowserTabs) /\ {MaxIssued, MaxOpens, MaxLost} \subseteq Nat

VARIABLES
  pages,      \* what each tab shows, and its currentAccessToken
  sessionCalls, \* of each tab, the request of AuthProvider's load and that of the user
  keygen,     \* the key pair each of them is storing; 0 when none
  keyStore,   \* the key pair in IndexedDB
  keyPairs,   \* key pairs generated
  cookies,
  live,       \* the refresh tokens that are not revoked
  boundTo,    \* the key pair each token was issued for
  opens, lostCalls,
  logins,     \* history: the logins the server has accepted
  orphans,    \* history: the sessions stored by a rotation that ended before it revoked the old one
  hasty       \* history: the user acted in a page before its load had ended

sessionVars == <<pages, sessionCalls, keygen, keyStore, keyPairs, cookies, live, boundTo, opens, lostCalls, logins,
                 orphans, hasty>>
serverVars == <<cookies, live, boundTo, logins, orphans>>
keyVars == <<keygen, keyStore, keyPairs>>

Threads == {"load", "user"}
Callers == BrowserTabs \X Threads
NoToken == 0
Tokens == 0..MaxIssued
NoRequest == [type |-> "none", stage |-> "none", private |-> 0, public |-> 0, ath |-> 0,
              access |-> NoToken, refresh |-> NoToken, got |-> NoToken]
issued == Cardinality(DOMAIN boundTo)

SessionTypeOK ==
  /\ \A p \in BrowserTabs : pages[p].shows \in {"closed", "loading", "login", "home"} /\ pages[p].token \in Tokens
  /\ \A c \in Callers :
       /\ sessionCalls[c].type \in {"none", "refresh", "me", "login", "logout", "work", "verify"}
       /\ sessionCalls[c].stage \in {"none", "key", "proved", "sent", "issued", "ok", "refused"}
       /\ {sessionCalls[c].access, sessionCalls[c].refresh, sessionCalls[c].got} \subseteq Tokens
  /\ keygen \in [Callers -> 0..keyPairs] /\ keyStore \in [private : 0..keyPairs, public : 0..keyPairs]
  /\ cookies \in [access : Tokens, refresh : Tokens] /\ live \cup orphans \subseteq DOMAIN boundTo
  /\ opens \in [BrowserTabs -> 0..MaxOpens] /\ lostCalls \in 0..MaxLost /\ logins \in Tokens
  /\ hasty \in BOOLEAN

SessionInit ==
  /\ pages = [p \in BrowserTabs |-> [shows |-> "closed", token |-> NoToken]]
  /\ sessionCalls = [c \in Callers |-> NoRequest] /\ keygen = [c \in Callers |-> 0]
  /\ keyStore = [private |-> 0, public |-> 0] /\ keyPairs = 0
  /\ cookies = [access |-> NoToken, refresh |-> NoToken] /\ live = {} /\ boundTo = <<>> /\ orphans = {}
  /\ opens = [p \in BrowserTabs |-> 0] /\ lostCalls = 0 /\ logins = 0 /\ hasty = FALSE

\* The bound on tokens counts those that are asked for and not yet refused.
MayIssue ==
  issued + Cardinality({c \in Callers : /\ sessionCalls[c].type \in {"refresh", "login", "verify"}
                                       /\ sessionCalls[c].stage # "refused" /\ sessionCalls[c].got = NoToken}) < MaxIssued

Asks(type) == [NoRequest EXCEPT !.type = type, !.stage = "key"]
OpenedTabs == {p \in BrowserTabs : opens[p] > 0}

Rotating(calls) == {c \in calls : sessionCalls[c].stage = "issued"}
OldSessions(calls) == {sessionCalls[c].refresh : c \in Rotating(calls)}

\* The rotations among these requests end as they are, those of revoked after the
\* statement that revokes.  The new session of any other is alive beside the old one.
EndRotations(calls, revoked) ==
  /\ live' = live \ revoked
  /\ orphans' = orphans \cup
       {sessionCalls[c].got : c \in {c \in Rotating(calls) : sessionCalls[c].refresh \in live \ revoked}}

\* A page starts with AuthProvider's load.  What the page before was doing is
\* lost: the request's context is cancelled, before a statement or after it.
OpenPage(p) ==
  /\ MayIssue /\ opens[p] < MaxOpens /\ opens' = [opens EXCEPT ![p] = @ + 1]
  /\ pages' = [pages EXCEPT ![p] = [shows |-> "loading", token |-> NoToken]]
  /\ sessionCalls' = [sessionCalls EXCEPT ![<<p, "load">>] = Asks("refresh"), ![<<p, "user">>] = NoRequest]
  /\ keygen' = [keygen EXCEPT ![<<p, "load">>] = 0, ![<<p, "user">>] = 0]
  /\ \E revoked \in SUBSET OldSessions({p} \X Threads) : EndRotations({p} \X Threads, revoked)
  /\ UNCHANGED <<keyStore, keyPairs, cookies, boundTo, lostCalls, logins, hasty>>

Act(p, type) ==
  /\ type \in {"login", "verify"} => MayIssue
  /\ sessionCalls[p, "user"].type = "none" /\ sessionCalls' = [sessionCalls EXCEPT ![<<p, "user">>] = Asks(type)]
  /\ hasty' = (hasty \/ sessionCalls[p, "load"].type # "none")
  /\ UNCHANGED <<pages, keyVars, serverVars, opens, lostCalls>>

\* The login page is not protected: it can be used while the load goes on.
LogIn(p) == pages[p].shows \in {"loading", "login"} /\ Act(p, "login")
Use(p) == pages[p].shows = "home" /\ \E type \in {"work", "verify", "logout"} : Act(p, type)

-----------------------------------------------------------------------------
\* ensureDPoPKeyPair: one at a time in a tab, but not across tabs.
GenerateKey(p, th) ==
  /\ sessionCalls[p, th].stage = "key" /\ 0 \in {keyStore.private, keyStore.public}
  /\ \A t \in Threads : keygen[p, t] = 0
  /\ keyPairs' = keyPairs + 1 /\ keygen' = [keygen EXCEPT ![<<p, th>>] = keyPairs + 1]
  /\ UNCHANGED <<pages, sessionCalls, keyStore, serverVars, opens, lostCalls, hasty>>

StorePrivate(p, th) ==
  /\ keygen[p, th] # 0 /\ keyStore.private # keygen[p, th]
  /\ keyStore' = [keyStore EXCEPT !.private = keygen[p, th]]
  /\ UNCHANGED <<pages, sessionCalls, keygen, keyPairs, serverVars, opens, lostCalls, hasty>>

StorePublic(p, th) ==
  /\ keygen[p, th] # 0 /\ keyStore.private = keygen[p, th]
  /\ keyStore' = [keyStore EXCEPT !.public = keygen[p, th]] /\ keygen' = [keygen EXCEPT ![<<p, th>>] = 0]
  /\ UNCHANGED <<pages, sessionCalls, keyPairs, serverVars, opens, lostCalls, hasty>>

\* getDPoPProof, in the interceptor; the cookies are attached later.
Prove(p, th) ==
  /\ sessionCalls[p, th].stage = "key" /\ \A t \in Threads : keygen[p, t] = 0
  /\ 0 \notin {keyStore.private, keyStore.public}
  /\ sessionCalls' = [sessionCalls EXCEPT ![<<p, th>>].stage = "proved", ![<<p, th>>].private = keyStore.private,
                            ![<<p, th>>].public = keyStore.public, ![<<p, th>>].ath = pages[p].token]
  /\ UNCHANGED <<pages, keyVars, serverVars, opens, lostCalls, hasty>>

SendCall(p, th) ==
  /\ sessionCalls[p, th].stage = "proved"
  /\ sessionCalls' = [sessionCalls EXCEPT ![<<p, th>>].stage = "sent", ![<<p, th>>].access = cookies.access,
                            ![<<p, th>>].refresh = cookies.refresh]
  /\ UNCHANGED <<pages, keyVars, serverVars, opens, lostCalls, hasty>>

-----------------------------------------------------------------------------
Signed(q) == q.private = q.public
\* authMiddleware: the cookie's token, a proof over its hash, by the key it is bound to.
Admitted(q) == q.access # NoToken /\ Signed(q) /\ q.ath = q.access /\ boundTo[q.access] = q.public

Reply(p, th, stage, token) == sessionCalls' = [sessionCalls EXCEPT ![<<p, th>>].stage = stage, ![<<p, th>>].got = token]

\* Login, Register: a session bound to the key of the proof.
Accepts(q) ==
  CASE q.type = "login" -> Signed(q)
    [] q.type = "refresh" -> Signed(q) /\ q.refresh \in live /\ boundTo[q.refresh] = q.public
    [] q.type = "logout" -> TRUE
    [] OTHER -> Admitted(q)

Issue(q) ==
  boundTo' = [n \in 1..(issued + 1) |-> IF n <= issued THEN boundTo[n] ELSE q.public]

ServeRefused(p, th) ==
  /\ sessionCalls[p, th].stage = "sent" /\ ~Accepts(sessionCalls[p, th]) /\ Reply(p, th, "refused", NoToken)
  /\ UNCHANGED <<pages, keyVars, serverVars, opens, lostCalls, hasty>>

ServeLogin(p, th) ==
  /\ sessionCalls[p, th].stage = "sent" /\ sessionCalls[p, th].type = "login" /\ Accepts(sessionCalls[p, th])
  /\ Issue(sessionCalls[p, th]) /\ live' = live \cup {issued + 1} /\ Reply(p, th, "ok", issued + 1)
  /\ logins' = logins + 1
  /\ UNCHANGED <<pages, keyVars, cookies, opens, lostCalls, orphans, hasty>>

\* RefreshToken: the new session is stored, then the old one revoked.
ServeRefresh(p, th) ==
  /\ sessionCalls[p, th].stage = "sent" /\ sessionCalls[p, th].type = "refresh" /\ Accepts(sessionCalls[p, th])
  /\ Issue(sessionCalls[p, th]) /\ live' = live \cup {issued + 1} /\ Reply(p, th, "issued", issued + 1)
  /\ UNCHANGED <<pages, keyVars, cookies, opens, lostCalls, logins, orphans, hasty>>

\* a rotation that keeps the old session
RevokeNothing(p, th) ==
  /\ sessionCalls[p, th].stage = "issued" /\ Reply(p, th, "ok", sessionCalls[p, th].got)
  /\ UNCHANGED <<pages, keyVars, serverVars, opens, lostCalls, hasty>>

RevokeOld(p, th) ==
  /\ sessionCalls[p, th].stage = "issued" /\ live' = live \ {sessionCalls[p, th].refresh}
  /\ Reply(p, th, "ok", sessionCalls[p, th].got)
  /\ UNCHANGED <<pages, keyVars, cookies, boundTo, opens, lostCalls, logins, orphans, hasty>>

\* The statement fails: the client is refused, and both sessions are alive.
RevokeFails(p, th) ==
  /\ sessionCalls[p, th].stage = "issued" /\ lostCalls < MaxLost /\ lostCalls' = lostCalls + 1
  /\ EndRotations({<<p, th>>}, {}) /\ Reply(p, th, "refused", NoToken)
  /\ UNCHANGED <<pages, keyVars, cookies, boundTo, opens, logins, hasty>>

\* Logout answers the same whether or not there was a session to revoke.
ServeLogout(p, th) ==
  /\ sessionCalls[p, th].stage = "sent" /\ sessionCalls[p, th].type = "logout"
  /\ live' = live \ {sessionCalls[p, th].refresh} /\ Reply(p, th, "ok", NoToken)
  /\ UNCHANGED <<pages, keyVars, cookies, boundTo, opens, lostCalls, logins, orphans, hasty>>

\* VerifyEmail issues an access token and leaves the session as it is.
ServeAdmitted(p, th) ==
  /\ sessionCalls[p, th].stage = "sent" /\ sessionCalls[p, th].type \in {"me", "work", "verify"} /\ Accepts(sessionCalls[p, th])
  /\ IF sessionCalls[p, th].type = "verify" THEN Issue(sessionCalls[p, th]) /\ Reply(p, th, "ok", issued + 1)
     ELSE Reply(p, th, "ok", NoToken) /\ UNCHANGED boundTo
  /\ UNCHANGED <<pages, keyVars, cookies, live, opens, lostCalls, logins, orphans, hasty>>

-----------------------------------------------------------------------------
Show(p, what) == [pages EXCEPT ![p].shows = what]
Rested(p, th) == sessionCalls' = [sessionCalls EXCEPT ![<<p, th>>] = NoRequest]

\* The error paths: the load ends without a user, and logging out ends anyway.
FailedPage(p, type) ==
  CASE type \in {"refresh", "me", "logout"} -> Show(p, "login")
    [] OTHER -> pages

Refused(p, th) ==
  /\ sessionCalls[p, th].stage = "refused" /\ Rested(p, th)
  /\ pages' = FailedPage(p, sessionCalls[p, th].type)
  /\ UNCHANGED <<keyVars, serverVars, opens, lostCalls, hasty>>

\* The connection breaks before the server has the request, between its
\* statements, or after them.
Lost(p, th) ==
  /\ lostCalls < MaxLost /\ lostCalls' = lostCalls + 1
  /\ sessionCalls[p, th].stage \in {"sent", "issued", "ok"} /\ Rested(p, th)
  /\ \E revoked \in SUBSET OldSessions({<<p, th>>}) : EndRotations({<<p, th>>}, revoked)
  /\ pages' = FailedPage(p, sessionCalls[p, th].type)
  /\ UNCHANGED <<keyVars, cookies, boundTo, opens, logins, hasty>>

\* a client that keeps the access token it had
GiveTokenToCookie(p, token, what, whole) ==
  /\ cookies' = [access |-> token, refresh |-> IF whole THEN token ELSE cookies.refresh]
  /\ pages' = Show(p, what)

\* Set-Cookie, then setAccessToken.
GiveToken(p, token, what, whole) ==
  /\ cookies' = [access |-> token, refresh |-> IF whole THEN token ELSE cookies.refresh]
  /\ pages' = [pages EXCEPT ![p] = [shows |-> what, token |-> token]]

LoadAnswered(p) ==
  LET q == sessionCalls[p, "load"] IN
  /\ q.stage = "ok"
  /\ \/ /\ q.type = "refresh" /\ sessionCalls' = [sessionCalls EXCEPT ![<<p, "load">>] = Asks("me")]
        /\ GiveToken(p, q.got, pages[p].shows, TRUE)
     \/ /\ q.type = "me" /\ Rested(p, "load") /\ pages' = Show(p, "home") /\ UNCHANGED cookies
  /\ UNCHANGED <<keyVars, live, boundTo, opens, lostCalls, logins, orphans, hasty>>

UserAnswered(p) ==
  LET q == sessionCalls[p, "user"] IN
  /\ q.stage = "ok" /\ Rested(p, "user")
  /\ \/ q.type = "login" /\ GiveToken(p, q.got, "home", TRUE)
     \/ q.type = "verify" /\ GiveToken(p, q.got, pages[p].shows, FALSE)
     \/ /\ q.type = "logout" /\ cookies' = [access |-> NoToken, refresh |-> NoToken] /\ pages' = Show(p, "login")
     \/ q.type = "work" /\ UNCHANGED <<cookies, pages>>
  /\ UNCHANGED <<keyVars, live, boundTo, opens, lostCalls, logins, orphans, hasty>>

Proceed(p, th) ==
  \/ GenerateKey(p, th) \/ StorePrivate(p, th) \/ StorePublic(p, th) \/ Prove(p, th) \/ SendCall(p, th)
  \/ ServeRefused(p, th) \/ ServeLogin(p, th) \/ ServeRefresh(p, th) \/ RevokeOld(p, th)
  \/ ServeLogout(p, th) \/ ServeAdmitted(p, th) \/ Refused(p, th)
  \/ th = "load" /\ LoadAnswered(p)
  \/ th = "user" /\ UserAnswered(p)

SessionNext ==
  \E p \in BrowserTabs :
    \/ OpenPage(p) \/ LogIn(p) \/ Use(p)
    \/ \E th \in Threads : Proceed(p, th) \/ RevokeFails(p, th) \/ Lost(p, th)

\* Storing a key and signing end, and so does a request.
SessionFairness == \A c \in Callers : WF_sessionVars(Proceed(c[1], c[2]) \/ Lost(c[1], c[2]))

-----------------------------------------------------------------------------
Sole == Cardinality(OpenedTabs) <= 1
PageRests(p) == \A th \in Threads : sessionCalls[p, th].type = "none"

(* In a browser with one tab, a page that shows the user signed in is: its    *)
(* session is not revoked, and the next request will be admitted, whatever    *)
(* was lost or reloaded, if the user awaited the load of each page.           *)
SignedInWorks ==
  Sole /\ ~hasty => \A p \in OpenedTabs : pages[p].shows = "home" /\ PageRests(p) =>
    /\ cookies.refresh \in live /\ pages[p].token = cookies.access
    /\ keyStore.private = keyStore.public
    /\ boundTo[cookies.access] = keyStore.public /\ boundTo[cookies.refresh] = keyStore.public

(* The stored private and public key are of one pair, also when a page was    *)
(* reloaded between storing the one and the other.                            *)
KeyPairExists ==
  (\A c \in Callers : keygen[c] = 0) /\ 0 \notin {keyStore.private, keyStore.public}
    => keyStore.private = keyStore.public
SoleKeyPairExists == Sole => KeyPairExists

(* With one tab, no more refresh tokens are alive than there were logins,     *)
(* those aside that a rotation left when it failed, was lost or was reloaded  *)
(* between storing the new session and revoking the old one; and what such a  *)
(* rotation left is in no cookie, so that it is never rotated in its turn.    *)
SessionPerLogin ==
  /\ Sole /\ Rotating(Callers) = {} => Cardinality(live \ orphans) <= logins
  /\ cookies.refresh \notin orphans

(* One session per login, over one key pair.                                  *)
SessionHolds == SessionPerLogin /\ SoleKeyPairExists
=============================================================================
