------------------------------ MODULE Accounts ------------------------------
(***************************************************************************)
(* Who a login is: OAuth redirects and callbacks, the user and identity     *)
(* rows they find or create, the one free trial of a new user, the gated    *)
(* test login, profile edits and unbinding.  A login is several separate    *)
(* statements, and two devices may log in for the first time together.      *)
(*   internal/service/auth.go, github_oauth.go, wechat_oauth.go             *)
(*   internal/handler/auth_github.go, auth_wechat.go, auth.go, user.go      *)
(*   internal/util/oauth_state.go, internal/repo/repo.go                    *)
(***************************************************************************)
EXTENDS Integers, FiniteSets

CONSTANTS
  Logins,      \* concurrent requests
  Answers,     \* what the providers answer: records provider, uid (a negative number, 0
               \* when WeChat has no union id), email, primaryVerified, verified
  Users,       \* ids for new user rows, numbers
  Expiry,      \* StateExpiry
  MaxNow,      \* bound on time
  MaxStates,   \* bound on redirects
  MaxLogins,   \* bound on the requests that follow
  MaxEdits     \* bound on operator changes (suspensions, app configuration)

VARIABLES
  users,     \* rows: id -> "none", "active" or "suspended"
  idents,    \* social_identities: records uid, email, user
  trials,    \* users with a trial subscription
  req,       \* Logins -> progress
  app,       \* the app row: active, urls (number of callback URLs)
  seen,      \* nonces this process has seen, with the state they belong to
  issued,    \* states given to browsers: records nonce, exp, idx
  logged,    \* history: logins answered with tokens, as <<uid, user>>
  unbound,   \* history: uids that were unbound
  bound,     \* history: uids ever bound by a provider login
  now, edits, started

acctvars == <<users, idents, trials, req, app, seen, issued, logged, unbound, bound,
              now, edits, started>>

Idle == [pc |-> "idle", uid |-> 0, email |-> "", user |-> 0, new |-> FALSE]
Set(w, r) == req' = [req EXCEPT ![w] = r]
Done(w) == Set(w, Idle)

Init ==
  /\ users = [u \in Users |-> "none"]
  /\ idents = {} /\ trials = {}
  /\ req = [w \in Logins |-> Idle]
  /\ app = [active |-> TRUE, urls |-> 1]
  /\ seen = {} /\ issued = {} /\ logged = {} /\ unbound = {} /\ bound = {}
  /\ now = 0 /\ edits = 0 /\ started = 0

rows == <<users, idents, trials>>
web == <<app, seen, issued>>
past == <<unbound, bound>>
clock == <<now, edits>>

-----------------------------------------------------------------------------
(* The OAuth round trip: a signed, expiring, single-use state.              *)

\* lookupGitHubConfig / lookupWeChatConfig: the callbacks the app is configured with.
Whitelisted(i) == i < app.urls

\* Redirect and IssueOAuthState: an active app and a whitelisted callback.
Redirect(i) ==
  /\ app.active /\ Whitelisted(i) /\ Cardinality(issued) < MaxStates
  /\ issued' = issued \cup {[nonce |-> Cardinality(issued), exp |-> now + Expiry, idx |-> i]}
  /\ UNCHANGED <<rows, req, app, seen, logged, past, clock, started>>

\* rememberNonce: a nonce is fresh unless it is stored and its state not expired.
rememberNonce(s) == s \notin seen \/ now >= s.exp

\* VerifyOAuthState: signed for this app, not past its expiry, not seen.
VerifyOAuthState(s) == now <= s.exp /\ rememberNonce(s)

\* fetchGitHubUserWithURLs: the profile's email only when the primary one is verified,
\* else the verified one, if there is any.
fetchGitHubUser(a) ==
  [uid |-> a.uid, email |-> IF a.email = "" \/ ~a.primaryVerified THEN a.verified ELSE a.email]

\* FetchWeChatProfile: the union id, never an email.
FetchWeChatProfile(a) == [uid |-> a.uid, email |-> ""]

Profile(a) == IF a.provider = "github" THEN fetchGitHubUser(a) ELSE FetchWeChatProfile(a)

\* The code is exchanged and the profile fetched; either call may fail.
ExchangeCode(w, a) ==
  \/ Set(w, [Idle EXCEPT !.pc = "login", !.uid = Profile(a).uid, !.email = Profile(a).email])
  \/ Done(w)

\* The app is not checked to be active here: LoginWithProfile does that.
CallbackWith(w, s, a) ==
  /\ req[w].pc = "idle" /\ VerifyOAuthState(s) /\ started < MaxLogins
  /\ started' = started + 1
  /\ seen' = seen \cup {s}
  /\ IF Whitelisted(s.idx) THEN ExchangeCode(w, a) ELSE UNCHANGED req
  /\ UNCHANGED <<rows, app, issued, logged, past, clock>>

\* GitHub's callback, and WeChat's, which refuses a profile without a union id.
Callback(w, s, a) == a.provider = "github" /\ CallbackWith(w, s, a)
WeChatCallback(w, s, a) == a.provider = "wechat" /\ a.uid # 0 /\ CallbackWith(w, s, a)

-----------------------------------------------------------------------------
(* LoginWithProfile.                                                        *)

\* A new user id: the first one not used.
Fresh == {u \in Users : users[u] = "none" /\ \A v \in Users : users[v] = "none" => u <= v}

FindByProviderUID(uid) == {i \in idents : i.uid = uid}

\* The uid of a test identity carries a marker and its user's id.
isTestIdentityProviderUID(uid) == uid \in Users
FindByEmail(e) == {i \in idents : i.email = e}

\* The app must be active; a known identity is its user's login.
FindIdentity(w) ==
  LET r == req[w]  known == FindByProviderUID(r.uid)
  IN /\ r.pc = "login"
     /\ IF ~app.active THEN Done(w)
        ELSE IF known # {}
        THEN \E i \in known : Set(w, [r EXCEPT !.pc = "issue", !.user = i.user])
        ELSE Set(w, [r EXCEPT !.pc = "resolve"])
     /\ UNCHANGED <<rows, web, logged, past, clock, started>>

\* resolveOrCreateUser: the user of another identity with this email, or a new one.
resolveOrCreateUser(w) ==
  LET r == req[w]
      same == IF r.email = "" THEN {} ELSE {i \in FindByEmail(r.email) : ~isTestIdentityProviderUID(i.uid)}
  IN /\ r.pc = "resolve"
     /\ IF same # {}
        THEN /\ \E i \in same : Set(w, [r EXCEPT !.pc = "bind", !.user = i.user])
             /\ UNCHANGED users
        ELSE \E u \in Fresh :
               /\ users' = [users EXCEPT ![u] = "active"]
               /\ Set(w, [r EXCEPT !.pc = "bind", !.user = u, !.new = TRUE])
     /\ UNCHANGED <<idents, trials, web, logged, past, clock, started>>

\* The identity insert: the unique (provider, uid) lets one caller bind; the loser
\* logs in as the winner, and its own new user stays behind without identities.
\* MUTANT: the loser logs in as the user it created.
BindKeepingOwn(w) ==
  LET r == req[w]  winner == FindByProviderUID(r.uid)
  IN /\ r.pc = "bind"
     /\ IF winner = {}
        THEN /\ idents' = idents \cup {[uid |-> r.uid, email |-> r.email, user |-> r.user]}
             /\ bound' = bound \cup {r.uid}
             /\ Set(w, [r EXCEPT !.pc = IF r.new THEN "grant" ELSE "issue"])
        ELSE /\ Set(w, [r EXCEPT !.pc = "issue"])
             /\ UNCHANGED <<idents, bound>>
     /\ UNCHANGED <<users, trials, web, logged, unbound, clock, started>>

BindIdentity(w) ==
  LET r == req[w]  winner == FindByProviderUID(r.uid)
  IN /\ r.pc = "bind"
     /\ IF winner = {}
        THEN /\ idents' = idents \cup {[uid |-> r.uid, email |-> r.email, user |-> r.user]}
             /\ bound' = bound \cup {r.uid}
             /\ Set(w, [r EXCEPT !.pc = IF r.new THEN "grant" ELSE "issue"])
        ELSE /\ \E i \in winner : Set(w, [r EXCEPT !.pc = "issue", !.user = i.user])
             /\ UNCHANGED <<idents, bound>>
     /\ UNCHANGED <<users, trials, web, logged, unbound, clock, started>>

\* grantTrialSubscription: best effort; the plan may be missing, inactive or without
\* trial days, and the insert may fail.  The request may also be cut off after it.
\* MUTANT: a user row is enough: the trial is granted before the identity is bound.
GrantOnCreate(w) ==
  /\ req[w].pc = "grant" \/ (req[w].pc = "bind" /\ req[w].new)
  /\ trials' = trials \cup {req[w].user} \/ UNCHANGED trials
  /\ IF req[w].pc = "grant" THEN Set(w, [req[w] EXCEPT !.pc = "issue"]) ELSE UNCHANGED req
  /\ UNCHANGED <<users, idents, web, logged, past, clock, started>>

grantTrialSubscription(w) ==
  /\ req[w].pc = "grant"
  /\ trials' = trials \cup {req[w].user} \/ UNCHANGED trials
  /\ Set(w, [req[w] EXCEPT !.pc = "issue"])
  /\ UNCHANGED <<users, idents, web, logged, past, clock, started>>

\* The user row is read last; a suspended user gets no tokens.
issueTokensForUser(w) ==
  LET r == req[w]
  IN /\ r.pc = "issue"
     /\ logged' = IF users[r.user] = "active" THEN logged \cup {<<r.uid, r.user>>} ELSE logged
     /\ Done(w)
     /\ UNCHANGED <<rows, web, past, clock, started>>

-----------------------------------------------------------------------------
(* The gated test login, profile edits, unbinding.                          *)

\* TestLogin: any identity with the email, else a user of its own, ...
TestLogin(w, e) ==
  /\ req[w].pc = "idle" /\ app.active /\ started < MaxLogins
  /\ started' = started + 1
  /\ IF FindByEmail(e) # {}
     THEN /\ \E i \in FindByEmail(e) :
               Set(w, [Idle EXCEPT !.pc = "issue", !.user = i.user])
          /\ UNCHANGED users
     ELSE \E u \in Fresh :
            /\ users' = [users EXCEPT ![u] = "active"]
            /\ Set(w, [Idle EXCEPT !.pc = "testbind", !.uid = u, !.email = e, !.user = u])
  /\ UNCHANGED <<idents, trials, web, logged, past, clock>>

\* ... and an identity whose uid carries the marker.
TestBind(w) ==
  LET r == req[w]
  IN /\ r.pc = "testbind"
     /\ idents' = idents \cup {[uid |-> r.uid, email |-> r.email, user |-> r.user]}
     /\ Set(w, [r EXCEPT !.pc = "issue"])
     /\ UNCHANGED <<users, trials, web, logged, past, clock, started>>

\* UnbindIdentity runs one DELETE: its count of the user's identities is a snapshot,
\* taken before the row is deleted.
DeleteIfNotLast(w, i) ==
  /\ req[w].pc = "idle" /\ started < MaxLogins
  /\ started' = started + 1
  /\ Cardinality({j \in idents : j.user = i.user}) > 1
  /\ Set(w, [Idle EXCEPT !.pc = "unbind", !.uid = i.uid, !.user = i.user])
  /\ UNCHANGED <<rows, web, logged, past, clock>>

UnbindIdentity(w) ==
  LET r == req[w]
  IN /\ r.pc = "unbind"
     /\ idents' = {i \in idents : ~(i.uid = r.uid /\ i.user = r.user)}
     /\ unbound' = unbound \cup {r.uid}
     /\ Done(w)
     /\ UNCHANGED <<users, trials, web, logged, bound, clock, started>>

\* UpdateProfile reads the user row and writes all of it back, its status included.
ReadProfile(w, u) ==
  /\ req[w].pc = "idle" /\ users[u] # "none" /\ started < MaxLogins
  /\ started' = started + 1
  /\ Set(w, [Idle EXCEPT !.pc = "profile", !.user = u, !.email = users[u]])
  /\ UNCHANGED <<rows, web, logged, past, clock>>

UpdateProfile(w) ==
  /\ req[w].pc = "profile"
  /\ users' = [users EXCEPT ![req[w].user] = req[w].email]
  /\ Done(w)
  /\ UNCHANGED <<idents, trials, web, logged, past, clock, started>>

\* The connection goes away: the statements already run stay.
Abort(w) ==
  /\ req[w].pc # "idle" /\ Done(w)
  /\ UNCHANGED <<rows, web, logged, past, clock, started>>

\* Operators suspend users, and disable apps or change their callbacks.
Operate ==
  /\ edits < MaxEdits /\ edits' = edits + 1
  /\ \/ /\ \E u \in Users : users[u] = "active" /\ users' = [users EXCEPT ![u] = "suspended"]
        /\ UNCHANGED app
     \/ /\ app' \in {[app EXCEPT !.active = ~@], [app EXCEPT !.urls = 0]}
        /\ UNCHANGED users
  /\ UNCHANGED <<idents, trials, req, seen, issued, logged, past, now, started>>

Tick ==
  /\ now < MaxNow /\ now' = now + 1
  /\ UNCHANGED <<rows, req, web, logged, past, edits, started>>

Step(w) ==
  \/ FindIdentity(w) \/ resolveOrCreateUser(w) \/ BindIdentity(w)
  \/ grantTrialSubscription(w) \/ issueTokensForUser(w)
  \/ TestBind(w) \/ UnbindIdentity(w) \/ UpdateProfile(w) \/ Abort(w)

Next ==
  \/ Tick \/ Operate
  \/ \E i \in 0 .. 0 : Redirect(i)
  \/ \E w \in Logins :
       \/ Step(w)
       \/ \E s \in issued, a \in Answers : Callback(w, s, a) \/ WeChatCallback(w, s, a)
       \/ \E a \in Answers : a.verified # "" /\ TestLogin(w, a.verified)
       \/ \E i \in idents : DeleteIfNotLast(w, i)
       \/ \E u \in Users : ReadProfile(w, u)

Spec == Init /\ [][Next]_acctvars

-----------------------------------------------------------------------------
(* Properties.                                                              *)

\* Only the login that created the user and bound its first identity grants a trial:
\* however first logins race, there are never more trials than provider accounts.
TrialPerIdentity == Cardinality(trials) <= Cardinality(bound)

\* As long as a provider account is not unbound, all its logins are one user's, the
\* loser of a first-login race included.
OneAccount ==
  \A x, y \in logged : x[1] = y[1] /\ x[1] \in bound \ unbound => x[2] = y[2]

\* Racing first logins, bindings and unbindings leave one user per provider account, and
\* no more trials than provider accounts (loginWithIdentity, BindIdentity).
IdentityHolds == TrialPerIdentity /\ OneAccount
=============================================================================
