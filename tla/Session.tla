------------------------------ MODULE Session ------------------------------
(***************************************************************************)
(* The session of a browser.  claims-gateway signs what tenancy holds of   *)
(* an account into a token of fifteen minutes, the browser keeps the token *)
(* as a cookie, and the page keeps the account and its memberships in its  *)
(* stores.  A page makes several requests at once; each carries the cookie *)
(* of the moment it was sent, and what answers it may be a new cookie.     *)
(*                                                                         *)
(* An account's memberships are known by how often they changed.  Keycloak *)
(* is external.  One page is open; a tick of the clock is five minutes.    *)
(***************************************************************************)
EXTENDS Naturals

CONSTANTS
  Account, NoAccount,
  InOrganization,       \* accounts whose id token names an organization
  Task,                 \* what the page is doing, one request after the other
  KeepAlive,            \* what its timer is doing
  TTL, INTERVAL,        \* of a token, of the timer: in ticks
  MAX_CALLS, MAX_CHANGES, MAX_LOST

SessionAssumption ==
  /\ NoAccount \notin Account /\ InOrganization \subseteq Account /\ KeepAlive \notin Task
  /\ INTERVAL \in Nat \ {0} /\ TTL \in Nat /\ INTERVAL < TTL
  /\ MAX_CALLS \in Nat /\ MAX_CHANGES \in Nat /\ MAX_LOST \in Nat

VARIABLES
  users,                \* Keycloak: the accounts that exist
  held,                 \* tenancy: per account, its memberships
  cookie,               \* the browser's: a token
  account, isHydrated,  \* the page's authentication store
  hydrating,            \* whether its _hydratePromise is pending
  memberships,          \* the page's domains store: what it fetched
  fetching,             \* whether its _membershipsPromise is pending
  timer,                \* ticks since the session's timer fired
  task,
  mixed,                \* something may be of another session (history)
  calls, changes, lost

keptVars == <<users, held>>
storeVars == <<account, isHydrated, hydrating, memberships, fetching, timer>>
vars == <<keptVars, cookie, storeVars, task, mixed, calls, changes, lost>>

Runner == Task \cup {KeepAlive}
NoToken == [account |-> NoAccount, seen |-> 0, age |-> TTL]
NotFetched == [account |-> NoAccount, seen |-> 0]

(* A request: the cookie it carries, what it asks, whom for, what follows  *)
(* it ("then"), and its answer.                                            *)
NoAnswer == [status |-> "none", token |-> NoToken, seen |-> 0]
Idle == [call |-> "none", token |-> NoToken, who |-> NoAccount, then |-> "nothing", answer |-> NoAnswer]
Sent(call, token, who, then) ==
  [call |-> call, token |-> token, who |-> who, then |-> then, answer |-> NoAnswer]
Quiet == \A r \in Runner : task[r] = Idle

(* Opened by a visitor, or with a cookie; App.vue hydrates at once.        *)
Init ==
  /\ users \in {InOrganization, Account} /\ held = [a \in Account |-> 0]
  /\ account \in users \cup {NoAccount}
  /\ cookie = IF account = NoAccount THEN NoToken ELSE [account |-> account, seen |-> 0, age |-> 0]
  /\ isHydrated = TRUE /\ hydrating = FALSE
  /\ memberships = NotFetched /\ fetching = FALSE /\ timer = 0
  /\ task = [r \in Runner |-> Idle]
  /\ mixed = FALSE /\ calls = 0 /\ changes = 0 /\ lost = 0

-----------------------------------------------------------------------------
(* The gateway, and what it asks of Keycloak and of tenancy.               *)
Accepted(token) == token.age < TTL

Answer(status, token, seen) == [status |-> status, token |-> token, seen |-> seen]
Unauthenticated == Answer("refused", NoToken, 0)
Unavailable == Answer("unavailable", NoToken, 0)

Sign(a, seen) == [account |-> a, seen |-> seen, age |-> 0]

Answers(r, answer) == task' = [task EXCEPT ![r].answer = answer]
Serves(r, call) == task[r].call = call /\ task[r].answer = NoAnswer

(* The tenancy service has no record, but Keycloak names an organization.  *)
(* One that is by invitation only admits nobody.                           *)
ProvisionOnFirstLogin(r, a) ==
  \/ held' = [held EXCEPT ![a] = 1] /\ Answers(r, Answer("ok", Sign(a, 1), 0))
  \/ UNCHANGED held /\ Answers(r, Answer("ok", Sign(a, 0), 0))

Exchange(r, a) ==
  \/ UNCHANGED held /\ Answers(r, Unavailable)
  \/ IF held[a] = 0 /\ a \in InOrganization
     THEN ProvisionOnFirstLogin(r, a)
     ELSE UNCHANGED held /\ Answers(r, Answer("ok", Sign(a, held[a]), 0))

RefreshSessionAsBefore(token) == Sign(token.account, token.seen)   \* mutant: memberships kept
RefreshSession(token) == Sign(token.account, held[token.account])

UpdateProfile(token) == Sign(token.account, token.seen)

(* Keycloak's grant: refused for an account there is not, or a password.   *)
PasswordGrant(r, a, known) ==
  \/ UNCHANGED held /\ Answers(r, Unauthenticated)
  \/ a \in known /\ Exchange(r, a)

ServeLogin(r) ==
  /\ Serves(r, "login") /\ PasswordGrant(r, task[r].who, users)
  /\ UNCHANGED <<users, cookie, storeVars, mixed, calls, changes, lost>>

(* The redirect's id token was Keycloak's answer for an account of its.    *)
ServeExchange(r) ==
  /\ Serves(r, "exchange") /\ task[r].who \in users /\ Exchange(r, task[r].who)
  /\ UNCHANGED <<users, cookie, storeVars, mixed, calls, changes, lost>>

CreateUser(a) == a \notin users /\ users' = users \cup {a}

(* The user stays when the login that follows fails.                       *)
ServeRegister(r) ==
  /\ Serves(r, "register")
  /\ LET a == task[r].who IN
       \/ CreateUser(a) /\ PasswordGrant(r, a, users')
       \/ UNCHANGED <<users, held>> /\ Answers(r, IF a \in users THEN Unauthenticated ELSE Unavailable)
  /\ UNCHANGED <<cookie, storeVars, mixed, calls, changes, lost>>

ServeMe(r) ==
  /\ Serves(r, "me")
  /\ Answers(r, IF Accepted(task[r].token) THEN Answer("ok", NoToken, 0) ELSE Unauthenticated)
  /\ UNCHANGED <<keptVars, cookie, storeVars, mixed, calls, changes, lost>>

ServeRefresh(r) ==
  /\ Serves(r, "refresh")
  /\ IF Accepted(task[r].token)
     THEN \/ Answers(r, Answer("ok", RefreshSession(task[r].token), 0))
          \/ lost < MAX_LOST /\ Answers(r, Unavailable)
     ELSE Answers(r, Unauthenticated)
  /\ lost' = IF task'[r].answer = Unavailable THEN lost + 1 ELSE lost
  /\ UNCHANGED <<keptVars, cookie, storeVars, mixed, calls, changes>>

ServeUpdateProfile(r) ==
  /\ Serves(r, "profile")
  /\ IF Accepted(task[r].token)
     THEN \/ Answers(r, Answer("ok", UpdateProfile(task[r].token), 0))
          \/ Answers(r, Unavailable)
     ELSE Answers(r, Unauthenticated)
  /\ UNCHANGED <<keptVars, cookie, storeVars, mixed, calls, changes, lost>>

ServeLogout(r) ==
  /\ Serves(r, "logout") /\ Answers(r, Answer("ok", NoToken, 0))
  /\ UNCHANGED <<keptVars, cookie, storeVars, mixed, calls, changes, lost>>

(* Tenancy, behind the gateway's verification.                             *)
ServeMemberships(r) ==
  /\ Serves(r, "fetch")
  /\ Answers(r, IF Accepted(task[r].token)
                THEN Answer("ok", NoToken, held[task[r].token.account]) ELSE Unauthenticated)
  /\ UNCHANGED <<keptVars, cookie, storeVars, mixed, calls, changes, lost>>

(* A domain created, joined or left, an invite code redeemed.              *)
ServeChange(r) ==
  /\ Serves(r, "change")
  /\ IF Accepted(task[r].token) /\ changes < MAX_CHANGES
     THEN /\ held' = [held EXCEPT ![task[r].token.account] = @ + 1] /\ changes' = changes + 1
          /\ Answers(r, Answer("ok", NoToken, 0))
     ELSE UNCHANGED <<held, changes>> /\ Answers(r, Unauthenticated)
  /\ UNCHANGED <<users, cookie, storeVars, mixed, calls, lost>>

(* Somebody else admits the account, removes it or changes its role.       *)
ChangedByOthers(a) ==
  /\ changes < MAX_CHANGES /\ changes' = changes + 1
  /\ held' = [held EXCEPT ![a] = @ + 1]
  /\ UNCHANGED <<users, cookie, storeVars, task, mixed, calls, lost>>

-----------------------------------------------------------------------------
(* The page.                                                               *)
Begins(r, call, who, then) ==
  /\ r \in Task /\ task[r] = Idle /\ calls < MAX_CALLS /\ calls' = calls + 1
  /\ task' = [task EXCEPT ![r] = Sent(call, cookie, who, then)]

(* The dialogs are a visitor's, and wait for what they sent; a redirect's  *)
(* callback comes from Keycloak to a page that is opened anew.             *)
LogIn(r, call, a) ==
  /\ account = NoAccount /\ isHydrated /\ Begins(r, call, a, "hydrate")
  /\ \A q \in Runner : task[q].then # "hydrate"
  /\ call = "exchange" => a \in users /\ Quiet /\ memberships = NotFetched
  /\ UNCHANGED <<keptVars, cookie, storeVars, mixed, changes, lost>>

LogOut(r) ==
  /\ account # NoAccount /\ Begins(r, "logout", NoAccount, "nothing")
  /\ UNCHANGED <<keptVars, cookie, storeVars, mixed, changes, lost>>

(* The socket was closed, and it may be that the session ended.            *)
Hydrate(r) ==
  /\ ~hydrating /\ Begins(r, "me", NoAccount, "nothing") /\ hydrating' = TRUE
  /\ UNCHANGED <<keptVars, cookie, account, isHydrated, memberships, fetching, timer, mixed, changes, lost>>

(* A view, which needs an account, asks for what was not fetched yet.      *)
FetchMemberships(r) ==
  /\ account # NoAccount /\ memberships = NotFetched /\ ~fetching /\ Begins(r, "fetch", NoAccount, "nothing")
  /\ fetching' = TRUE
  /\ UNCHANGED <<keptVars, cookie, account, isHydrated, hydrating, memberships, timer, mixed, changes, lost>>

(* What follows: a domain that is created or joined, an invite code that   *)
(* is redeemed; and a domain that is left.                                 *)
SubscribeToDomain == "refresh"
UnsubscribeFromDomain == "fetch"

ChangeDomains(r, then) ==
  /\ account # NoAccount /\ Begins(r, "change", NoAccount, then)
  /\ UNCHANGED <<keptVars, cookie, storeVars, mixed, changes, lost>>

EditProfile(r) ==
  /\ account # NoAccount /\ Begins(r, "profile", NoAccount, "hydrate")
  /\ UNCHANGED <<keptVars, cookie, storeVars, mixed, changes, lost>>

(* A page that is opened anew drops its requests and asks who it is.       *)
Reload(r) ==
  /\ calls < MAX_CALLS /\ calls' = calls + 1
  /\ account' = NoAccount /\ isHydrated' = FALSE /\ hydrating' = TRUE
  /\ memberships' = NotFetched /\ fetching' = FALSE /\ timer' = 0
  /\ task' = [q \in Runner |-> IF q = r THEN Sent("me", cookie, NoAccount, "nothing") ELSE Idle]
  /\ mixed' = FALSE
  /\ UNCHANGED <<keptVars, cookie, changes, lost>>

-----------------------------------------------------------------------------
(* An answer arrives: first its cookie, then the page goes on.             *)
Heard(r, call) == task[r].call = call /\ task[r].answer # NoAnswer
Ok(r) == task[r].answer.status = "ok"
Alone(r) == \A q \in Runner \ {r} : task[q] = Idle
SetCookie(r) == cookie' = IF task[r].answer.token # NoToken THEN task[r].answer.token ELSE cookie

Continues(r, call, then) ==
  task' = [task EXCEPT ![r] = Sent(call, cookie', NoAccount, then)]
Ends(r) == task' = [task EXCEPT ![r] = Idle]

(* hydrate(true) shares a request that is pending.                         *)
HydrateAnew(r) ==
  IF hydrating THEN Ends(r) /\ UNCHANGED hydrating
               ELSE Continues(r, "me", "hydrate") /\ hydrating' = TRUE

FetchAnew(r) == Continues(r, "fetch", "nothing") /\ fetching' = TRUE

(* useSessionKeepAlive watches isAuthenticated.                            *)
Becomes(a) == account' = a /\ timer' = IF account = NoAccount \/ a = NoAccount THEN 0 ELSE timer

LoggedIn(r) ==
  /\ Heard(r, "login") \/ Heard(r, "register") \/ Heard(r, "exchange")
  /\ SetCookie(r)
  /\ IF Ok(r) THEN HydrateAnew(r) /\ mixed' = (mixed \/ ~Alone(r))
              ELSE Ends(r) /\ UNCHANGED <<hydrating, mixed>>
  /\ UNCHANGED <<keptVars, account, isHydrated, memberships, fetching, timer, calls, changes, lost>>

ForgetsTheAccount == UNCHANGED <<memberships, fetching>>   \* mutant: the stores are kept
Reset == memberships' = NotFetched /\ fetching' = FALSE

LoggedOut(r) ==
  /\ Heard(r, "logout") /\ cookie' = NoToken
  /\ Becomes(NoAccount) /\ Reset /\ Ends(r)
  /\ mixed' = (mixed \/ ~Alone(r))
  /\ UNCHANGED <<keptVars, isHydrated, hydrating, calls, changes, lost>>

Hydrated(r) ==
  /\ Heard(r, "me")
  /\ Becomes(IF Ok(r) THEN task[r].token.account ELSE NoAccount)
  /\ isHydrated' = TRUE /\ hydrating' = FALSE /\ Ends(r)
  /\ mixed' = (mixed \/ (account # NoAccount /\ account' = NoAccount))
  /\ UNCHANGED <<keptVars, cookie, memberships, fetching, calls, changes, lost>>

(* A session that has ended is not reset: only its account goes.           *)
Refreshed(r) ==
  /\ Heard(r, "refresh") /\ SetCookie(r)
  /\ IF task[r].answer = Unauthenticated THEN Becomes(NoAccount) /\ mixed' = TRUE
                                         ELSE UNCHANGED <<account, timer, mixed>>
  /\ IF task[r].then = "fetch" THEN FetchAnew(r) ELSE Ends(r) /\ UNCHANGED fetching
  /\ UNCHANGED <<keptVars, isHydrated, hydrating, memberships, calls, changes, lost>>

FetchedMemberships(r) ==
  /\ Heard(r, "fetch")
  /\ memberships' = IF Ok(r) THEN [account |-> task[r].token.account, seen |-> task[r].answer.seen]
                             ELSE [account |-> NoAccount, seen |-> 1]   \* an empty list
  /\ fetching' = FALSE /\ Ends(r)
  /\ mixed' = (mixed \/ ~Ok(r))
  /\ UNCHANGED <<keptVars, cookie, account, isHydrated, hydrating, timer, calls, changes, lost>>

Changed(r) ==
  /\ Heard(r, "change")
  /\ UNCHANGED cookie
  /\ CASE ~Ok(r) -> Ends(r) /\ UNCHANGED fetching
       [] Ok(r) /\ task[r].then = UnsubscribeFromDomain -> FetchAnew(r)
       [] Ok(r) /\ task[r].then = SubscribeToDomain ->
            Continues(r, "refresh", "fetch") /\ UNCHANGED fetching
  /\ UNCHANGED <<keptVars, account, isHydrated, hydrating, memberships, timer, mixed, calls, changes, lost>>

ProfileUpdated(r) ==
  /\ Heard(r, "profile") /\ SetCookie(r)
  /\ IF Ok(r) THEN HydrateAnew(r) ELSE Ends(r) /\ UNCHANGED hydrating
  /\ UNCHANGED <<keptVars, account, isHydrated, memberships, fetching, timer, mixed, calls, changes, lost>>

(* fetch() itself fails, before or after the request was served.           *)
Rejected(r) ==
  /\ task[r] # Idle /\ lost < MAX_LOST /\ lost' = lost + 1
  /\ hydrating' = (hydrating /\ task[r].call # "me")
  /\ isHydrated' = (isHydrated \/ task[r].call = "me")
  /\ fetching' = (fetching /\ task[r].call # "fetch")
  /\ Ends(r) /\ mixed' = TRUE
  /\ UNCHANGED <<keptVars, cookie, account, memberships, timer, calls, changes>>

-----------------------------------------------------------------------------
Older(token) == [token EXCEPT !.age = IF @ < TTL THEN @ + 1 ELSE TTL]
AllOlder(q) == [q EXCEPT !.token = Older(@), !.answer.token = Older(@)]

(* Time passes; the timer of an authenticated page fires by INTERVAL.      *)
Tick ==
  /\ task[KeepAlive] = Idle
  /\ cookie' = Older(cookie)
  /\ LET fires == account # NoAccount /\ timer + 1 = INTERVAL
         aged == [r \in Runner |-> AllOlder(task[r])]
     IN /\ task' = IF fires THEN [aged EXCEPT ![KeepAlive] = Sent("refresh", cookie', NoAccount, "nothing")]
                            ELSE aged
        /\ timer' = IF fires \/ account = NoAccount THEN 0 ELSE timer + 1
  /\ UNCHANGED <<keptVars, account, isHydrated, hydrating, memberships, fetching, mixed, calls, changes, lost>>

Serve(r) ==
  \/ ServeLogin(r) \/ ServeExchange(r) \/ ServeRegister(r) \/ ServeMe(r) \/ ServeRefresh(r)
  \/ ServeUpdateProfile(r) \/ ServeLogout(r) \/ ServeMemberships(r) \/ ServeChange(r)
Receive(r) ==
  \/ LoggedIn(r) \/ LoggedOut(r) \/ Hydrated(r) \/ Refreshed(r) \/ FetchedMemberships(r)
  \/ Changed(r) \/ ProfileUpdated(r)

Next ==
  \/ \E r \in Task :
       \/ \E a \in Account, call \in {"login", "register", "exchange"} : LogIn(r, call, a)
       \/ LogOut(r) \/ Hydrate(r) \/ FetchMemberships(r) \/ EditProfile(r) \/ Reload(r)
       \/ \E then \in {SubscribeToDomain, UnsubscribeFromDomain} : ChangeDomains(r, then)
  \/ \E r \in Runner : Serve(r) \/ Receive(r) \/ Rejected(r)
  \/ \E a \in Account : ChangedByOthers(a)
  \/ Tick

(* Time passes and a timer of the browser is not dropped; a request that   *)
(* is sent ends, as the services answer and a lost connection is noticed.  *)
Fairness ==
  /\ WF_vars(Tick)
  /\ \A r \in Runner : WF_vars(Serve(r)) /\ WF_vars(Receive(r))

Spec == Init /\ [][Next]_vars /\ Fairness

-----------------------------------------------------------------------------
(* logout: unless requests overlapped it or a login, a session ended by    *)
(* itself, or one was lost, a page shows memberships of nobody but the     *)
(* account it is logged in as, its requests carry that account's token,    *)
(* and between requests it knows the account that its cookie stands for.   *)
PageIsOnesOwn ==
  ~mixed =>
    /\ account # NoAccount /\ memberships # NotFetched => memberships.account = account
    /\ account # NoAccount => cookie.account = account
    /\ Quiet /\ Accepted(cookie) => account = cookie.account

(* Refuted, kept as a statement: it speaks of sessions that end, too.  The *)
(* stores are reset by a logout alone, so that who logs in to a page whose *)
(* session has ended is shown what the former account had fetched.         *)
AlwaysOnesOwn == memberships.account \in {NoAccount, account} \/ account = NoAccount

(* "Re-mints the session cookie so a membership change lands in the        *)
(* gateway JWT": while a page stays logged in, its cookie carries again    *)
(* and again what tenancy holds, though refreshes answered out of order    *)
(* and an edit of the profile put older memberships back.                  *)
ClaimsCatchUp ==
  \A a \in Account :
    <>[](account = a) => []<>(cookie.account = a /\ cookie.seen = held[a])
=============================================================================
