---------------------------- MODULE AuthSession -----------------------------
(***************************************************************************)
(* The session of one browser tab: the HTTP client (api/client.ts), the    *)
(* token store, the auth store, and the pages that log in, register, log   *)
(* out and change the password.                                            *)
(*                                                                         *)
(* Every call goes through request(): a 401 waits for a refresh that all   *)
(* callers share, is sent once more, and otherwise ends the session.  The  *)
(* server exchanges a refresh token once.  Between two awaits any other    *)
(* caller runs, the tab may be reloaded, and the network may lose either   *)
(* half of an exchange.  The plan's name and the selected branch, which    *)
(* login and logout set as well, are kept in module AdminShell.            *)
(***************************************************************************)
EXTENDS Naturals, FiniteSets

CONSTANTS
  Reqs,         \* calls the pages make concurrently
  MaxLogins,    \* bound: sessions started by login or registration
  MaxTokens,    \* bound: token pairs the server issues
  MaxReloads    \* bound: page loads after the first

ASSUME AuthSessionAssumption ==
  /\ IsFiniteSet(Reqs)
  /\ Reqs \cap {"login", "register", "logout"} = {}
  /\ MaxLogins \in Nat \ {0} /\ MaxTokens \in Nat \ {0} /\ MaxReloads \in Nat

Sessions == 1 .. MaxLogins
Tokens == 1 .. MaxTokens
None == 0
Rejected == MaxTokens + 1

\* Everything that calls apiClient.
Callers == Reqs \cup {"login", "register", "logout"}

VARIABLES
  store,     \* tokenStore, the refresh timer and useAuthStore in memory
  saved,     \* user and isAuthenticated as localStorage has them
  call,      \* where each caller of request() is
  fetches,   \* POST /auth/refresh in flight
  promise,   \* _refreshPromiseTyped is set
  restoring, \* who awaits useAuthStore.refresh(): "no", "init", "register"
  ready,     \* authReady: the app renders its routes
  issued, owner, exchanged,   \* the server
  lost,      \* refresh tokens exchanged in an answer that never arrived
  crossed,   \* a session was installed while an older refresh was in flight
  logins, reloads

client == <<store, saved, call, fetches, promise, restoring, ready>>
server == <<issued, owner, exchanged>>
history == <<lost, crossed, logins, reloads>>
vars == <<client, server, history>>

Idle == [pc |-> "idle", bearer |-> FALSE, retry |-> FALSE]
Empty == [access |-> None, refresh |-> None, timer |-> FALSE, user |-> None,
          must |-> FALSE]

\* The tab opens, perhaps with a user that another tab left in localStorage.
Init ==
  /\ logins \in {0, 1}
  /\ store = [Empty EXCEPT !.user = logins]
  /\ saved = logins
  /\ call = [c \in Callers |-> Idle]
  /\ fetches = {}
  /\ promise = FALSE
  /\ restoring = "no"
  /\ ready = FALSE
  /\ issued = 0
  /\ owner = [t \in Tokens |-> None]
  /\ exchanged = {}
  /\ lost = {}
  /\ crossed = FALSE
  /\ reloads = 0

-----------------------------------------------------------------------------
(* tokenStore, scheduleProactiveRefresh and the setters of useAuthStore *)

\* Mutant: a refresh token that is there stays.
SetTokensOnce(s, t) == [s EXCEPT !.access = t, !.timer = TRUE,
                                 !.refresh = IF @ = None THEN t ELSE @]

\* The timer of a token that is within a minute of its expiry is not set: it
\* is one that never fires.
SetTokens(s, t) == [s EXCEPT !.access = t, !.refresh = t, !.timer = TRUE]

\* What a 401 that cannot be repaired leaves.
Wiped(s) == [s EXCEPT !.access = None, !.refresh = None, !.timer = FALSE,
                      !.user = None, !.must = FALSE]

\* zustand's persist writes on every set of the auth store.
Keep(s) == /\ store' = s
           /\ saved' = IF s.user # store.user THEN s.user ELSE saved

\* Mutant: every refresh puts its user on the screen.
RestoredAlways(s, t) == [s EXCEPT !.user = owner[t]]

\* useAuthStore.refresh takes the user of the answer; request() and the timer
\* take the tokens only.
Restored(s, t) == IF restoring = "no" THEN s ELSE [s EXCEPT !.user = owner[t]]

-----------------------------------------------------------------------------
(* request *)

\* Which token a request carries is all one to the client: any may have expired.
Send(c, retry, s) == [pc |-> "sent", bearer |-> s.access # None, retry |-> retry]

Exchange(t, s) == [rt |-> t, answer |-> None, live |-> TRUE, n |-> s]

\* Mutant: every caller starts an exchange of its own.
StartRefreshEach ==
  /\ promise' = TRUE
  /\ fetches' = fetches \cup {Exchange(store.refresh, Cardinality(fetches))}

\* refreshAccessToken: the first caller starts the exchange, later ones join.
StartRefresh ==
  /\ promise' = TRUE
  /\ fetches' = IF promise THEN fetches ELSE fetches \cup {Exchange(store.refresh, 0)}

\* The caller's promise settles; logout clears whatever the outcome was.
Finish(c, s) ==
  /\ call' = [call EXCEPT ![c] = Idle]
  /\ Keep(IF c = "logout" THEN Wiped(store) ELSE s)

\* The login page leaves for the app when somebody is in, and takes no second
\* submit while the first is loading.
MayLogin == /\ store.user = None /\ call["login"].pc = "idle"
            /\ logins < MaxLogins /\ issued < MaxTokens

\* The registration is public and does not ask whether somebody is in.
MayRegister == /\ call["register"].pc = "idle"
               /\ logins < MaxLogins /\ issued < MaxTokens

\* Pages run once the app is ready, the public ones without a session too.  The
\* logout tells the server only if there is an access token; with somebody on
\* the screen there always is one (UserHasTokens).
Request(c) ==
  /\ ready /\ call[c].pc = "idle"
  /\ c = "login" => MayLogin
  /\ c = "register" => MayRegister
  /\ c = "logout" => store.user # None /\ store.access # None
  /\ call' = [call EXCEPT ![c] = Send(c, FALSE, store)]
  /\ UNCHANGED <<store, saved, fetches, promise, restoring, ready, server, history>>

\* The fetch throws: OfflineError.
RequestFails(c) ==
  /\ call[c].pc = "sent"
  /\ Finish(c, store)
  /\ UNCHANGED <<fetches, promise, restoring, ready, server, history>>

\* The request may be the change of password, which the forms ask for as long
\* as must is set.
PasswordAfter == {store.must, FALSE}

\* A page's request or the logout is answered; the server takes none without
\* a token, and any token may have expired or been revoked.
RequestOk(c) ==
  /\ call[c].pc = "sent" /\ call[c].bearer /\ c \notin {"login", "register"}
  /\ \E must \in PasswordAfter : Finish(c, [store EXCEPT !.must = must])
  /\ UNCHANGED <<fetches, promise, restoring, ready, server, history>>

\* A 401 is worth a refresh once, when there is or was something to refresh.
MayRepair(c) == ~call[c].retry /\ (call[c].bearer \/ store.refresh # None)

Request401Waits(c) ==
  /\ call[c].pc = "sent" /\ MayRepair(c) /\ (promise \/ store.refresh # None)
  /\ StartRefresh
  /\ call' = [call EXCEPT ![c] = [@ EXCEPT !.pc = "waiting"]]
  /\ UNCHANGED <<store, saved, restoring, ready, server, history>>

\* No second attempt, or no refresh token to try with: the session is over.
Request401Ends(c) ==
  /\ call[c].pc = "sent" /\ ~(MayRepair(c) /\ (promise \/ store.refresh # None))
  /\ Finish(c, IF call[c].bearer \/ store.refresh # None THEN Wiped(store) ELSE store)
  /\ UNCHANGED <<fetches, promise, restoring, ready, server, history>>

-----------------------------------------------------------------------------
(* login and RegisterPage.handleSubmit *)

Fresh(s) == /\ issued' = issued + 1
            /\ owner' = [owner EXCEPT ![issued + 1] = s]

Crosses == \E f \in fetches : f.live

\* login stores tokens and user; must_change_password comes with the
\* answer.
LoginOk ==
  LET s == logins + 1  t == issued + 1
  IN /\ call["login"].pc = "sent" /\ logins < MaxLogins /\ issued < MaxTokens
     /\ logins' = s
     /\ Fresh(s)
     /\ \E must \in BOOLEAN :
          Finish("login", [SetTokens(store, t) EXCEPT !.user = s, !.must = must])
     /\ crossed' = (crossed \/ Crosses)
     /\ UNCHANGED <<fetches, promise, restoring, ready, exchanged, lost, reloads>>

\* Registration stores the tokens without a timer and lets refresh() set the
\* user, with an exchange that may be somebody else's.  Until then a user who
\* was in stays on the screen, beside the new business's tokens.
RegisterOk ==
  LET s == logins + 1  t == issued + 1
  IN /\ call["register"].pc = "sent" /\ logins < MaxLogins /\ issued < MaxTokens
     /\ logins' = s
     /\ Fresh(s)
     /\ call' = [call EXCEPT !["register"] = Idle]
     /\ store' = [store EXCEPT !.access = t, !.refresh = t]
     /\ restoring' = "register"
     /\ promise' = TRUE
     /\ fetches' = IF promise THEN fetches
                   ELSE fetches \cup {Exchange(t, 0)}
     /\ crossed' = (crossed \/ Crosses)
     /\ UNCHANGED <<saved, ready, exchanged, lost, reloads>>

-----------------------------------------------------------------------------
(* The refresh exchange *)

TimerFires ==
  /\ store.timer
  /\ store' = [store EXCEPT !.timer = FALSE]
  /\ IF promise \/ store.refresh # None THEN StartRefresh
                                        ELSE UNCHANGED <<promise, fetches>>
  /\ UNCHANGED <<saved, call, restoring, ready, server, history>>

\* authService.Refresh revokes the token before it issues a pair; a token that
\* was exchanged, or is too old, is refused.
ServerExchanges(f) ==
  /\ f \in fetches /\ f.answer = None
  /\ \/ /\ f.rt \notin exchanged /\ issued < MaxTokens
        /\ Fresh(owner[f.rt])
        /\ exchanged' = exchanged \cup {f.rt}
        /\ fetches' = (fetches \ {f}) \cup
             (IF f.live THEN {[f EXCEPT !.answer = issued + 1]} ELSE {})
        /\ lost' = IF f.live THEN lost ELSE lost \cup {f.rt}
     \/ /\ fetches' = (fetches \ {f}) \cup
             (IF f.live THEN {[f EXCEPT !.answer = Rejected]} ELSE {})
        /\ UNCHANGED <<issued, owner, exchanged, lost>>
  /\ UNCHANGED <<store, saved, call, promise, restoring, ready, crossed, logins, reloads>>

Waiting == {c \in Callers : call[c].pc = "waiting"}

\* The callers that waited send their request again, with the new token.
Resumed(s) == [c \in Callers |-> IF c \in Waiting THEN Send(c, TRUE, s) ELSE call[c]]

\* Mutant: a failed exchange stays the one to join.
SettledOnSuccess(ok) == promise' = ~ok

\* The finally of refreshAccessToken.
Settled(ok) == promise' = FALSE

\* The pair is stored, the timer is set, and whoever waited goes on.
RefreshArrives(f) ==
  /\ f \in fetches /\ f.live /\ f.answer \in Tokens
  /\ LET s == SetTokens(store, f.answer)
         u == Restored(s, f.answer)
     IN /\ store' = u
        /\ saved' = IF restoring = "no" THEN saved ELSE u.user
        /\ call' = Resumed(s)
  /\ ready' = (ready \/ restoring = "init")
  /\ restoring' = "no"
  /\ Settled(TRUE)
  /\ fetches' = fetches \ {f}
  /\ UNCHANGED <<server, history>>

\* Refused, or the network lost one half of the exchange: whoever waited ends
\* the session, and so does refresh(); the timer lets it pass.
RefreshFails(f) ==
  LET ends == Waiting # {} \/ restoring # "no"
  IN /\ f \in fetches /\ f.live
     /\ Keep(IF ends THEN Wiped(store) ELSE store)
     /\ call' = [c \in Callers |-> IF c \in Waiting THEN Idle ELSE call[c]]
     /\ ready' = (ready \/ restoring = "init")
     /\ restoring' = "no"
     /\ Settled(FALSE)
     /\ lost' = IF f.answer \in Tokens THEN lost \cup {f.rt} ELSE lost
     /\ fetches' = (fetches \ {f}) \cup
          (IF f.answer = None THEN {[f EXCEPT !.live = FALSE]} ELSE {})
     /\ UNCHANGED <<server, crossed, logins, reloads>>

-----------------------------------------------------------------------------
(* The page load and the other tabs *)

\* What a load keeps: localStorage and sessionStorage.  Requests on their way
\* still reach the server.
Reload ==
  /\ reloads < MaxReloads
  /\ reloads' = reloads + 1
  /\ store' = [Empty EXCEPT !.refresh = store.refresh, !.user = saved]
  /\ call' = [c \in Callers |-> Idle]
  /\ fetches' = {[f EXCEPT !.live = FALSE] : f \in {g \in fetches : g.answer = None}}
  /\ lost' = lost \cup {f.rt : f \in {g \in fetches : g.answer \in Tokens}}
  /\ promise' = FALSE
  /\ restoring' = "no"
  /\ ready' = FALSE
  /\ UNCHANGED <<saved, server, crossed, logins>>

\* initAuth: nothing to restore, nothing to restore it with, or a refresh.
InitAuth ==
  /\ ~ready /\ restoring = "no"
  /\ IF store.user = None \/ store.refresh = None
     THEN /\ ready' = TRUE
          /\ Keep(IF store.user = None THEN store ELSE Wiped(store))
          /\ UNCHANGED <<promise, fetches, restoring>>
     ELSE /\ restoring' = "init" /\ StartRefresh
          /\ UNCHANGED <<store, saved, ready>>
  /\ UNCHANGED <<call, server, history>>

\* A tab opened on the same origin has no refresh token (sessionStorage is per
\* tab): its initAuth clears the session that localStorage has.
OtherTabOpens ==
  /\ saved # None
  /\ saved' = None
  /\ UNCHANGED <<store, call, fetches, promise, restoring, ready, server, history>>

-----------------------------------------------------------------------------
Next ==
  \/ \E c \in Callers : Request(c) \/ RequestFails(c) \/ RequestOk(c)
                        \/ Request401Waits(c) \/ Request401Ends(c)
  \/ LoginOk \/ RegisterOk
  \/ TimerFires
  \/ \E f \in fetches : ServerExchanges(f) \/ RefreshArrives(f) \/ RefreshFails(f)
  \/ Reload \/ InitAuth \/ OtherTabOpens

Spec == Init /\ [][Next]_vars

\* A fetch settles: it is answered or the browser gives up; effects run.
FairSpec ==
  /\ Spec
  /\ WF_vars(InitAuth)
  /\ WF_vars(\E f \in fetches : ServerExchanges(f))
  /\ WF_vars(\E f \in fetches : RefreshArrives(f) \/ RefreshFails(f))

-----------------------------------------------------------------------------
(* Properties *)

\* Type invariant: tokens, users and answers are those the server has given, and
\* a token whose answer was lost had been exchanged.
TypeOK ==
  /\ store \in [access : {None} \cup Tokens, refresh : {None} \cup Tokens, timer : BOOLEAN,
                user : {None} \cup Sessions, must : BOOLEAN]
  /\ saved \in {None} \cup Sessions
  /\ call \in [Callers -> [pc : {"idle", "sent", "waiting"}, bearer : BOOLEAN,
                           retry : BOOLEAN]]
  /\ \A f \in fetches : f.rt \in Tokens /\ f.answer \in {None, Rejected} \cup Tokens
  /\ restoring \in {"no", "init", "register"}
  /\ exchanged \subseteq 1 .. issued /\ lost \subseteq exchanged

\* The server honours a refresh token once (auth_service.go), so presenting one
\* twice costs the session.  However many callers meet a 401 together and
\* whatever the timer does, the tab presents an exchanged token only when the
\* answer that replaced it never arrived.
NeverPresentedTwice ==
  \A f \in fetches : f.live /\ f.answer = None /\ f.rt \in exchanged => f.rt \in lost

\* Once the app renders, a user on the screen has tokens behind it: no failure
\* path of request() or refresh() leaves a session without any.
UserHasTokens ==
  ready /\ store.user # None => store.access # None /\ store.refresh # None

\* The tokens are those of the user on the screen once the refresh() of a
\* registration has settled, also where a signed-in user registers another
\* business; unless a session was installed while a refresh of an older one was
\* in flight: then the late answer of refreshAccessToken overwrites the tokens.
TokensOfUser ==
  ready /\ store.user # None /\ restoring # "register" /\ ~crossed =>
    owner[store.access] = store.user /\ owner[store.refresh] = store.user

\* A caller waits only for a refresh that is in flight: nobody is left on a
\* promise that no answer settles.
WaitersAreServed ==
  Waiting # {} \/ restoring # "no" => promise /\ \E f \in fetches : f.live

\* The refresh is shared: the timer, the pages and the stores present a token once
\* and all wait for the same answer (refreshAccessToken).
SharedRefresh == NeverPresentedTwice /\ WaitersAreServed

\* User and tokens form one session after any request, refresh, login, logout and
\* reload (tokenStore, useAuthStore and the failure paths of request()).
SessionCoherent == TypeOK /\ UserHasTokens /\ TokensOfUser

\* The late answer of a refresh may bring tokens back after a logout, but never
\* a user: only login, registration and the load of a page put one on screen.
OnlyLoginSignsIn ==
  [][store.user = None /\ store'.user # None =>
       logins' > logins \/ restoring # "no" \/ reloads' > reloads]_vars

\* The spinner of App.tsx ends, whatever the network does to initAuth.
AppStarts == ~ready ~> ready

\* Whoever waits for a refresh is released: _refreshPromiseTyped never stays
\* behind, set and settled by nobody.
RefreshReleases == promise ~> ~promise

\* Nobody waits for ever, neither the app for its session nor a caller for a refresh.
WaitsEnd == AppStarts /\ RefreshReleases

\* Losing the network does not end a session by itself.
OfflineKeepsSession ==
  [][\A f \in fetches : RefreshFails(f) /\ f.answer # Rejected => store'.user = store.user]_vars
=============================================================================
