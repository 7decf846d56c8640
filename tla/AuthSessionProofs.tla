------------------------- MODULE AuthSessionProofs --------------------------
(***************************************************************************)
(* The session of a tab, for every number of callers, logins, tokens and   *)
(* page loads: the refresh is shared, user and tokens form one session,    *)
(* and only a login, a registration or a page load signs somebody in.      *)
(*                                                                         *)
(* The second part is the shell of the panel around that session, for any  *)
(* tenants, users, branches and routes, any number of sessions, clicks,    *)
(* page loads and failed reads, and answers in any order: what the tab     *)
(* shows is the user's (RasgosFieles, PanelDelUsuario), and a session that *)
(* follows a logout starts without a branch of another tenant              *)
(* (SesionSinSucursalAjena).                                               *)
(***************************************************************************)
EXTENDS AuthSession, AdminShell, FiniteSetTheorems, TLAPS

-----------------------------------------------------------------------------
(* The session *)


Stores == [access : {None} \cup Tokens, refresh : {None} \cup Tokens, timer : BOOLEAN,
           user : {None} \cup Sessions, must : BOOLEAN]
Calls == [pc : {"idle", "sent", "waiting"}, bearer : BOOLEAN, retry : BOOLEAN]
Exchanges == [rt : Tokens, answer : {None, Rejected} \cup Tokens, live : BOOLEAN, n : {0}]

Types ==
  /\ store \in Stores /\ saved \in {None} \cup Sessions
  /\ call \in [Callers -> Calls]
  /\ fetches \subseteq Exchanges
  /\ restoring \in {"no", "init", "register"}
  /\ issued \in 0 .. MaxTokens /\ logins \in 0 .. MaxLogins /\ reloads \in Nat
  /\ owner \in [Tokens -> {None} \cup Sessions]
  /\ exchanged \subseteq 1 .. issued /\ lost \subseteq exchanged

(* Nobody holds a token that the server has not issued yet. *)
Known ==
  /\ store.access <= issued /\ store.refresh <= issued
  /\ \A f \in fetches : f.rt <= issued /\ (f.answer \in Tokens => f.answer <= issued)

(* One exchange at a time is awaited, and it is the promise to join. *)
OneExchange ==
  /\ \A f \in fetches : f.live => promise
  /\ promise => \E f \in fetches : f.live
  /\ \A f, g \in fetches : f.live /\ g.live => f = g
  /\ \A f \in fetches : ~f.live => f.answer = None
  /\ \A c \in Callers : call[c].pc = "waiting" => promise
  /\ restoring # "no" => promise

(* A pair on its way is held by nobody yet; the token it replaces is spent. *)
PairOnItsWay ==
  \A f \in fetches : f.live /\ f.answer \in Tokens =>
    /\ f.rt \in exchanged /\ f.answer \notin exchanged /\ f.answer # store.refresh
    /\ \A g \in fetches : g.rt # f.answer

(* A spent token is in the store only while its replacement is on its way,  *)
(* or was lost.                                                             *)
SpentIsLost ==
  /\ \A f \in fetches : f.live /\ f.answer = None /\ f.rt \in exchanged => f.rt \in lost
  /\ store.refresh \in exchanged =>
       store.refresh \in lost \/ \E f \in fetches : f.live /\ f.rt = store.refresh /\ f.answer \in Tokens

(* User, tokens and the pair on its way are of one session, except between  *)
(* the registration of a signed-in user and the answer of its refresh().    *)
OneSession ==
  /\ ready /\ store.user # None => store.access # None /\ store.refresh # None
  /\ ready /\ store.user # None /\ restoring # "register" /\ ~crossed =>
       /\ owner[store.access] = store.user /\ owner[store.refresh] = store.user
       /\ \A f \in fetches : f.live =>
            owner[f.rt] = store.user /\ (f.answer \in Tokens => owner[f.answer] = store.user)

(* The inductive invariant: a token may be presented again only when its    *)
(* replacement was lost, because every spent one in the store has an answer *)
(* on its way that nobody else holds.                                       *)
IInv == Types /\ Known /\ OneExchange /\ PairOnItsWay /\ SpentIsLost /\ OneSession

-----------------------------------------------------------------------------
(* Stores, calls and exchanges *)

LEMMA Bounds ==
  /\ MaxLogins \in Nat \ {0} /\ MaxTokens \in Nat \ {0}
  /\ Sessions = 1 .. MaxLogins /\ Tokens = 1 .. MaxTokens /\ None = 0 /\ Rejected = MaxTokens + 1
  /\ None \notin Tokens /\ None \notin Sessions /\ Rejected \notin Tokens /\ Rejected # None
BY AuthSessionAssumption DEF Sessions, Tokens, None, Rejected

LEMMA SetTokensStore ==
  ASSUME NEW s \in Stores, NEW t \in Tokens
  PROVE  LET r == SetTokens(s, t)
         IN r \in Stores /\ r.access = t /\ r.refresh = t /\ r.user = s.user
<1>1. t \in {None} \cup Tokens
  OBVIOUS
<1>2. SetTokens(s, t) \in Stores
  BY <1>1, Zenon DEF SetTokens, Stores
<1> QED
  BY <1>2 DEF SetTokens, Stores

LEMMA WipedStore ==
  ASSUME NEW s \in Stores
  PROVE  LET r == Wiped(s)
         IN r \in Stores /\ r.access = None /\ r.refresh = None /\ r.user = None
<1>1. Wiped(s) \in Stores
  BY Zenon DEF Wiped, Stores
<1> QED
  BY <1>1 DEF Wiped, Stores

LEMMA UserStore ==
  ASSUME NEW s \in Stores, NEW u \in {None} \cup Sessions
  PROVE  LET r == [s EXCEPT !.user = u]
         IN r \in Stores /\ r.user = u /\ r.access = s.access /\ r.refresh = s.refresh
<1>1. [s EXCEPT !.user = u] \in Stores
  BY Zenon DEF Stores
<1> QED
  BY <1>1 DEF Stores

LEMMA MustStore ==
  ASSUME NEW s \in Stores, NEW b \in BOOLEAN
  PROVE  LET r == [s EXCEPT !.must = b]
         IN r \in Stores /\ r.user = s.user /\ r.access = s.access /\ r.refresh = s.refresh
<1>1. [s EXCEPT !.must = b] \in Stores
  BY Zenon DEF Stores
<1> QED
  BY <1>1 DEF Stores

LEMMA TimerStore ==
  ASSUME NEW s \in Stores
  PROVE  LET r == [s EXCEPT !.timer = FALSE]
         IN r \in Stores /\ r.user = s.user /\ r.access = s.access /\ r.refresh = s.refresh
<1>1. [s EXCEPT !.timer = FALSE] \in Stores
  BY Zenon DEF Stores
<1> QED
  BY <1>1 DEF Stores

LEMMA PairStore ==
  ASSUME NEW s \in Stores, NEW t \in Tokens
  PROVE  LET r == [s EXCEPT !.access = t, !.refresh = t]
         IN r \in Stores /\ r.user = s.user /\ r.access = t /\ r.refresh = t
<1>1. t \in {None} \cup Tokens
  OBVIOUS
<1>2. [s EXCEPT !.access = t, !.refresh = t] \in Stores
  BY <1>1, Zenon DEF Stores
<1> QED
  BY <1>2 DEF Stores

LEMMA LoadedStore ==
  ASSUME NEW t \in {None} \cup Tokens, NEW u \in {None} \cup Sessions
  PROVE  LET r == [Empty EXCEPT !.refresh = t, !.user = u]
         IN r \in Stores /\ r.user = u /\ r.access = None /\ r.refresh = t
<1>1. Empty \in Stores /\ Empty.access = None
  <2>1. Empty \in Stores
    BY Zenon DEF Empty, Stores
  <2> QED
    BY <2>1 DEF Empty
<1>2. [Empty EXCEPT !.refresh = t, !.user = u] \in Stores
  BY <1>1, Zenon DEF Stores
<1> QED
  BY <1>1, <1>2 DEF Stores

LEMMA SentCall ==
  ASSUME NEW c, NEW b \in BOOLEAN, NEW s \in Stores
  PROVE  Send(c, b, s) \in Calls /\ Send(c, b, s).pc = "sent"
<1>1. s.access \in {None} \cup Tokens
  BY DEF Stores
<1>2. Send(c, b, s) \in Calls
  BY <1>1, Zenon DEF Send, Calls
<1> QED
  BY <1>2 DEF Send

LEMMA IdleCall == Idle \in Calls /\ Idle.pc = "idle"
<1>1. Idle \in Calls
  BY Zenon DEF Idle, Calls
<1> QED
  BY <1>1 DEF Idle

LEMMA WaitingCall ==
  ASSUME NEW k \in Calls
  PROVE  [k EXCEPT !.pc = "waiting"] \in Calls /\ [k EXCEPT !.pc = "waiting"].pc = "waiting"
<1>1. [k EXCEPT !.pc = "waiting"] \in Calls
  BY Zenon DEF Calls
<1> QED
  BY <1>1 DEF Calls

LEMMA StartedExchange ==
  ASSUME NEW t \in Tokens
  PROVE  LET f == Exchange(t, 0)
         IN f \in Exchanges /\ f.rt = t /\ f.answer = None /\ f.live
<1>1. Exchange(t, 0) \in Exchanges
  BY Zenon DEF Exchange, Exchanges
<1> QED
  BY <1>1 DEF Exchange

LEMMA AnsweredExchange ==
  ASSUME NEW f \in Exchanges, NEW a \in {None, Rejected} \cup Tokens
  PROVE  LET g == [f EXCEPT !.answer = a]
         IN g \in Exchanges /\ g.rt = f.rt /\ g.answer = a /\ (g.live <=> f.live)
<1>1. [f EXCEPT !.answer = a] \in Exchanges
  BY Zenon DEF Exchanges
<1> QED
  BY <1>1 DEF Exchanges

LEMMA AbandonedExchange ==
  ASSUME NEW f \in Exchanges
  PROVE  LET g == [f EXCEPT !.live = FALSE]
         IN g \in Exchanges /\ g.rt = f.rt /\ g.answer = f.answer /\ ~g.live
<1>1. [f EXCEPT !.live = FALSE] \in Exchanges
  BY Zenon DEF Exchanges
<1> QED
  BY <1>1 DEF Exchanges

-----------------------------------------------------------------------------
(* Calls *)

SameSession(s, r) == r.access = s.access /\ r.refresh = s.refresh /\ r.user = s.user
NoSession(r) == r.access = None /\ r.refresh = None /\ r.user = None

(* A caller sends or settles; the session stays or ends. *)
LEMMA CallMoves ==
  ASSUME IInv, NEW c \in Callers, NEW k \in Calls, k.pc # "waiting", call' = [call EXCEPT ![c] = k],
         store' \in Stores, saved' \in {None} \cup Sessions, SameSession(store, store') \/ NoSession(store'),
         UNCHANGED <<fetches, promise, restoring, ready, issued, owner, exchanged, lost, crossed, logins, reloads>>
  PROVE  IInv'
<1>1. Types'
  BY DEF IInv, Types
<1>2. Known'
  BY Bounds DEF IInv, Types, Known, SameSession, NoSession
<1>3. OneExchange'
  <2>1. \A b \in Callers : call'[b].pc = "waiting" => call[b].pc = "waiting"
    BY DEF IInv, Types
  <2> QED
    BY <2>1 DEF IInv, OneExchange
<1>4. PairOnItsWay'
  BY Bounds DEF IInv, PairOnItsWay, SameSession, NoSession
<1>5. SpentIsLost'
  <2>1. None \notin exchanged
    BY Bounds DEF IInv, Types
  <2> QED
    BY <2>1 DEF IInv, SpentIsLost, SameSession, NoSession
<1>6. OneSession'
  BY DEF IInv, OneSession, SameSession, NoSession
<1> QED
  BY <1>1, <1>2, <1>3, <1>4, <1>5, <1>6 DEF IInv

LEMMA RequestKeeps ==
  ASSUME IInv, NEW c \in Callers, Request(c)
  PROVE  IInv'
<1>1. /\ UNCHANGED <<fetches, promise, restoring, ready, issued, owner, exchanged, lost, crossed, logins, reloads>>
      /\ store' = store /\ saved' = saved /\ call' = [call EXCEPT ![c] = Send(c, FALSE, store)]
  BY DEF Request, server, history
<1>2. store' \in Stores /\ saved' \in {None} \cup Sessions /\ SameSession(store, store')
  BY <1>1 DEF IInv, Types, SameSession
<1>3. PICK k : k = Send(c, FALSE, store)
  OBVIOUS
<1>4. k \in Calls /\ k.pc = "sent"
  BY <1>3, SentCall DEF IInv, Types
<1> QED
  BY <1>1, <1>2, <1>3, <1>4, CallMoves

(* Finish with the store as it is, with another must, or wiped. *)
LEMMA FinishKeeps ==
  ASSUME IInv, NEW c \in Callers, NEW s \in Stores, SameSession(store, s) \/ NoSession(s), Finish(c, s),
         UNCHANGED <<fetches, promise, restoring, ready, issued, owner, exchanged, lost, crossed, logins, reloads>>
  PROVE  IInv'
<1>1. PICK r : r = IF c = "logout" THEN Wiped(store) ELSE s
  OBVIOUS
<1>2. r \in Stores /\ (SameSession(store, r) \/ NoSession(r))
  BY <1>1, WipedStore DEF IInv, Types, NoSession
<1>3. store' = r /\ saved' \in {r.user, saved} /\ call' = [call EXCEPT ![c] = Idle]
  BY <1>1 DEF Finish, Keep
<1>4. saved' \in {None} \cup Sessions
  BY <1>2, <1>3 DEF IInv, Types, Stores
<1> QED
  BY <1>2, <1>3, <1>4, IdleCall, CallMoves

LEMMA SettlesKeeps ==
  ASSUME IInv, NEW c \in Callers, RequestFails(c) \/ RequestOk(c) \/ Request401Ends(c)
  PROVE  IInv'
<1>1. UNCHANGED <<fetches, promise, restoring, ready, issued, owner, exchanged, lost, crossed, logins, reloads>>
  BY DEF RequestFails, RequestOk, Request401Ends, server, history
<1>2. store \in Stores /\ SameSession(store, store)
  BY DEF IInv, Types, SameSession
<1>3. PICK s : Finish(c, s) /\ (s = store \/ s = Wiped(store) \/ \E b \in {store.must, FALSE} : s = [store EXCEPT !.must = b])
  BY DEF RequestFails, RequestOk, Request401Ends, PasswordAfter
<1>4. s \in Stores /\ (SameSession(store, s) \/ NoSession(s))
  <2>1. CASE s = store
    BY <1>2, <2>1
  <2>2. CASE s = Wiped(store)
    BY <1>2, <2>2, WipedStore DEF NoSession
  <2>3. CASE \E b \in {store.must, FALSE} : s = [store EXCEPT !.must = b]
    <3>1. PICK b \in {store.must, FALSE} : s = [store EXCEPT !.must = b]
      BY <2>3
    <3>2. store.must \in BOOLEAN
      BY <1>2, Zenon DEF Stores
    <3>3. b \in BOOLEAN
      BY <3>1, <3>2, Zenon
    <3> QED
      BY <1>2, <3>1, <3>3, MustStore DEF SameSession
  <2> QED
    BY <1>3, <2>1, <2>2, <2>3
<1> QED
  BY <1>1, <1>3, <1>4, FinishKeeps

-----------------------------------------------------------------------------
(* A refresh starts, or somebody joins the one under way *)

LEMMA ExchangeStarts ==
  ASSUME IInv, StartRefresh, promise \/ store.refresh # None,
         store' \in Stores, SameSession(store, store'),
         call' \in [Callers -> Calls], \A c \in Callers : call'[c].pc = "idle" <=> call[c].pc = "idle",
         restoring' = restoring \/ (restoring' = "init" /\ ~ready),
         UNCHANGED <<saved, ready, issued, owner, exchanged, lost, crossed, logins, reloads>>
  PROVE  IInv'
<1>1. promise' /\ ((promise /\ fetches' = fetches) \/ (~promise /\ fetches' = fetches \cup {Exchange(store.refresh, 0)}))
  BY DEF StartRefresh
<1>2. PICK e : e = Exchange(store.refresh, 0)
  OBVIOUS
<1>3. ~promise => /\ fetches' = fetches \cup {e} /\ store.refresh \in Tokens /\ \A f \in fetches : ~f.live
                  /\ e \in Exchanges /\ e.rt = store.refresh /\ e.answer = None /\ e.live
  <2>1. ~promise => store.refresh \in Tokens
    BY DEF IInv, Types, Stores
  <2> QED
    BY <1>1, <1>2, <2>1, StartedExchange DEF IInv, OneExchange
<1>4. Types'
  BY <1>1, <1>3 DEF IInv, Types
<1>5. Known'
  BY <1>1, <1>3, Bounds DEF IInv, Known, SameSession
<1>6. OneExchange'
  <2>1. CASE promise
    BY <1>1, <2>1 DEF IInv, OneExchange
  <2>2. CASE ~promise
    <3>1. \A f \in fetches' : (f = e \/ ~f.live) /\ (~f.live => f.answer = None)
      BY <1>3, <2>2 DEF IInv, OneExchange
    <3> QED
      BY <1>1, <1>3, <2>2, <3>1 DEF OneExchange
  <2> QED
    BY <2>1, <2>2
<1>7. PairOnItsWay'
  BY <1>1, <1>3, Bounds DEF IInv, PairOnItsWay, SameSession
<1>8. SpentIsLost'
  BY <1>1, <1>3, Bounds DEF IInv, SpentIsLost, SameSession
<1>9. OneSession'
  <2>1. ready' /\ store'.user # None => store'.access # None /\ store'.refresh # None
    BY DEF IInv, OneSession, SameSession
  <2>2. ready' /\ store'.user # None /\ restoring' # "register" /\ ~crossed' =>
             /\ owner'[store'.access] = store'.user /\ owner'[store'.refresh] = store'.user
             /\ \A f \in fetches' : f.live =>
                  owner'[f.rt] = store'.user /\ (f.answer \in Tokens => owner'[f.answer] = store'.user)
    BY <1>1, <1>3, Bounds DEF IInv, OneSession, SameSession
  <2> QED
    BY <2>1, <2>2 DEF OneSession
<1> QED
  BY <1>4, <1>5, <1>6, <1>7, <1>8, <1>9 DEF IInv

LEMMA WaitsKeeps ==
  ASSUME IInv, NEW c \in Callers, Request401Waits(c)
  PROVE  IInv'
<1>1. /\ UNCHANGED <<saved, ready, issued, owner, exchanged, lost, crossed, logins, reloads>>
      /\ StartRefresh /\ (promise \/ store.refresh # None) /\ store' = store /\ restoring' = restoring
      /\ call[c].pc = "sent" /\ call' = [call EXCEPT ![c] = [call[c] EXCEPT !.pc = "waiting"]]
  BY DEF Request401Waits, server, history
<1>2. store' \in Stores /\ SameSession(store, store')
  BY <1>1 DEF IInv, Types, SameSession
<1>3. [call[c] EXCEPT !.pc = "waiting"] \in Calls /\ [call[c] EXCEPT !.pc = "waiting"].pc = "waiting"
  BY WaitingCall DEF IInv, Types
<1>4. call' \in [Callers -> Calls] /\ \A b \in Callers : call'[b].pc = "idle" <=> call[b].pc = "idle"
  BY <1>1, <1>3 DEF IInv, Types
<1> QED
  BY <1>1, <1>2, <1>4, ExchangeStarts

LEMMA TimerKeeps ==
  ASSUME IInv, TimerFires
  PROVE  IInv'
<1>1. /\ UNCHANGED <<saved, ready, issued, owner, exchanged, lost, crossed, logins, reloads>>
      /\ store' = [store EXCEPT !.timer = FALSE] /\ call' = call /\ restoring' = restoring
  BY DEF TimerFires, server, history
<1>2. store' \in Stores /\ SameSession(store, store') /\ call' \in [Callers -> Calls]
  BY <1>1, TimerStore DEF IInv, Types, SameSession
<1>3. CASE promise \/ store.refresh # None
  <2>1. StartRefresh
    BY <1>3 DEF TimerFires
  <2> QED
    BY <1>1, <1>2, <1>3, <2>1, ExchangeStarts
<1>4. CASE ~(promise \/ store.refresh # None)
  <2>1. promise' = promise /\ fetches' = fetches
    BY <1>4 DEF TimerFires
  <2>2. PICK c : c = "logout"
    OBVIOUS
  <2>3. c \in Callers /\ call[c] \in Calls /\ call' = [call EXCEPT ![c] = call[c]]
    BY <1>1, <2>2 DEF Callers, IInv, Types
  <2>4. call[c].pc # "waiting"
    BY <1>4, <2>3 DEF IInv, OneExchange
  <2>5. saved' \in {None} \cup Sessions
    BY <1>1 DEF IInv, Types
  <2> QED
    BY <1>1, <1>2, <2>1, <2>2, <2>3, <2>4, <2>5, CallMoves
<1> QED
  BY <1>3, <1>4

LEMMA OtherTabKeeps ==
  ASSUME IInv, OtherTabOpens
  PROVE  IInv'
<1>1. /\ UNCHANGED <<store, call, fetches, promise, restoring, ready, issued, owner, exchanged>>
      /\ UNCHANGED <<lost, crossed, logins, reloads>> /\ saved' = None
  BY DEF OtherTabOpens, server, history
<1> QED
  BY <1>1 DEF IInv, Types, Known, OneExchange, PairOnItsWay, SpentIsLost, OneSession

LEMMA InitAuthKeeps ==
  ASSUME IInv, InitAuth
  PROVE  IInv'
<1>1. /\ UNCHANGED <<issued, owner, exchanged, lost, crossed, logins, reloads>> /\ call' = call
      /\ ~ready /\ restoring = "no"
  BY DEF InitAuth, server, history
<1>2. store \in Stores /\ call \in [Callers -> Calls]
  BY DEF IInv, Types
<1>3. CASE ~(store.user = None \/ store.refresh = None)
  <2>1. restoring' = "init" /\ StartRefresh /\ UNCHANGED <<store, saved, ready>>
    BY <1>3 DEF InitAuth
  <2>2. store' \in Stores /\ SameSession(store, store') /\ call' \in [Callers -> Calls]
    BY <1>1, <1>2, <2>1 DEF SameSession
  <2> QED
    BY <1>1, <1>3, <2>1, <2>2, ExchangeStarts
<1>4. CASE store.user = None \/ store.refresh = None
  <2>1. ready' = TRUE /\ Keep(IF store.user = None THEN store ELSE Wiped(store)) /\ UNCHANGED <<promise, fetches, restoring>>
    BY <1>4 DEF InitAuth
  <2>2. /\ store' \in Stores /\ (SameSession(store, store') \/ NoSession(store')) /\ store'.user = None
        /\ saved' \in {saved, store'.user}
    BY <1>2, <2>1, WipedStore DEF Keep, SameSession, NoSession
  <2>3. Types'
    BY <1>1, <2>1, <2>2 DEF IInv, Types
  <2>4. Known' /\ OneExchange' /\ PairOnItsWay'
    <3>1. Known'
      BY <1>1, <2>1, <2>2, Bounds DEF IInv, Types, Known, SameSession, NoSession
    <3>2. OneExchange'
      BY <1>1, <2>1 DEF IInv, OneExchange
    <3>3. PairOnItsWay'
      BY <1>1, <2>1, <2>2, Bounds DEF IInv, PairOnItsWay, SameSession, NoSession
    <3> QED
      BY <3>1, <3>2, <3>3
  <2>5. None \notin exchanged
    BY Bounds DEF IInv, Types
  <2>6. SpentIsLost'
    BY <1>1, <2>1, <2>2, <2>5 DEF IInv, SpentIsLost, SameSession, NoSession
  <2>7. OneSession'
    BY <1>1, <2>1, <2>2 DEF IInv, OneSession
  <2> QED
    BY <2>3, <2>4, <2>6, <2>7 DEF IInv
<1> QED
  BY <1>3, <1>4

-----------------------------------------------------------------------------
(* Sessions start *)

LEMMA LoginKeeps ==
  ASSUME IInv, LoginOk
  PROVE  IInv'
<1> DEFINE s == logins + 1
           t == issued + 1
<1>1. PICK must \in BOOLEAN : Finish("login", [SetTokens(store, t) EXCEPT !.user = s, !.must = must])
  BY DEF LoginOk
<1>2. /\ call["login"].pc = "sent" /\ logins < MaxLogins /\ issued < MaxTokens
      /\ logins' = s /\ issued' = t /\ owner' = [owner EXCEPT ![t] = s]
      /\ crossed' = (crossed \/ Crosses)
      /\ UNCHANGED <<fetches, promise, restoring, ready, exchanged, lost, reloads>>
  BY DEF LoginOk, Fresh
<1>3. s \in Sessions /\ t \in Tokens /\ t > issued /\ store \in Stores /\ "login" \in Callers /\ "register" \in Callers
  BY <1>2, Bounds DEF IInv, Types, Callers
<1>4. PICK r : r = [SetTokens(store, t) EXCEPT !.user = s, !.must = must]
  OBVIOUS
<1>5. r \in Stores /\ r.access = t /\ r.refresh = t /\ r.user = s
  <2>1. PICK q : q = SetTokens(store, t)
    OBVIOUS
  <2>2. q \in Stores /\ q.access = t /\ q.refresh = t
    BY <1>3, <2>1, SetTokensStore
  <2>3. r = [q EXCEPT !.user = s, !.must = must]
    BY <1>4, <2>1
  <2>4. s \in {None} \cup Sessions
    BY <1>3
  <2> HIDE DEF s
  <2>5. r \in Stores
    BY <1>1, <2>2, <2>3, <2>4, Zenon DEF Stores
  <2> QED
    BY <2>2, <2>3, <2>5 DEF Stores
<1> HIDE DEF s, t
<1>6. store' = r /\ saved' \in {r.user, saved} /\ call' = [call EXCEPT !["login"] = Idle]
  BY <1>1, <1>4 DEF Finish, Keep
<1>7. Types'
  BY <1>2, <1>3, <1>5, <1>6, IdleCall, Bounds DEF IInv, Types, t, s
<1>8. Known'
  BY <1>2, <1>3, <1>5, <1>6, Bounds DEF IInv, Types, Known, t, Exchanges
<1>9. OneExchange'
  BY <1>2, <1>3, <1>6, IdleCall DEF IInv, Types, OneExchange
<1>10. t \notin exchanged /\ \A f \in fetches : f.answer \in Tokens => f.answer # t
  BY <1>3 DEF IInv, Types, Known, t
<1>11. PairOnItsWay' /\ SpentIsLost'
  BY <1>2, <1>5, <1>6, <1>10 DEF IInv, PairOnItsWay, SpentIsLost
<1>12. OneSession'
  <2>1. owner'[t] = s
    BY <1>2, <1>3 DEF IInv, Types
  <2>2. ~crossed' => \A f \in fetches' : ~f.live
    BY <1>2 DEF Crosses
  <2> QED
    BY <1>3, <1>5, <1>6, <2>1, <2>2, Bounds DEF OneSession
<1> QED
  BY <1>7, <1>8, <1>9, <1>11, <1>12 DEF IInv

LEMMA RegisterKeeps ==
  ASSUME IInv, RegisterOk
  PROVE  IInv'
<1> DEFINE s == logins + 1
           t == issued + 1
<1>1. /\ call["register"].pc = "sent" /\ logins < MaxLogins /\ issued < MaxTokens
      /\ logins' = s /\ issued' = t /\ owner' = [owner EXCEPT ![t] = s]
      /\ call' = [call EXCEPT !["register"] = Idle] /\ store' = [store EXCEPT !.access = t, !.refresh = t]
      /\ restoring' = "register" /\ promise'
      /\ UNCHANGED <<saved, ready, exchanged, lost, reloads>>
      /\ (promise /\ fetches' = fetches) \/ (~promise /\ fetches' = fetches \cup {Exchange(t, 0)})
  BY DEF RegisterOk, Fresh
<1>2. s \in Sessions /\ t \in Tokens /\ t > issued /\ store \in Stores /\ "login" \in Callers /\ "register" \in Callers
  BY <1>1, Bounds DEF IInv, Types, Callers
<1>3. store' \in Stores /\ store'.access = t /\ store'.refresh = t /\ store'.user = store.user
  BY <1>1, <1>2, PairStore
<1>4. PICK e : e = Exchange(t, 0)
  OBVIOUS
<1>5. /\ e \in Exchanges /\ e.rt = t /\ e.answer = None /\ e.live
      /\ ~promise => fetches' = fetches \cup {e} /\ \A f \in fetches : ~f.live
  BY <1>1, <1>2, <1>4, StartedExchange DEF IInv, OneExchange
<1> HIDE DEF s, t
<1>6. Types'
  BY <1>1, <1>2, <1>3, <1>5, IdleCall, Bounds DEF IInv, Types, t, s
<1>7. Known'
  BY <1>1, <1>2, <1>3, <1>5, Bounds DEF IInv, Types, Known, t, Exchanges
<1>8. OneExchange'
  <2>1. CASE promise
    BY <1>1, <2>1 DEF IInv, OneExchange
  <2>2. CASE ~promise
    <3>1. \A f \in fetches' : (f = e \/ ~f.live) /\ (~f.live => f.answer = None)
      BY <1>5, <2>2 DEF IInv, OneExchange
    <3> QED
      BY <1>1, <1>5, <2>2, <3>1 DEF OneExchange
  <2> QED
    BY <2>1, <2>2
<1>9. t \notin exchanged /\ \A f \in fetches : f.answer \in Tokens => f.answer # t
  BY <1>2 DEF IInv, Types, Known, t
<1>10. PairOnItsWay'
  BY <1>1, <1>3, <1>5, <1>9, Bounds DEF IInv, PairOnItsWay
<1>11. SpentIsLost'
  BY <1>1, <1>3, <1>5, <1>9 DEF IInv, SpentIsLost
<1>12. OneSession'
  BY <1>1, <1>2, <1>3, Bounds DEF OneSession
<1> QED
  BY <1>6, <1>7, <1>8, <1>10, <1>11, <1>12 DEF IInv

-----------------------------------------------------------------------------
(* The exchange *)

(* The server takes a token that nobody has exchanged: the answer goes out, *)
(* or to a page that is gone.                                               *)
LEMMA ServerKeeps ==
  ASSUME IInv, NEW f \in fetches, ServerExchanges(f)
  PROVE  IInv'
<1>1. /\ f \in Exchanges /\ f.rt \in Tokens /\ f.answer = None /\ f.rt <= issued
      /\ store \in Stores /\ issued \in Nat /\ issued <= MaxTokens
  BY DEF IInv, Types, Known, Exchanges, ServerExchanges
<1>2. UNCHANGED <<store, saved, call, promise, restoring, ready, crossed, logins, reloads>>
  BY DEF ServerExchanges
<1>3. ASSUME NEW a \in Tokens \cup {Rejected}, NEW ex, NEW ls,
             fetches' = (fetches \ {f}) \cup (IF f.live THEN {[f EXCEPT !.answer = a]} ELSE {}),
             exchanged' = ex, lost' = ls, ls \subseteq ex,
             exchanged \subseteq ex, lost \subseteq ls,
             \/ a = Rejected /\ ex = exchanged /\ ls = lost /\ issued' = issued /\ owner' = owner
             \/ /\ a \in Tokens /\ a = issued + 1 /\ issued' = a /\ owner' = [owner EXCEPT ![a] = owner[f.rt]]
                /\ f.rt \notin exchanged /\ ex = exchanged \cup {f.rt}
                /\ ls = IF f.live THEN lost ELSE lost \cup {f.rt}
      PROVE  IInv'
  <2>1. PICK g : g = [f EXCEPT !.answer = a]
    OBVIOUS
  <2>2. g \in Exchanges /\ g.rt = f.rt /\ g.answer = a /\ (g.live <=> f.live)
    BY <1>1, <1>3, <2>1, AnsweredExchange
  <2>3. \A h \in fetches' : (h \in fetches /\ h # f) \/ (f.live /\ h = g)
    BY <1>3, <2>1
  <2>4. /\ f.live => g \in fetches'
        /\ \A h \in fetches : h # f => h \in fetches'
        /\ f.live => \A h \in fetches : h # f => ~h.live
    BY <1>3, <2>1 DEF IInv, OneExchange
  <2>5. issued' >= issued /\ issued' \in 0 .. MaxTokens /\ (a \in Tokens => a = issued + 1 /\ issued' = a)
    BY <1>1, <1>3, Bounds
  <2>6. Types'
    <3>1. owner' \in [Tokens -> {None} \cup Sessions]
      BY <1>1, <1>3, Bounds DEF IInv, Types
    <3>2. fetches' \subseteq Exchanges
      BY <2>2, <2>3 DEF IInv, Types
    <3>3. exchanged' \subseteq 1 .. issued'
      BY <1>1, <1>3, <2>5, Bounds DEF IInv, Types
    <3> QED
      BY <1>2, <1>3, <2>5, <3>1, <3>2, <3>3 DEF IInv, Types
  <2>7. Known'
    <3>1. Known /\ issued \in Nat /\ issued' \in Nat /\ issued' >= issued
      <4>1. issued \in 0 .. MaxTokens
        BY DEF IInv, Types
      <4>2. Known
        BY DEF IInv
      <4> QED
        BY <2>5, <4>1, <4>2
    <3>2. store.access <= issued' /\ store.refresh <= issued' /\ store' = store
      <4>1. store.access \in Nat /\ store.refresh \in Nat /\ store' = store
        BY <1>2, Bounds DEF IInv, Types, Stores
      <4> QED
        BY <3>1, <4>1 DEF Known
    <3>3. f \in fetches /\ f.rt \in Nat /\ \A h \in fetches : h.rt \in Nat
      BY <1>1, Bounds DEF IInv, Types, Exchanges
    <3>4. \A h \in fetches : h.rt <= issued' /\ (h.answer \in Tokens => h.answer <= issued')
      BY <3>1, <3>3, Bounds DEF Known
    <3>5. g.rt <= issued' /\ (g.answer \in Tokens => g.answer <= issued')
      BY <2>2, <2>5, <3>1, <3>3, <3>4
    <3>6. \A h \in fetches' : h.rt <= issued' /\ (h.answer \in Tokens => h.answer <= issued')
      BY <2>3, <3>4, <3>5
    <3> QED
      BY <3>2, <3>6 DEF Known
  <2>8. OneExchange'
    <3>1. promise' => \E h \in fetches' : h.live
      BY <1>2, <2>2, <2>4 DEF IInv, OneExchange
    <3>2. \A h, k \in fetches' : h.live /\ k.live => h = k
      BY <2>3, <2>4 DEF IInv, OneExchange
    <3> QED
      BY <1>2, <2>2, <2>3, <3>1, <3>2 DEF IInv, OneExchange
  <2>9. PairOnItsWay'
    <3> SUFFICES ASSUME NEW h \in fetches', h.live, h.answer \in Tokens
                 PROVE  /\ h.rt \in exchanged' /\ h.answer \notin exchanged' /\ h.answer # store'.refresh
                        /\ \A k \in fetches' : k.rt # h.answer
      BY DEF PairOnItsWay
    <3>1. CASE h = g
      <4>1. a = issued + 1 /\ f.rt \in exchanged' /\ a \notin exchanged'
        BY <1>1, <1>3, <2>2, <2>5, <3>1, Bounds DEF IInv, Types
      <4>2. a # store'.refresh /\ \A k \in fetches' : k.rt # a
        BY <1>1, <1>2, <2>2, <2>3, <4>1, Bounds DEF IInv, Types, Known, Stores, Exchanges
      <4> QED
        BY <2>2, <3>1, <4>1, <4>2
    <3>2. CASE h # g
      <4>1. h \in fetches /\ h # f /\ ~f.live
        BY <2>3, <2>4, <3>2
      <4>2. h.rt \in exchanged /\ h.answer \notin exchanged /\ h.answer # store.refresh /\ f.rt # h.answer
            /\ \A k \in fetches : k.rt # h.answer
        BY <4>1 DEF IInv, PairOnItsWay
      <4> QED
        BY <1>2, <1>3, <2>3, <4>1, <4>2
    <3> QED
      BY <3>1, <3>2
  <2>10. SpentIsLost'
    <3>1. \A h \in fetches' : h.live /\ h.answer = None /\ h.rt \in exchanged' => h.rt \in lost'
      <4> SUFFICES ASSUME NEW h \in fetches', h.live, h.answer = None, h.rt \in exchanged' PROVE h.rt \in lost'
        OBVIOUS
      <4>1. h \in fetches /\ h # f /\ ~f.live
        BY <2>2, <2>3, <2>4, Bounds
      <4> QED
        BY <1>3, <4>1 DEF IInv, SpentIsLost
    <3>2. ASSUME store'.refresh \in exchanged'
          PROVE  store'.refresh \in lost' \/ \E h \in fetches' : h.live /\ h.rt = store'.refresh /\ h.answer \in Tokens
      <4>1. CASE store.refresh \in exchanged
        <5>1. store.refresh \in lost \/ \E h \in fetches : h.live /\ h.rt = store.refresh /\ h.answer \in Tokens
          BY <4>1 DEF IInv, SpentIsLost
        <5> QED
          BY <1>1, <1>2, <1>3, <2>4, <5>1, Bounds
      <4>2. CASE store.refresh \notin exchanged
        <5>1. store.refresh = f.rt /\ a \in Tokens /\ (~f.live => f.rt \in lost')
          BY <1>2, <1>3, <3>2, <4>2
        <5> QED
          BY <1>2, <2>2, <2>4, <5>1
      <4> QED
        BY <4>1, <4>2
    <3> QED
      BY <3>1, <3>2 DEF SpentIsLost
  <2>11. OneSession'
    <3>1. \A x \in Tokens : x <= issued => owner'[x] = owner[x]
      BY <1>1, <1>3, Bounds DEF IInv, Types
    <3>2. a \in Tokens => owner'[a] = owner[f.rt]
      BY <1>1, <1>3, Bounds DEF IInv, Types
    <3>3. ready' /\ store'.user # None /\ restoring' # "register" /\ ~crossed' =>
             /\ owner'[store'.access] = store'.user /\ owner'[store'.refresh] = store'.user
             /\ \A h \in fetches' : h.live =>
                  owner'[h.rt] = store'.user /\ (h.answer \in Tokens => owner'[h.answer] = store'.user)
      <4> SUFFICES ASSUME ready, store.user # None, restoring # "register", ~crossed
                   PROVE  /\ owner'[store.access] = store.user /\ owner'[store.refresh] = store.user
                          /\ \A h \in fetches' : h.live =>
                               owner'[h.rt] = store.user /\ (h.answer \in Tokens => owner'[h.answer] = store.user)
        BY <1>2
      <4>1. /\ store.access \in Tokens /\ store.refresh \in Tokens
            /\ store.access <= issued /\ store.refresh <= issued
        BY <1>1 DEF IInv, OneSession, Known, Stores
      <4>2. /\ owner[store.access] = store.user /\ owner[store.refresh] = store.user
            /\ \A h \in fetches : h.live =>
                 owner[h.rt] = store.user /\ (h.answer \in Tokens => owner[h.answer] = store.user)
        BY DEF IInv, OneSession
      <4>3. \A h \in fetches : h.rt \in Tokens /\ h.rt <= issued /\ (h.answer \in Tokens => h.answer <= issued)
        BY DEF IInv, Types, Known, Exchanges
      <4> QED
        BY <2>2, <2>3, <3>1, <3>2, <4>1, <4>2, <4>3
    <3> QED
      BY <1>2, <3>3 DEF IInv, OneSession
  <2> QED
    BY <2>6, <2>7, <2>8, <2>9, <2>10, <2>11 DEF IInv
<1>4. CASE /\ f.rt \notin exchanged /\ issued < MaxTokens /\ Fresh(owner[f.rt])
           /\ exchanged' = exchanged \cup {f.rt}
           /\ fetches' = (fetches \ {f}) \cup (IF f.live THEN {[f EXCEPT !.answer = issued + 1]} ELSE {})
           /\ lost' = IF f.live THEN lost ELSE lost \cup {f.rt}
  <2>1. PICK a : a = issued + 1
    OBVIOUS
  <2>2. a \in Tokens
    BY <1>1, <1>4, <2>1, Bounds
  <2>3. issued' = a /\ owner' = [owner EXCEPT ![a] = owner[f.rt]]
    BY <1>4, <2>1 DEF Fresh
  <2>4. PICK ex, ls : ex = exchanged' /\ ls = lost'
    OBVIOUS
  <2>5. /\ ls \subseteq ex /\ exchanged \subseteq ex /\ lost \subseteq ls /\ ex = exchanged \cup {f.rt}
        /\ ls = IF f.live THEN lost ELSE lost \cup {f.rt}
    BY <1>4, <2>4 DEF IInv, Types
  <2>6. fetches' = (fetches \ {f}) \cup (IF f.live THEN {[f EXCEPT !.answer = a]} ELSE {})
    BY <1>4, <2>1
  <2> QED
    BY <1>3, <1>4, <2>1, <2>2, <2>3, <2>4, <2>5, <2>6
<1>5. CASE /\ fetches' = (fetches \ {f}) \cup (IF f.live THEN {[f EXCEPT !.answer = Rejected]} ELSE {})
           /\ UNCHANGED <<issued, owner, exchanged, lost>>
  <2>1. lost \subseteq exchanged
    BY DEF IInv, Types
  <2> QED
    BY <1>3, <1>5, <2>1
<1> QED
  BY <1>4, <1>5 DEF ServerExchanges

(* The pair arrives: nobody waits any more, and nobody else has it. *)
LEMMA ArrivesKeeps ==
  ASSUME IInv, NEW f \in fetches, RefreshArrives(f)
  PROVE  IInv'
<1>1. /\ f \in Exchanges /\ f.live /\ f.answer \in Tokens /\ f.answer <= issued
      /\ store \in Stores /\ call \in [Callers -> Calls] /\ issued \in Nat
      /\ \A g \in fetches : g # f => ~g.live
  BY DEF IInv, Types, Known, OneExchange, RefreshArrives
<1>2. PICK s : s = SetTokens(store, f.answer)
  OBVIOUS
<1>3. s \in Stores /\ s.access = f.answer /\ s.refresh = f.answer /\ s.user = store.user
  BY <1>1, <1>2, SetTokensStore
<1>4. PICK u : u = Restored(s, f.answer)
  OBVIOUS
<1>5. /\ u \in Stores /\ u.access = f.answer /\ u.refresh = f.answer
      /\ restoring = "no" => u.user = store.user
      /\ restoring # "no" => u.user = owner[f.answer]
  <2>1. owner[f.answer] \in {None} \cup Sessions
    BY <1>1 DEF IInv, Types
  <2> QED
    BY <1>3, <1>4, <2>1, UserStore DEF Restored
<1>6. /\ store' = u /\ saved' \in {saved, u.user} /\ call' = Resumed(s)
      /\ ready' = (ready \/ restoring = "init") /\ restoring' = "no" /\ ~promise' /\ fetches' = fetches \ {f}
      /\ UNCHANGED <<issued, owner, exchanged, lost, crossed, logins, reloads>>
  BY <1>2, <1>4 DEF RefreshArrives, Settled, server, history
<1>7. /\ call' \in [Callers -> Calls]
      /\ \A c \in Callers : call'[c].pc # "waiting" /\ (call'[c].pc = "idle" <=> call[c].pc = "idle")
  <2>1. \A c \in Callers : call'[c] = IF call[c].pc = "waiting" THEN Send(c, TRUE, s) ELSE call[c]
    BY <1>6 DEF Resumed, Waiting
  <2>2. \A c \in Callers : call'[c] \in Calls /\ call'[c].pc # "waiting" /\ (call'[c].pc = "idle" <=> call[c].pc = "idle")
    BY <1>1, <1>3, <2>1, SentCall
  <2>3. call' = [c \in Callers |-> call'[c]]
    BY <1>6 DEF Resumed
  <2> QED
    BY <2>2, <2>3
<1>8. Types'
  BY <1>5, <1>6, <1>7 DEF IInv, Types, Stores
<1>9. Known'
  BY <1>1, <1>5, <1>6 DEF IInv, Known
<1>10. OneExchange'
  BY <1>1, <1>6, <1>7 DEF IInv, OneExchange
<1>11. PairOnItsWay'
  BY <1>1, <1>6 DEF PairOnItsWay
<1>12. SpentIsLost'
  <2>1. f.answer \notin exchanged
    BY <1>1 DEF IInv, PairOnItsWay
  <2> QED
    BY <1>1, <1>5, <1>6, <2>1 DEF SpentIsLost
<1>13. OneSession'
  <2>1. ready' /\ store'.user # None => store'.access # None /\ store'.refresh # None
    BY <1>1, <1>5, <1>6, Bounds
  <2>2. ready' /\ store'.user # None /\ ~crossed' =>
           owner'[store'.access] = store'.user /\ owner'[store'.refresh] = store'.user
    <3>1. CASE restoring = "no"
      BY <1>1, <1>5, <1>6, <3>1 DEF IInv, OneSession
    <3>2. CASE restoring # "no"
      BY <1>5, <1>6, <3>2
    <3> QED
      BY <3>1, <3>2
  <2> QED
    BY <1>1, <1>6, <2>1, <2>2 DEF OneSession
<1> QED
  BY <1>8, <1>9, <1>10, <1>11, <1>12, <1>13 DEF IInv

(* The exchange fails on its way out or back. *)
LEMMA FailsKeeps ==
  ASSUME IInv, NEW f \in fetches, RefreshFails(f)
  PROVE  IInv'
<1>1. /\ f \in Exchanges /\ f.live /\ store \in Stores /\ call \in [Callers -> Calls]
      /\ \A g \in fetches : g # f => ~g.live
  BY DEF IInv, Types, OneExchange, RefreshFails
<1>2. PICK e : e = [f EXCEPT !.live = FALSE]
  OBVIOUS
<1>3. e \in Exchanges /\ e.rt = f.rt /\ e.answer = f.answer /\ ~e.live
  BY <1>1, <1>2, AbandonedExchange
<1>4. /\ fetches' = (fetches \ {f}) \cup (IF f.answer = None THEN {e} ELSE {})
      /\ ready' = (ready \/ restoring = "init") /\ restoring' = "no" /\ ~promise'
      /\ lost' = IF f.answer \in Tokens THEN lost \cup {f.rt} ELSE lost
      /\ call' = [c \in Callers |-> IF c \in Waiting THEN Idle ELSE call[c]]
      /\ UNCHANGED <<issued, owner, exchanged, crossed, logins, reloads>>
  BY <1>2 DEF RefreshFails, Settled, server
<1>5. /\ store' \in Stores /\ saved' \in {saved, store'.user}
      /\ SameSession(store, store') \/ NoSession(store')
      /\ restoring # "no" => NoSession(store')
  <2>1. PICK s : Keep(s) /\ s = IF Waiting # {} \/ restoring # "no" THEN Wiped(store) ELSE store
    BY DEF RefreshFails
  <2>2. s \in Stores /\ (SameSession(store, s) \/ NoSession(s)) /\ (restoring # "no" => NoSession(s))
    BY <1>1, <2>1, WipedStore DEF SameSession, NoSession
  <2> QED
    BY <2>1, <2>2 DEF Keep
<1>6. /\ call' \in [Callers -> Calls]
      /\ \A c \in Callers : call'[c].pc # "waiting" /\ (call[c].pc = "idle" => call'[c].pc = "idle")
  BY <1>1, <1>4, IdleCall DEF Waiting
<1>7. \A g \in fetches' : (g \in fetches \/ (g = e /\ f.answer = None)) /\ ~g.live /\ g.answer = None
  BY <1>1, <1>3, <1>4 DEF IInv, OneExchange
<1>8. Types'
  <2>1. f.answer \in Tokens => f.rt \in exchanged
    BY <1>1 DEF IInv, PairOnItsWay
  <2>2. fetches' \subseteq Exchanges
    BY <1>3, <1>7 DEF IInv, Types
  <2> QED
    BY <1>4, <1>5, <1>6, <2>1, <2>2 DEF IInv, Types, Stores
<1>9. Known'
  BY <1>1, <1>3, <1>4, <1>5, <1>7, Bounds DEF IInv, Types, Known, SameSession, NoSession
<1>10. OneExchange'
  BY <1>4, <1>6, <1>7 DEF OneExchange
<1>11. PairOnItsWay'
  BY <1>7 DEF PairOnItsWay
<1>12. SpentIsLost'
  <2>1. None \notin exchanged
    BY Bounds DEF IInv, Types
  <2>2. store.refresh \in exchanged => store.refresh \in lost'
    <3>1. store.refresh \in exchanged =>
            store.refresh \in lost \/ \E g \in fetches : g.live /\ g.rt = store.refresh /\ g.answer \in Tokens
      BY DEF IInv, SpentIsLost
    <3> QED
      BY <1>1, <1>4, <3>1
  <2> QED
    BY <1>4, <1>5, <1>7, <2>1, <2>2 DEF SpentIsLost, SameSession, NoSession
<1>13. OneSession'
  <2>1. ready' /\ store'.user # None => store'.access # None /\ store'.refresh # None
    BY <1>4, <1>5 DEF IInv, OneSession, SameSession, NoSession
  <2>2. ready' /\ store'.user # None /\ ~crossed' =>
           owner'[store'.access] = store'.user /\ owner'[store'.refresh] = store'.user
    BY <1>4, <1>5 DEF IInv, OneSession, SameSession, NoSession
  <2> QED
    BY <1>7, <2>1, <2>2 DEF OneSession
<1> QED
  BY <1>8, <1>9, <1>10, <1>11, <1>12, <1>13 DEF IInv

(* A page load: the exchanges under way are nobody's. *)
LEMMA ReloadKeeps ==
  ASSUME IInv, Reload
  PROVE  IInv'
<1>1. /\ reloads' = reloads + 1 /\ store' = [Empty EXCEPT !.refresh = store.refresh, !.user = saved]
      /\ call' = [c \in Callers |-> Idle]
      /\ fetches' = {[f EXCEPT !.live = FALSE] : f \in {g \in fetches : g.answer = None}}
      /\ lost' = lost \cup {f.rt : f \in {g \in fetches : g.answer \in Tokens}}
      /\ ~promise' /\ restoring' = "no" /\ ~ready'
      /\ UNCHANGED <<saved, issued, owner, exchanged, crossed, logins>>
  BY DEF Reload, server
<1>2. store' \in Stores /\ store'.user = saved /\ store'.access = None /\ store'.refresh = store.refresh
  BY <1>1, LoadedStore DEF IInv, Types, Stores
<1>3. \A g \in fetches' : g \in Exchanges /\ ~g.live /\ g.answer = None /\ \E f \in fetches : g.rt = f.rt
  <2> SUFFICES ASSUME NEW g \in fetches'
               PROVE  g \in Exchanges /\ ~g.live /\ g.answer = None /\ \E f \in fetches : g.rt = f.rt
    OBVIOUS
  <2>1. PICK f \in fetches : f.answer = None /\ g = [f EXCEPT !.live = FALSE]
    BY <1>1
  <2>2. f \in Exchanges
    BY <2>1 DEF IInv, Types
  <2> QED
    BY <2>1, <2>2, AbandonedExchange
<1>4. call' \in [Callers -> Calls] /\ \A c \in Callers : call'[c].pc = "idle"
  BY <1>1, IdleCall
<1>5. \A f \in fetches : f.answer \in Tokens => f.live /\ f.rt \in exchanged
  BY Bounds DEF IInv, OneExchange, PairOnItsWay
<1>6. Types'
  <2>1. lost' \subseteq exchanged'
    BY <1>1, <1>5 DEF IInv, Types
  <2>2. fetches' \subseteq Exchanges
    BY <1>3
  <2> QED
    BY <1>1, <1>2, <1>4, <2>1, <2>2 DEF IInv, Types
<1>7. Known'
  BY <1>1, <1>2, <1>3, Bounds DEF IInv, Types, Known
<1>8. OneExchange' /\ PairOnItsWay'
  BY <1>1, <1>3, <1>4 DEF OneExchange, PairOnItsWay
<1>9. SpentIsLost'
  <2>1. store.refresh \in exchanged => store.refresh \in lost'
    BY <1>1 DEF IInv, SpentIsLost
  <2> QED
    BY <1>1, <1>2, <1>3, <2>1 DEF SpentIsLost
<1>10. OneSession'
  BY <1>1, <1>4 DEF OneSession, Callers
<1> QED
  BY <1>6, <1>7, <1>8, <1>9, <1>10 DEF IInv

-----------------------------------------------------------------------------
(* Theorems *)

LEMMA StartHolds ==
  ASSUME Init
  PROVE  IInv
<1>1. logins \in {0, 1} /\ logins \in {None} \cup Sessions
  BY Bounds DEF Init
<1>2. store \in Stores /\ store.user = logins /\ store.access = None /\ store.refresh = None
  <2>1. Empty \in Stores /\ Empty.access = None /\ Empty.refresh = None
    <3>1. Empty \in Stores
      BY Zenon DEF Empty, Stores
    <3> QED
      BY <3>1 DEF Empty
  <2> QED
    BY <1>1, <2>1, UserStore DEF Init
<1>3. Types
  BY <1>1, <1>2, IdleCall, Bounds DEF Init, Types
<1>4. Known /\ PairOnItsWay /\ SpentIsLost
  BY <1>2, Bounds DEF Init, Known, PairOnItsWay, SpentIsLost
<1>5. OneExchange
  BY IdleCall DEF Init, OneExchange
<1>6. OneSession
  BY IdleCall DEF Init, OneSession, Callers
<1> QED
  BY <1>3, <1>4, <1>5, <1>6 DEF IInv

LEMMA StepKeeps ==
  ASSUME IInv, [Next]_vars
  PROVE  IInv'
<1>1. CASE UNCHANGED vars
  <2>1. /\ UNCHANGED <<store, saved, call, fetches, promise, restoring, ready, issued, owner, exchanged>>
        /\ UNCHANGED <<lost, crossed, logins, reloads>>
    BY <1>1 DEF vars, client, server, history
  <2> QED
    BY <2>1 DEF IInv, Types, Known, OneExchange, PairOnItsWay, SpentIsLost, OneSession
<1>2. CASE \E c \in Callers : Request(c) \/ RequestFails(c) \/ RequestOk(c) \/ Request401Waits(c) \/ Request401Ends(c)
  BY <1>2, RequestKeeps, SettlesKeeps, WaitsKeeps
<1>3. CASE \E f \in fetches : ServerExchanges(f) \/ RefreshArrives(f) \/ RefreshFails(f)
  BY <1>3, ServerKeeps, ArrivesKeeps, FailsKeeps
<1> QED
  BY <1>1, <1>2, <1>3, LoginKeeps, RegisterKeeps, TimerKeeps, ReloadKeeps, InitAuthKeeps, OtherTabKeeps DEF Next

(* The inductive invariant holds whatever callers, timer, network, page     *)
(* loads and other tabs do (api/client.ts and useAuthStore.ts).             *)
THEOREM Invariance == Spec => []IInv
<1>1. Init => IInv
  BY StartHolds
<1>2. IInv /\ [Next]_vars => IInv'
  BY StepKeeps
<1> QED
  BY <1>1, <1>2, PTL DEF Spec

(* refreshAccessToken shares one exchange among all callers that met a 401, *)
(* the proactive timer, initAuth and the registration: whoever waits, waits *)
(* for an exchange in flight, and a refresh token that the server has       *)
(* exchanged is presented again only if the answer never arrived.           *)
THEOREM RefreshIsShared == Spec => []SharedRefresh
<1>1. IInv => SharedRefresh
  BY DEF IInv, OneExchange, SpentIsLost, SharedRefresh, NeverPresentedTwice, WaitersAreServed, Waiting
<1> QED
  BY <1>1, Invariance, PTL

(* No failure path of request(), useAuthStore.refresh() or initAuth() leaves *)
(* a user on the screen without tokens, and the tokens are that user's once  *)
(* the refresh() of a registration has settled, as long as no session was    *)
(* installed while an older refresh was in flight.                           *)
THEOREM UserAndTokensAgree == Spec => []SessionCoherent
<1>1. IInv => SessionCoherent
  <2> SUFFICES ASSUME IInv PROVE SessionCoherent
    OBVIOUS
  <2>1. TypeOK
    <3>1. \A f \in fetches : f.rt \in Tokens /\ f.answer \in {None, Rejected} \cup Tokens
      BY DEF IInv, Types, Exchanges
    <3> QED
      BY <3>1 DEF IInv, Types, TypeOK, Stores, Calls
  <2>2. UserHasTokens /\ TokensOfUser
    BY DEF IInv, OneSession, UserHasTokens, TokensOfUser
  <2> QED
    BY <2>1, <2>2 DEF SessionCoherent
<1> QED
  BY <1>1, Invariance, PTL

(* The late answer of a refresh may store tokens after a logout (the        *)
(* setTokens of refreshAccessToken looks at nothing), but it puts no user   *)
(* on the screen.                                                           *)
THEOREM OnlyLoginPutsAUser == Spec => OnlyLoginSignsIn
<1>1. ASSUME IInv, [Next]_vars, store.user = None, store'.user # None
      PROVE  logins' > logins \/ restoring # "no" \/ reloads' > reloads
  <2>0. store \in Stores /\ logins \in Nat /\ reloads \in Nat
    BY <1>1, AuthSessionAssumption DEF IInv, Types
  <2>1. store \in Stores /\ logins \in Nat /\ reloads \in Nat /\ Wiped(store).user = None
    BY <2>0, WipedStore
  <2>2. store' # store /\ store' # Wiped(store)
    BY <1>1, <2>1
  <2>3. CASE \E c \in Callers : Request(c) \/ RequestFails(c) \/ RequestOk(c) \/ Request401Waits(c) \/ Request401Ends(c)
    <3>1. PICK c \in Callers : Request(c) \/ RequestFails(c) \/ RequestOk(c) \/ Request401Waits(c) \/ Request401Ends(c)
      BY <2>3
    <3>2. store' = store \/ store' = Wiped(store) \/ \E b : store' = [store EXCEPT !.must = b]
      BY <3>1 DEF Request, RequestFails, RequestOk, Request401Waits, Request401Ends, Finish, Keep, PasswordAfter
    <3>3. \A b : [store EXCEPT !.must = b].user = store.user
      BY <2>1 DEF Stores
    <3> QED
      BY <1>1, <2>2, <3>2, <3>3
  <2>4. CASE LoginOk \/ RegisterOk
    <3>1. logins' = logins + 1
      BY <2>4 DEF LoginOk, RegisterOk
    <3> QED
      BY <2>0, <3>1
  <2>5. CASE TimerFires
    <3>1. store'.user = store.user
      BY <2>1, <2>5 DEF TimerFires, Stores
    <3> QED
      BY <1>1, <3>1
  <2>6. CASE \E f \in fetches : ServerExchanges(f) \/ RefreshArrives(f) \/ RefreshFails(f)
    <3>1. PICK f \in fetches : ServerExchanges(f) \/ RefreshArrives(f) \/ RefreshFails(f)
      BY <2>6
    <3>2. CASE ServerExchanges(f)
      BY <2>2, <3>2 DEF ServerExchanges
    <3>3. CASE RefreshArrives(f)
      <4>1. restoring = "no" => store' = SetTokens(store, f.answer)
        BY <3>3 DEF RefreshArrives, Restored
      <4>2. SetTokens(store, f.answer).user = store.user
        BY <2>1 DEF SetTokens, Stores
      <4> QED
        BY <1>1, <4>1, <4>2
    <3>4. CASE RefreshFails(f)
      BY <2>2, <3>4 DEF RefreshFails, Keep
    <3> QED
      BY <3>1, <3>2, <3>3, <3>4
  <2>7. CASE Reload
    BY <2>1, <2>7 DEF Reload
  <2>8. CASE InitAuth \/ OtherTabOpens \/ UNCHANGED vars
    BY <2>2, <2>8 DEF InitAuth, OtherTabOpens, vars, client, Keep
  <2> QED
    BY <1>1, <2>3, <2>4, <2>5, <2>6, <2>7, <2>8 DEF Next
<1>2. IInv /\ [Next]_vars =>
        [store.user = None /\ store'.user # None => logins' > logins \/ restoring # "no" \/ reloads' > reloads]_vars
  BY <1>1
<1> QED
  BY <1>2, Invariance, PTL DEF Spec, OnlyLoginSignsIn

-----------------------------------------------------------------------------
(* The shell: its invariant, part by part, as predicates of a tab *)

Partes == {"usuario", "sesion", "ruta", "desde", "rasgos", "plan", "sucursal",
           "sucursales", "modal", "vuelo"}
Rutas == RutasPanel \cup Publicas \cup {"pos"}
Planes == {"basico", "profesional", "enterprise"}
Consultas == {"rasgos", "nombre", "sucursales", "logout"}

\* A call of the session that is open asked for the tenant of its user.
LlamadaBien(t, c) ==
  /\ c.op \in Consultas /\ c.sesion \in Nat /\ c.de \in Tenants
  /\ c.sesion <= t.sesion
  /\ t.usuario # Nadie /\ c.sesion = t.sesion => c.de = t.usuario.tenant

\* Whoever waits for the promise of the cache waits for a call for its tag.
MemoriaBien(t) ==
  /\ t.rasgos.tag \in Tenants \cup {""}
  /\ t.rasgos.fuente \in Tenants \cup {"nulo", "nada"}
  /\ t.rasgos.promesa => \E c \in t.vuelo : c.op = "rasgos" /\ c.de = t.rasgos.tag

TabBien(t) ==
  /\ DOMAIN t = Partes
  /\ t.usuario \in Usuarios \cup {Nadie} /\ t.sesion \in Nat
  /\ t.desde \in Rutas /\ t.plan \in Planes \cup {Ninguno}
  /\ MemoriaBien(t)
  /\ \A c \in t.vuelo : LlamadaBien(t, c)

\* The guards of the routes.
Guardada(t) ==
  /\ t.ruta \in Rutas
  /\ t.ruta = "login" => t.usuario = Nadie
  /\ t.ruta \in RutasPanel => t.usuario # Nadie /\ Permite(t.ruta, t.usuario.rol)

\* A panel whose features are not there waits for them.
Espera(t) ==
  t.ruta \in RutasPanel /\ ~Cargado(t) =>
    \E c \in t.vuelo : c.op = "rasgos" /\ c.de = t.usuario.tenant

Vuela(t, op) == \E c \in t.vuelo : c.op = op

\* The cache holds the features of the tenant of its tag.
FuenteFiel(t) == t.rasgos.fuente \in {"nulo", "nada", t.rasgos.tag}

PlanBien(t) ==
  t.usuario # Nadie => Vuela(t, "nombre") \/ t.plan \in {PlanDe[t.usuario.tenant], "basico"}

ListaBien(t) ==
  t.usuario # Nadie /\ t.ruta \in RutasPanel =>
    \/ Vuela(t, "sucursales") \/ t.sucursales = {}
    \/ /\ t.sucursales \subseteq Sucs[t.usuario.tenant]
       /\ t.sucursal \in t.sucursales \cup {Todas}

\* Nobody's tab has no branch selected.
Limpia(t) == t.usuario = Nadie => t.sucursal = Todas

\* What a tab shows, unless the last answer was for another tenant than had asked
\* (aj), an answer came late (ta) or a session expired (ex).
Fiel(t, aj, ta, ex) ==
  /\ "rasgos" \notin aj => FuenteFiel(t)
  /\ ~ta => /\ "nombre" \notin aj => PlanBien(t)
            /\ "sucursales" \notin aj => ListaBien(t)
  /\ ~ta /\ ~ex => Limpia(t)

(* The inductive invariant. *)
ShellInv == TabBien(tab) /\ Guardada(tab) /\ Espera(tab) /\ Fiel(tab, ajenas, tarde, expiro)

-----------------------------------------------------------------------------
(* Calls *)

LEMMA NadieNoEsUsuario ==
  /\ Nadie \notin Usuarios
  /\ \A u \in Usuarios : u.tenant \in Tenants /\ u.tenant # "" /\ u.rol \in Roles
                         /\ u.suc \in Sucs[u.tenant] \cup {Todas}
<1>1. \A u \in Usuarios : u \in [tenant : Tenants, rol : Roles, suc : UNION {Sucs[t] : t \in Tenants} \cup {Todas}]
  BY AdminShellAssumption
<1>2. \A u \in Usuarios : u.tenant \in Tenants /\ u.rol \in Roles
  BY <1>1
<1>3. "" \notin Tenants
  BY AdminShellAssumption
<1>4. Nadie.tenant = ""
  BY DEF Nadie
<1>5. \A u \in Usuarios : u.suc \in Sucs[u.tenant] \cup {Todas}
  BY AdminShellAssumption
<1> QED
  BY <1>2, <1>3, <1>4, <1>5

\* Pide adds one call of the session.
LEMMA PideDa ==
  ASSUME NEW t, DOMAIN t = Partes, NEW o
  PROVE  \E k : /\ k.op = o /\ k.sesion = t.sesion /\ k.de = t.usuario.tenant
                /\ Pide(t, o) = [t EXCEPT !.vuelo = t.vuelo \cup {k}]
<1> DEFINE c(n) == [op |-> o, sesion |-> t.sesion, de |-> t.usuario.tenant, n |-> n]
           libre == CHOOSE n \in 0..Cardinality(t.vuelo) : c(n) \notin t.vuelo
<1>1. Pide(t, o) = [t EXCEPT !.vuelo = t.vuelo \cup {c(libre)}]
  BY DEF Pide
<1>2. \A n : c(n).op = o /\ c(n).sesion = t.sesion /\ c(n).de = t.usuario.tenant
  OBVIOUS
<1> HIDE DEF c, libre
<1> QED
  BY <1>1, <1>2

\* What stays of a tab when only its calls change.
Resto(s, t) ==
  /\ DOMAIN s = Partes
  /\ s.usuario = t.usuario /\ s.sesion = t.sesion /\ s.ruta = t.ruta /\ s.desde = t.desde
  /\ s.plan = t.plan /\ s.sucursal = t.sucursal /\ s.sucursales = t.sucursales /\ s.modal = t.modal

LEMMA PideConserva ==
  ASSUME NEW t, TabBien(t), t.usuario # Nadie, NEW o \in Consultas
  PROVE  LET s == Pide(t, o) IN
         /\ TabBien(s) /\ Resto(s, t) /\ s.rasgos = t.rasgos /\ t.vuelo \subseteq s.vuelo /\ Vuela(s, o)
         /\ o = "rasgos" => \E c \in s.vuelo : c.op = "rasgos" /\ c.de = t.usuario.tenant
<1>1. PICK k : /\ k.op = o /\ k.sesion = t.sesion /\ k.de = t.usuario.tenant
               /\ Pide(t, o) = [t EXCEPT !.vuelo = t.vuelo \cup {k}]
  BY PideDa DEF TabBien
<1>2. PICK s : s = Pide(t, o)
  OBVIOUS
<1>3. Resto(s, t) /\ s.rasgos = t.rasgos /\ s.vuelo = t.vuelo \cup {k}
  BY <1>1, <1>2 DEF TabBien, Resto, Partes
<1>4. t.usuario.tenant \in Tenants /\ t.sesion \in Nat
  BY NadieNoEsUsuario DEF TabBien
<1>5. TabBien(s)
  <2>1. \A c \in s.vuelo : LlamadaBien(s, c)
    BY <1>1, <1>3, <1>4 DEF TabBien, LlamadaBien, Resto
  <2>2. MemoriaBien(s)
    BY <1>3 DEF TabBien, MemoriaBien
  <2> QED
    BY <1>3, <2>1, <2>2 DEF TabBien, Resto
<1> QED
  BY <1>1, <1>2, <1>3, <1>5 DEF Vuela

(* ensureFeatures leaves a cache that is loaded for the tenant or somebody  *)
(* who asks, and never makes features of one tenant those of another.       *)
LEMMA AseguraDa ==
  ASSUME NEW t, TabBien(t), t.usuario # Nadie
  PROVE  LET s == Asegura(t) IN
         /\ TabBien(s) /\ Resto(s, t) /\ t.vuelo \subseteq s.vuelo
         /\ Cargado(s) \/ \E c \in s.vuelo : c.op = "rasgos" /\ c.de = s.usuario.tenant
         /\ FuenteFiel(t) => FuenteFiel(s)
<1> DEFINE igual == t.rasgos.tag = t.usuario.tenant
           f == IF igual THEN t.rasgos.fuente ELSE "nulo"
           m == [t EXCEPT !.rasgos = [tag |-> t.usuario.tenant, promesa |-> TRUE, fuente |-> f]]
<1>1. CASE igual /\ (t.rasgos.fuente # "nulo" \/ t.rasgos.promesa)
  <2>1. Asegura(t) = t
    BY <1>1 DEF Asegura
  <2>2. Resto(t, t)
    BY DEF Resto, TabBien
  <2>3. Cargado(t) \/ \E c \in t.vuelo : c.op = "rasgos" /\ c.de = t.usuario.tenant
    BY <1>1 DEF Cargado, TabBien, MemoriaBien
  <2> QED
    BY <2>1, <2>2, <2>3
<1>2. CASE ~(igual /\ (t.rasgos.fuente # "nulo" \/ t.rasgos.promesa))
  <2>1. Asegura(t) = Pide(m, "rasgos")
    BY <1>2 DEF Asegura
  <2>2. Resto(m, t) /\ m.vuelo = t.vuelo
        /\ m.rasgos = [tag |-> t.usuario.tenant, promesa |-> TRUE, fuente |-> f]
    BY DEF Resto, TabBien, Partes
  <2>3. PICK k : /\ k.op = "rasgos" /\ k.sesion = m.sesion /\ k.de = m.usuario.tenant
                 /\ Pide(m, "rasgos") = [m EXCEPT !.vuelo = m.vuelo \cup {k}]
    <3>1. DOMAIN m = Partes
      BY <2>2 DEF Resto
    <3> HIDE DEF m
    <3> QED
      BY <3>1, PideDa
  <2>4. PICK s : s = Asegura(t)
    OBVIOUS
  <2>5. Resto(s, t) /\ s.vuelo = t.vuelo \cup {k}
        /\ s.rasgos = [tag |-> t.usuario.tenant, promesa |-> TRUE, fuente |-> f]
    <3> HIDE DEF m, f, igual
    <3>1. DOMAIN m = Partes
      BY <2>2 DEF Resto
    <3>2. s = [m EXCEPT !.vuelo = m.vuelo \cup {k}]
      BY <2>1, <2>3, <2>4
    <3>3. DOMAIN s = Partes /\ s.vuelo = m.vuelo \cup {k}
          /\ \A x \in Partes \ {"vuelo"} : s[x] = m[x]
      BY <3>1, <3>2 DEF Partes
    <3>4. Resto(s, m) /\ s.rasgos = m.rasgos
      BY <3>1, <3>3 DEF Resto, Partes
    <3> QED
      BY <2>2, <3>3, <3>4 DEF Resto
  <2>6. s.rasgos.tag = t.usuario.tenant /\ s.rasgos.fuente = f
    BY <2>5
  <2>7. t.usuario.tenant \in Tenants /\ t.sesion \in Nat
    BY NadieNoEsUsuario DEF TabBien
  <2>8. k.op = "rasgos" /\ k.sesion = t.sesion /\ k.de = t.usuario.tenant
    BY <2>2, <2>3 DEF Resto
  <2>9. \A c \in s.vuelo : LlamadaBien(s, c)
    BY <2>5, <2>7, <2>8 DEF TabBien, LlamadaBien, Resto, Consultas
  <2>10. f \in Tenants \cup {"nulo", "nada"} /\ (FuenteFiel(t) => f \in {"nulo", "nada", t.usuario.tenant})
    BY DEF TabBien, MemoriaBien, FuenteFiel
  <2>11. MemoriaBien(s) /\ (FuenteFiel(t) => FuenteFiel(s))
    BY <2>5, <2>6, <2>7, <2>8, <2>10 DEF MemoriaBien, FuenteFiel
  <2>12. TabBien(s)
    BY <2>5, <2>9, <2>11 DEF TabBien, Resto
  <2> QED
    BY <2>4, <2>5, <2>8, <2>11, <2>12 DEF Resto
<1> QED
  BY <1>1, <1>2

-----------------------------------------------------------------------------
(* Routes *)

\* The router never ends in a page its guards refuse, nor at login with a user.
LEMMA DestinoDa ==
  ASSUME NEW t, TabBien(t), NEW r \in Rutas
  PROVE  LET d == Destino(t, r) IN
         /\ d \in Rutas
         /\ d = "login" => t.usuario = Nadie
         /\ t.usuario = Nadie => d \in Publicas
         /\ d \in RutasPanel => t.usuario # Nadie /\ Permite(d, t.usuario.rol)
<1>1. "login" \notin RutasPanel /\ "pos" \notin RutasPanel /\ "pos" \notin Publicas /\ "register" \notin RutasPanel
      /\ "consulta" \notin RutasPanel /\ "dashboard" \in RutasPanel
  BY DEF RutasPanel, Puertas, Publicas
<1>2. t.desde \in Rutas
  BY DEF TabBien
<1> QED
  BY <1>1, <1>2 DEF Destino, Rutas, Publicas, Inicio

\* What a render leaves: the guards hold, the gates are open or wait, and the
\* panel that was just mounted asks for its branches.
Pintado(s, t) ==
  /\ TabBien(s) /\ Guardada(s) /\ Espera(s)
  /\ FuenteFiel(t) => FuenteFiel(s)
  /\ s.usuario = t.usuario /\ s.sesion = t.sesion /\ s.plan = t.plan /\ s.sucursales = t.sucursales
  /\ t.vuelo \subseteq s.vuelo
  /\ s.ruta \in RutasPanel => \/ t.ruta \in RutasPanel /\ s.sucursal = t.sucursal
                              \/ Vuela(s, "sucursales")
  /\ s.sucursal # t.sucursal => t.usuario # Nadie /\ s.sucursal = t.usuario.suc

LEMMA PintaDa ==
  ASSUME NEW t, TabBien(t), NEW r \in Rutas
  PROVE  Pintado(Pinta(t, r), t)
<1>1. PICK d : d = Destino(t, r)
  OBVIOUS
<1>2. /\ d \in Rutas
      /\ d = "login" => t.usuario = Nadie
      /\ t.usuario = Nadie => d \in Publicas
      /\ d \in RutasPanel => t.usuario # Nadie /\ Permite(d, t.usuario.rol)
  BY <1>1, DestinoDa
<1>3. PICK desde : desde = IF d # "login" THEN "pos" ELSE IF r # "login" THEN r ELSE t.desde
  OBVIOUS
<1>4. PICK modal : modal = IF d \in RutasPanel THEN t.modal ELSE Ninguno
  OBVIOUS
<1>5. PICK suc : suc = IF d = "pos" /\ (t.ruta # "pos" \/ r # "pos") /\ t.usuario.suc # Todas
                       THEN t.usuario.suc ELSE t.sucursal
  OBVIOUS
<1>6. PICK t1 : t1 = [t EXCEPT !.ruta = d, !.desde = desde, !.modal = modal, !.sucursal = suc]
  OBVIOUS
<1>7. PICK t2 : t2 = IF d \in RutasPanel THEN Asegura(t1) ELSE t1
  OBVIOUS
<1>8. PICK s : s = Pinta(t, r)
  OBVIOUS
<1>9. s = IF d \in RutasPanel /\ t.ruta \notin RutasPanel THEN Pide(t2, "sucursales") ELSE t2
  BY <1>1, <1>3, <1>4, <1>5, <1>6, <1>7, <1>8 DEF Pinta
<1>10. /\ DOMAIN t1 = Partes
       /\ t1.ruta = d /\ t1.desde = desde /\ t1.sucursal = suc
       /\ t1.usuario = t.usuario /\ t1.sesion = t.sesion /\ t1.plan = t.plan
       /\ t1.sucursales = t.sucursales /\ t1.rasgos = t.rasgos /\ t1.vuelo = t.vuelo
  BY <1>6 DEF TabBien, Partes
<1>11. TabBien(t1)
  <2>1. desde \in Rutas
    BY <1>3 DEF TabBien, Rutas
  <2>2. \A c \in t1.vuelo : LlamadaBien(t1, c)
    BY <1>10 DEF TabBien, LlamadaBien
  <2>3. MemoriaBien(t1)
    BY <1>10 DEF TabBien, MemoriaBien
  <2> QED
    BY <1>10, <2>1, <2>2, <2>3 DEF TabBien
<1>12. /\ d \in RutasPanel => suc = t.sucursal
       /\ suc # t.sucursal => t.usuario # Nadie /\ suc = t.usuario.suc
  <2>1. "pos" \notin RutasPanel /\ "pos" \notin Publicas
    BY DEF RutasPanel, Puertas, Publicas
  <2> QED
    BY <1>2, <1>5, <2>1
<1>13. CASE d \notin RutasPanel
  <2>1. s = t1
    BY <1>7, <1>9, <1>13
  <2>2. Guardada(s) /\ Espera(s) /\ (FuenteFiel(t) => FuenteFiel(s))
    BY <1>2, <1>10, <1>13, <2>1 DEF Guardada, Espera, FuenteFiel
  <2> QED
    BY <1>8, <1>10, <1>11, <1>12, <1>13, <2>1, <2>2 DEF Pintado
<1>14. CASE d \in RutasPanel
  <2>1. t1.usuario # Nadie
    BY <1>2, <1>10, <1>14
  <2>2. /\ TabBien(t2) /\ Resto(t2, t1) /\ t1.vuelo \subseteq t2.vuelo
        /\ Cargado(t2) \/ \E c \in t2.vuelo : c.op = "rasgos" /\ c.de = t2.usuario.tenant
        /\ FuenteFiel(t1) => FuenteFiel(t2)
    BY <1>7, <1>11, <1>14, <2>1, AseguraDa
  <2>3. /\ TabBien(s) /\ Resto(s, t2) /\ s.rasgos = t2.rasgos /\ t2.vuelo \subseteq s.vuelo
        /\ t.ruta \notin RutasPanel => Vuela(s, "sucursales")
    <3>1. CASE t.ruta \in RutasPanel
      BY <1>9, <1>14, <2>2, <3>1 DEF Resto
    <3>2. CASE t.ruta \notin RutasPanel
      <4>1. t2.usuario # Nadie /\ "sucursales" \in Consultas
        BY <2>1, <2>2 DEF Resto, Consultas
      <4> QED
        BY <1>9, <1>14, <2>2, <3>2, <4>1, PideConserva
    <3> QED
      BY <3>1, <3>2
  <2>4. Resto(s, t1) /\ t.vuelo \subseteq s.vuelo
    BY <1>10, <2>2, <2>3 DEF Resto
  <2>5. Espera(s)
    BY <2>2, <2>3 DEF Resto, Espera, Cargado
  <2>6. FuenteFiel(t) => FuenteFiel(s)
    BY <1>10, <2>2, <2>3 DEF FuenteFiel
  <2>7. Guardada(s)
    <3>1. s.ruta = d /\ s.usuario = t.usuario
      BY <1>10, <2>4 DEF Resto
    <3> QED
      BY <1>2, <1>14, <3>1 DEF Guardada
  <2>8. /\ s.usuario = t.usuario /\ s.sesion = t.sesion /\ s.plan = t.plan
        /\ s.sucursales = t.sucursales /\ s.sucursal = t.sucursal
    BY <1>10, <1>12, <1>14, <2>4 DEF Resto
  <2> QED
    BY <1>8, <2>3, <2>4, <2>5, <2>6, <2>7, <2>8 DEF Pintado
<1> QED
  BY <1>13, <1>14

\* A render keeps what the tab it renders shows faithfully.
LEMMA PintaConserva ==
  ASSUME NEW t, TabBien(t), NEW r \in Rutas, NEW aj, NEW ta, NEW ex, Fiel(t, aj, ta, ex)
  PROVE  LET s == Pinta(t, r) IN
         /\ TabBien(s) /\ Guardada(s) /\ Espera(s) /\ Fiel(s, aj, ta, ex)
         /\ s.sesion = t.sesion /\ s.usuario = t.usuario
         /\ s.sucursal # t.sucursal => s.sucursal = t.usuario.suc
<1>1. PICK s : s = Pinta(t, r)
  OBVIOUS
<1>2. Pintado(s, t)
  BY <1>1, PintaDa
<1>3. \A o : Vuela(t, o) => Vuela(s, o)
  BY <1>2 DEF Pintado, Vuela
<1>4. PlanBien(t) => PlanBien(s)
  BY <1>2, <1>3 DEF Pintado, PlanBien
<1>5. ListaBien(t) => ListaBien(s)
  BY <1>2, <1>3 DEF Pintado, ListaBien
<1>6. Limpia(t) => Limpia(s)
  BY <1>2 DEF Pintado, Limpia
<1> QED
  BY <1>1, <1>2, <1>4, <1>5, <1>6 DEF Pintado, Fiel

-----------------------------------------------------------------------------
(* Sessions *)

\* A tab whose user, session and calls do not grow is still in order.
LEMMA Queda ==
  ASSUME NEW t, TabBien(t), NEW s, DOMAIN s = Partes, s.sesion = t.sesion,
         s.usuario \in {t.usuario, Nadie}, s.desde \in Rutas, s.plan \in Planes \cup {Ninguno},
         s.vuelo \subseteq t.vuelo, MemoriaBien(s)
  PROVE  TabBien(s)
<1>1. \A c \in s.vuelo : LlamadaBien(s, c)
  BY DEF TabBien, LlamadaBien
<1> QED
  BY <1>1 DEF TabBien

\* What login and refresh leave, when no call of the session is in flight.
LEMMA ConUsuarioDa ==
  ASSUME NEW t, TabBien(t), NEW u \in Usuarios, \A c \in t.vuelo : c.sesion # t.sesion
  PROVE  LET s == ConUsuario(t, u) IN
         /\ TabBien(s) /\ s.usuario = u /\ s.sesion = t.sesion /\ s.ruta = t.ruta
         /\ s.rasgos = t.rasgos /\ Vuela(s, "nombre")
         /\ s.sucursal = IF u.suc # Todas THEN u.suc ELSE t.sucursal
<1>1. PICK suc : suc = IF u.suc # Todas THEN u.suc ELSE t.sucursal
  OBVIOUS
<1>2. PICK m : m = [t EXCEPT !.usuario = u, !.sucursal = suc]
  OBVIOUS
<1>3. /\ DOMAIN m = Partes /\ m.usuario = u /\ m.sucursal = suc
      /\ m.sesion = t.sesion /\ m.ruta = t.ruta /\ m.rasgos = t.rasgos /\ m.vuelo = t.vuelo
      /\ m.desde = t.desde /\ m.plan = t.plan
  BY <1>2 DEF TabBien, Partes
<1>4. TabBien(m)
  <2>1. \A c \in m.vuelo : LlamadaBien(m, c)
    BY <1>3 DEF TabBien, LlamadaBien
  <2>2. MemoriaBien(m)
    BY <1>3 DEF TabBien, MemoriaBien
  <2> QED
    BY <1>3, <2>1, <2>2 DEF TabBien
<1>5. PICK s : s = Pide(m, "nombre")
  OBVIOUS
<1>6. TabBien(s) /\ Resto(s, m) /\ s.rasgos = m.rasgos /\ Vuela(s, "nombre")
  BY <1>3, <1>4, <1>5, NadieNoEsUsuario, PideConserva DEF Consultas
<1>7. s = ConUsuario(t, u)
  BY <1>1, <1>2, <1>5 DEF ConUsuario
<1> QED
  BY <1>1, <1>3, <1>6, <1>7 DEF Resto

\* What it shows is faithful if the tab is at no page of the panel.
LEMMA ConUsuarioFiel ==
  ASSUME NEW t, TabBien(t), NEW u \in Usuarios, \A c \in t.vuelo : c.sesion # t.sesion,
         t.ruta \notin RutasPanel, NEW aj, NEW ta, NEW ex, "rasgos" \notin aj => FuenteFiel(t)
  PROVE  Fiel(ConUsuario(t, u), aj, ta, ex)
<1>1. PICK s : s = ConUsuario(t, u)
  OBVIOUS
<1>2. s.usuario = u /\ s.ruta = t.ruta /\ s.rasgos = t.rasgos /\ Vuela(s, "nombre")
  BY <1>1, ConUsuarioDa
<1>3. s.usuario # Nadie
  BY <1>2, NadieNoEsUsuario
<1> QED
  BY <1>1, <1>2, <1>3 DEF Fiel, FuenteFiel, PlanBien, ListaBien, Limpia

\* A step that renders m.
LEMMA Renderiza ==
  ASSUME NEW m, TabBien(m), NEW r \in Rutas, tab' = Pinta(m, r), Fiel(m, ajenas', tarde', expiro')
  PROVE  /\ ShellInv' /\ tab'.sesion = m.sesion /\ tab'.usuario = m.usuario
         /\ tab'.sucursal # m.sucursal => tab'.sucursal = m.usuario.suc
<1>1. PICK s, aj, ta, ex : s = tab' /\ aj = ajenas' /\ ta = tarde' /\ ex = expiro'
  OBVIOUS
<1>2. /\ TabBien(s) /\ Guardada(s) /\ Espera(s) /\ Fiel(s, aj, ta, ex)
      /\ s.sesion = m.sesion /\ s.usuario = m.usuario
      /\ s.sucursal # m.sucursal => s.sucursal = m.usuario.suc
  <2>1. Fiel(m, aj, ta, ex) /\ s = Pinta(m, r)
    BY <1>1
  <2> QED
    BY <2>1, PintaConserva
<1> QED
  BY <1>1, <1>2 DEF ShellInv

\* What a session that starts must not find.
SinAjena ==
  tab'.sesion # tab.sesion /\ ~expiro /\ ~tarde =>
    tab'.sucursal \in Sucs[tab'.usuario.tenant] \cup {Todas}

LEMMA EntrarConserva ==
  ASSUME ShellInv, NEW u \in Usuarios, Entrar(u)
  PROVE  ShellInv' /\ SinAjena
<1>1. PICK t : t = [tab EXCEPT !.sesion = tab.sesion + 1]
  OBVIOUS
<1>2. tab.usuario = Nadie /\ tab.ruta = "login" /\ tab.ruta \notin RutasPanel /\ "login" \in Rutas
  <2>1. tab.ruta = "login" /\ "login" \notin RutasPanel /\ "login" \in Rutas
    BY DEF Entrar, RutasPanel, Puertas, Rutas, Publicas
  <2> QED
    BY <2>1 DEF ShellInv, Guardada
<1>3. /\ DOMAIN t = Partes /\ t.sesion = tab.sesion + 1 /\ t.usuario = tab.usuario
      /\ t.ruta = tab.ruta /\ t.desde = tab.desde /\ t.rasgos = tab.rasgos /\ t.plan = tab.plan
      /\ t.sucursal = tab.sucursal /\ t.vuelo = tab.vuelo
  BY <1>1 DEF ShellInv, TabBien, Partes
<1>4. TabBien(t) /\ \A c \in t.vuelo : c.sesion # t.sesion
  <2>1. \A c \in t.vuelo : LlamadaBien(t, c) /\ c.sesion # t.sesion
    BY <1>2, <1>3 DEF ShellInv, TabBien, LlamadaBien
  <2>2. MemoriaBien(t)
    BY <1>3 DEF ShellInv, TabBien, MemoriaBien
  <2> QED
    BY <1>3, <2>1, <2>2 DEF ShellInv, TabBien
<1>5. PICK m : m = ConUsuario(t, u)
  OBVIOUS
<1>6. /\ TabBien(m) /\ m.usuario = u /\ m.sucursal = IF u.suc # Todas THEN u.suc ELSE t.sucursal
  BY <1>4, <1>5, ConUsuarioDa
<1>7. Fiel(m, ajenas', tarde', expiro')
  <2>1. PICK aj, ta, ex : aj = ajenas' /\ ta = tarde' /\ ex = expiro'
    OBVIOUS
  <2>2. "rasgos" \notin aj => FuenteFiel(t)
    BY <1>3, <2>1 DEF ShellInv, Fiel, FuenteFiel, Entrar
  <2> QED
    BY <1>2, <1>3, <1>4, <1>5, <2>1, <2>2, ConUsuarioFiel
<1>8. tab' = Pinta(m, "login")
  BY <1>1, <1>5 DEF Entrar
<1>9. /\ ShellInv' /\ tab'.usuario = u
      /\ tab'.sucursal # m.sucursal => tab'.sucursal = u.suc
  BY <1>2, <1>6, <1>7, <1>8, Renderiza
<1>10. ~expiro /\ ~tarde => t.sucursal = Todas
  BY <1>2, <1>3 DEF ShellInv, Fiel, Limpia
<1> QED
  BY <1>6, <1>9, <1>10, NadieNoEsUsuario DEF SinAjena

\* What Sale leaves of a tab.
LEMMA SaleDa ==
  ASSUME NEW t, TabBien(t)
  PROVE  LET s == Sale(t) IN
         /\ TabBien(s) /\ s.usuario = Nadie /\ s.sesion = t.sesion /\ s.rasgos = t.rasgos
         /\ s.desde = t.desde /\ s.plan = t.plan /\ s.sucursal = t.sucursal /\ s.vuelo = t.vuelo
<1>1. PICK s : s = Sale(t)
  OBVIOUS
<1>2. /\ DOMAIN s = Partes /\ s.usuario = Nadie /\ s.sesion = t.sesion /\ s.rasgos = t.rasgos
      /\ s.desde = t.desde /\ s.plan = t.plan /\ s.sucursal = t.sucursal /\ s.vuelo = t.vuelo
  BY <1>1 DEF TabBien, Partes, Sale
<1>3. TabBien(s)
  <2>1. MemoriaBien(s)
    BY <1>2 DEF TabBien, MemoriaBien
  <2>2. s.desde \in Rutas /\ s.plan \in Planes \cup {Ninguno}
    BY <1>2 DEF TabBien
  <2> QED
    BY <1>2, <2>1, <2>2, Queda
<1> QED
  BY <1>1, <1>2, <1>3

LEMMA ExpirarConserva ==
  ASSUME ShellInv, Expirar
  PROVE  ShellInv' /\ tab'.sesion = tab.sesion
<1>1. PICK m : m = Sale(tab)
  OBVIOUS
<1>2. TabBien(m) /\ m.usuario = Nadie /\ m.sesion = tab.sesion /\ m.rasgos = tab.rasgos
  BY <1>1, SaleDa DEF ShellInv
<1>3. Fiel(m, ajenas', tarde', expiro')
  BY <1>2 DEF ShellInv, Fiel, FuenteFiel, PlanBien, ListaBien, Expirar
<1>4. tab' = Pinta(m, tab.ruta) /\ tab.ruta \in Rutas
  BY <1>1 DEF Expirar, ShellInv, Guardada
<1> QED
  BY <1>2, <1>3, <1>4, Renderiza

\* The page is loaded again: what comes back before it is rendered.
LEMMA Recargada ==
  ASSUME ShellInv, NEW desde \in Rutas
  PROVE  LET t == [tab EXCEPT !.rasgos = SinMemoria, !.sucursales = {}, !.vuelo = {},
                              !.modal = Ninguno, !.ruta = "", !.desde = desde]
         IN /\ TabBien(t) /\ t.usuario = tab.usuario /\ t.sesion = tab.sesion
            /\ t.ruta = "" /\ t.vuelo = {} /\ FuenteFiel(t) /\ t.sucursal = tab.sucursal
<1>1. PICK t : t = [tab EXCEPT !.rasgos = SinMemoria, !.sucursales = {}, !.vuelo = {},
                               !.modal = Ninguno, !.ruta = "", !.desde = desde]
  OBVIOUS
<1>2. /\ DOMAIN t = Partes /\ t.usuario = tab.usuario /\ t.sesion = tab.sesion
      /\ t.ruta = "" /\ t.vuelo = {} /\ t.rasgos = SinMemoria /\ t.sucursal = tab.sucursal
      /\ t.desde = desde /\ t.plan = tab.plan
  BY <1>1 DEF ShellInv, TabBien, Partes
<1>3. SinMemoria.tag = "" /\ SinMemoria.fuente = "nulo" /\ ~SinMemoria.promesa
  BY DEF SinMemoria
<1>4. MemoriaBien(t) /\ FuenteFiel(t)
  BY <1>2, <1>3 DEF MemoriaBien, FuenteFiel
<1>5. TabBien(tab) /\ t.plan \in Planes \cup {Ninguno} /\ t.usuario \in {tab.usuario, Nadie}
      /\ t.vuelo \subseteq tab.vuelo
  BY <1>2 DEF ShellInv, TabBien
<1>6. TabBien(t)
  BY <1>2, <1>4, <1>5, Queda
<1> QED
  BY <1>1, <1>2, <1>4, <1>6

LEMMA RecargarConserva ==
  ASSUME ShellInv, NEW r \in Rutas, Recargar(r)
  PROVE  ShellInv' /\ tab'.sesion = tab.sesion
<1>1. PICK desde \in Rutas : desde = IF r = tab.ruta THEN tab.desde ELSE "pos"
  BY DEF ShellInv, TabBien, Rutas
<1>2. PICK t : t = [tab EXCEPT !.rasgos = SinMemoria, !.sucursales = {}, !.vuelo = {},
                               !.modal = Ninguno, !.ruta = "", !.desde = desde]
  OBVIOUS
<1>3. /\ TabBien(t) /\ t.usuario = tab.usuario /\ t.sesion = tab.sesion
      /\ t.ruta = "" /\ t.vuelo = {} /\ FuenteFiel(t) /\ t.sucursal = tab.sucursal
  BY <1>2, Recargada
<1>4. /\ IF tab.usuario = Nadie THEN tab' = Pinta(t, r) /\ UNCHANGED expiro
         ELSE \/ tab' = Pinta(ConUsuario(t, tab.usuario), r) /\ UNCHANGED expiro
              \/ tab' = Pinta([Sale(t) EXCEPT !.plan = Ninguno], r) /\ expiro' = TRUE
      /\ UNCHANGED <<tarde, ajenas>>
  BY <1>1, <1>2 DEF Recargar
<1>5. "" \notin RutasPanel
  BY DEF RutasPanel, Puertas
<1>6. CASE tab.usuario = Nadie
  <2>1. Fiel(t, ajenas', tarde', expiro')
    BY <1>3, <1>4, <1>6 DEF ShellInv, Fiel, PlanBien, ListaBien, Limpia
  <2> QED
    BY <1>3, <1>4, <1>6, <2>1, Renderiza
<1>7. CASE tab.usuario # Nadie /\ tab' = Pinta(ConUsuario(t, tab.usuario), r)
  <2>1. PICK u \in Usuarios : u = tab.usuario
    BY <1>7 DEF ShellInv, TabBien
  <2>2. PICK m : m = ConUsuario(t, u)
    OBVIOUS
  <2>3. TabBien(m) /\ m.sesion = t.sesion
    BY <1>3, <2>2, ConUsuarioDa
  <2>4. Fiel(m, ajenas', tarde', expiro')
    <3>1. PICK aj, ta, ex : aj = ajenas' /\ ta = tarde' /\ ex = expiro'
      OBVIOUS
    <3> QED
      BY <1>3, <1>5, <2>2, <3>1, ConUsuarioFiel
  <2> QED
    BY <1>3, <1>7, <2>1, <2>2, <2>3, <2>4, Renderiza
<1>8. CASE tab' = Pinta([Sale(t) EXCEPT !.plan = Ninguno], r) /\ expiro' = TRUE
  <2>1. PICK z : z = Sale(t)
    OBVIOUS
  <2>2. TabBien(z) /\ z.usuario = Nadie /\ z.sesion = t.sesion /\ z.rasgos = t.rasgos /\ z.vuelo = t.vuelo
    BY <1>3, <2>1, SaleDa
  <2>3. PICK m : m = [z EXCEPT !.plan = Ninguno]
    OBVIOUS
  <2>4. /\ DOMAIN m = Partes /\ m.usuario = Nadie /\ m.sesion = z.sesion /\ m.rasgos = z.rasgos
        /\ m.vuelo = z.vuelo /\ m.desde = z.desde /\ m.plan = Ninguno
    BY <2>2, <2>3 DEF TabBien, Partes
  <2>5. MemoriaBien(m) /\ m.desde \in Rutas /\ FuenteFiel(m)
    BY <1>3, <2>2, <2>4 DEF TabBien, MemoriaBien, FuenteFiel
  <2>6. TabBien(m)
    BY <2>2, <2>4, <2>5, Queda
  <2>7. Fiel(m, ajenas', tarde', expiro')
    BY <1>8, <2>4, <2>5 DEF Fiel, PlanBien, ListaBien
  <2> QED
    BY <1>3, <1>8, <2>1, <2>2, <2>3, <2>4, <2>6, <2>7, Renderiza
<1> QED
  BY <1>4, <1>6, <1>7, <1>8

-----------------------------------------------------------------------------
(* Clicks *)

\* A tab that differs in its dialog, and in a branch that its list offers.
LEMMA OtroDialogo ==
  ASSUME ShellInv, NEW s, tab' = s, UNCHANGED <<tarde, ajenas, expiro>>,
         DOMAIN s = Partes, s.usuario = tab.usuario, s.sesion = tab.sesion, s.ruta = tab.ruta,
         s.desde = tab.desde, s.rasgos = tab.rasgos, s.plan = tab.plan, s.sucursales = tab.sucursales,
         s.vuelo = tab.vuelo,
         s.sucursal = tab.sucursal \/ (s.usuario # Nadie /\ s.sucursal \in s.sucursales \cup {Todas})
  PROVE  ShellInv' /\ tab'.sesion = tab.sesion
<1>1. TabBien(s)
  <2>1. MemoriaBien(s) /\ \A c \in s.vuelo : LlamadaBien(s, c)
    BY DEF ShellInv, TabBien, MemoriaBien, LlamadaBien
  <2> QED
    BY <2>1 DEF ShellInv, TabBien
<1>2. Guardada(s) /\ Espera(s)
  BY DEF ShellInv, Guardada, Espera, Cargado
<1>3. Fiel(s, ajenas, tarde, expiro)
  BY DEF ShellInv, Fiel, FuenteFiel, PlanBien, ListaBien, Limpia, Vuela
<1> QED
  BY <1>1, <1>2, <1>3 DEF ShellInv

LEMMA VaA ==
  ASSUME ShellInv, NEW r \in Rutas, tab' = Pinta(tab, r), UNCHANGED <<tarde, ajenas, expiro>>
  PROVE  ShellInv' /\ tab'.sesion = tab.sesion
<1>1. TabBien(tab) /\ Fiel(tab, ajenas', tarde', expiro')
  BY DEF ShellInv
<1> QED
  BY <1>1, Renderiza

LEMMA ClicConserva ==
  ASSUME ShellInv,
         \/ \E r \in Destinos : MenuPanel(r) \/ DelPosAlPanel(r)
         \/ CierraModal \/ VolverAlPos \/ PideSalir
         \/ \E t \in Tenants : \E s \in Sucs[t] \cup {Todas} : EligeSucursal(s)
  PROVE  ShellInv' /\ tab'.sesion = tab.sesion
<1>0. DOMAIN tab = Partes
  BY DEF ShellInv, TabBien
<1>1. \A r \in Destinos : r \in Rutas
  BY AdminShellAssumption DEF Rutas
<1>2. ASSUME NEW x, tab' = [tab EXCEPT !.modal = x], UNCHANGED <<tarde, ajenas, expiro>>
      PROVE  ShellInv' /\ tab'.sesion = tab.sesion
  <2>1. PICK s : s = tab'
    OBVIOUS
  <2>2. /\ DOMAIN s = Partes /\ s.usuario = tab.usuario /\ s.sesion = tab.sesion /\ s.ruta = tab.ruta
        /\ s.desde = tab.desde /\ s.rasgos = tab.rasgos /\ s.plan = tab.plan
        /\ s.sucursales = tab.sucursales /\ s.vuelo = tab.vuelo /\ s.sucursal = tab.sucursal
    BY <1>0, <1>2, <2>1 DEF Partes
  <2> QED
    BY <1>2, <2>1, <2>2, OtroDialogo
<1>3. ASSUME NEW r \in Destinos, MenuPanel(r) PROVE ShellInv' /\ tab'.sesion = tab.sesion
  <2>1. UNCHANGED <<tarde, ajenas, expiro>>
    BY <1>3 DEF MenuPanel, Clic
  <2>2. tab' = Pinta(tab, r) \/ tab' = [tab EXCEPT !.modal = r]
    BY <1>3 DEF MenuPanel
  <2> QED
    BY <1>1, <1>2, <2>1, <2>2, VaA
<1>4. ASSUME NEW r \in Destinos, DelPosAlPanel(r) PROVE ShellInv' /\ tab'.sesion = tab.sesion
  BY <1>1, <1>4, VaA DEF DelPosAlPanel, Clic
<1>5. CASE CierraModal
  <2>1. tab' = [tab EXCEPT !.modal = Ninguno] /\ UNCHANGED <<tarde, ajenas, expiro>>
    BY <1>5 DEF CierraModal
  <2> QED
    BY <1>2, <2>1
<1>6. CASE VolverAlPos
  <2>1. "pos" \in Rutas /\ tab' = Pinta(tab, "pos") /\ UNCHANGED <<tarde, ajenas, expiro>>
    BY <1>6 DEF VolverAlPos, Clic, Rutas
  <2> QED
    BY <2>1, VaA
<1>7. CASE PideSalir
  <2>1. tab' = Pide(tab, "logout") /\ tab.usuario # Nadie /\ UNCHANGED <<tarde, ajenas, expiro>>
    BY <1>7 DEF PideSalir, Clic
  <2>2. PICK s : s = Pide(tab, "logout")
    OBVIOUS
  <2>3. TabBien(s) /\ Resto(s, tab) /\ s.rasgos = tab.rasgos /\ tab.vuelo \subseteq s.vuelo
    BY <2>1, <2>2, PideConserva DEF ShellInv, Consultas
  <2>4. Guardada(s) /\ Espera(s)
    BY <2>3 DEF ShellInv, Guardada, Espera, Cargado, Resto
  <2>5. Fiel(s, ajenas, tarde, expiro)
    BY <2>3 DEF ShellInv, Fiel, FuenteFiel, PlanBien, ListaBien, Limpia, Vuela, Resto
  <2>6. s.sesion = tab.sesion
    BY <2>3 DEF Resto
  <2> QED
    BY <2>1, <2>2, <2>3, <2>4, <2>5, <2>6 DEF ShellInv
<1>8. ASSUME NEW x, EligeSucursal(x) PROVE ShellInv' /\ tab'.sesion = tab.sesion
  <2>1. /\ tab' = [tab EXCEPT !.sucursal = x] /\ tab.usuario # Nadie
        /\ x \in tab.sucursales \cup {Todas} /\ UNCHANGED <<tarde, ajenas, expiro>>
    BY <1>8 DEF EligeSucursal, Clic
  <2>2. PICK s : s = tab'
    OBVIOUS
  <2>3. /\ DOMAIN s = Partes /\ s.usuario = tab.usuario /\ s.sesion = tab.sesion /\ s.ruta = tab.ruta
        /\ s.desde = tab.desde /\ s.rasgos = tab.rasgos /\ s.plan = tab.plan
        /\ s.sucursales = tab.sucursales /\ s.vuelo = tab.vuelo /\ s.sucursal = x
    BY <1>0, <2>1, <2>2 DEF Partes
  <2> QED
    BY <2>1, <2>2, <2>3, OtroDialogo
<1> QED
  BY <1>3, <1>4, <1>5, <1>6, <1>7, <1>8

-----------------------------------------------------------------------------
(* Answers *)

\* The features arrive, or nothing in their place.
LEMMA LleganRasgos ==
  ASSUME ShellInv, NEW c \in tab.vuelo, c.op = "rasgos", NEW x \in Tenants \cup {"nada"},
         tab' = Pinta(RecibeRasgos(Sin(c), c, x), tab.ruta), Llega(c, x)
  PROVE  ShellInv' /\ tab'.sesion = tab.sesion
<1>1. PICK m : m = RecibeRasgos(Sin(c), c, x)
  OBVIOUS
<1>2. /\ DOMAIN m = Partes /\ m.usuario = tab.usuario /\ m.sesion = tab.sesion /\ m.ruta = tab.ruta
      /\ m.desde = tab.desde /\ m.rasgos = [tag |-> c.de, fuente |-> x, promesa |-> FALSE]
      /\ m.plan = tab.plan /\ m.sucursal = tab.sucursal /\ m.sucursales = tab.sucursales
      /\ m.vuelo = tab.vuelo \ {c}
  BY <1>1 DEF ShellInv, TabBien, Partes, RecibeRasgos, Sin
<1>3. m.rasgos.tag = c.de /\ m.rasgos.fuente = x /\ m.rasgos.promesa = FALSE
  BY <1>2
<1>4. c.de \in Tenants /\ TabBien(tab) /\ tab.ruta \in Rutas
  BY DEF ShellInv, TabBien, LlamadaBien, Guardada
<1>5. TabBien(m)
  <2>1. MemoriaBien(m)
    BY <1>3, <1>4 DEF MemoriaBien
  <2>2. m.desde \in Rutas /\ m.plan \in Planes \cup {Ninguno}
    BY <1>2, <1>4 DEF TabBien
  <2> QED
    BY <1>2, <1>4, <2>1, <2>2, Queda
<1>6. Fiel(m, ajenas', tarde', expiro')
  <2>1. "rasgos" \notin ajenas' => FuenteFiel(m)
    BY <1>3 DEF FuenteFiel, Llega
  <2>2. \A o : Vuela(tab, o) /\ o # "rasgos" => Vuela(m, o)
    BY <1>2 DEF Vuela
  <2>3. ~tarde' => ~tarde /\ tab.usuario # Nadie
    BY DEF Llega
  <2>4. \A o \in {"nombre", "sucursales"} : o \notin ajenas' => o \notin ajenas
    BY DEF Llega
  <2>5. ~tarde' => /\ "nombre" \notin ajenas' => PlanBien(m)
                   /\ "sucursales" \notin ajenas' => ListaBien(m)
                   /\ Limpia(m)
    BY <1>2, <2>2, <2>3, <2>4 DEF ShellInv, Fiel, PlanBien, ListaBien, Limpia
  <2> QED
    BY <2>1, <2>5 DEF Fiel
<1> QED
  BY <1>1, <1>2, <1>4, <1>5, <1>6, Renderiza

\* The name of the plan arrives, or the smallest plan in its place.
LEMMA LlegaNombre ==
  ASSUME ShellInv, NEW c \in tab.vuelo, c.op = "nombre", NEW p \in Planes,
         tab' = [Sin(c) EXCEPT !.plan = p], NEW x, Llega(c, x),
         ~tarde' /\ "nombre" \notin ajenas' => p \in {PlanDe[tab.usuario.tenant], "basico"}
  PROVE  ShellInv' /\ tab'.sesion = tab.sesion
<1>1. PICK s : s = tab'
  OBVIOUS
<1>2. /\ DOMAIN s = Partes /\ s.usuario = tab.usuario /\ s.sesion = tab.sesion /\ s.ruta = tab.ruta
      /\ s.desde = tab.desde /\ s.rasgos = tab.rasgos
      /\ s.plan = p /\ s.sucursal = tab.sucursal /\ s.sucursales = tab.sucursales
      /\ s.vuelo = tab.vuelo \ {c}
  BY <1>1 DEF ShellInv, TabBien, Partes, Sin
<1>3. TabBien(s)
  <2>1. MemoriaBien(s)
    <3>1. MemoriaBien(tab)
      BY DEF ShellInv, TabBien
    <3>2. ASSUME s.rasgos.promesa PROVE \E d \in s.vuelo : d.op = "rasgos" /\ d.de = s.rasgos.tag
      <4>1. PICK d \in tab.vuelo : d.op = "rasgos" /\ d.de = tab.rasgos.tag
        BY <1>2, <3>1, <3>2 DEF MemoriaBien
      <4>2. d # c
        BY <4>1
      <4> QED
        BY <1>2, <4>1, <4>2
    <3> QED
      BY <1>2, <3>1, <3>2 DEF MemoriaBien
  <2>2. s.desde \in Rutas /\ s.plan \in Planes \cup {Ninguno} /\ TabBien(tab)
    BY <1>2 DEF ShellInv, TabBien
  <2> QED
    BY <1>2, <2>1, <2>2, Queda
<1>4. Guardada(s) /\ Espera(s)
  BY <1>2 DEF ShellInv, Guardada, Espera, Cargado
<1>5. Fiel(s, ajenas', tarde', expiro')
  <2>1. \A o \in {"rasgos", "sucursales"} : o \notin ajenas' => o \notin ajenas
    BY DEF Llega
  <2>2. "rasgos" \notin ajenas' => FuenteFiel(s)
    BY <1>2, <2>1 DEF ShellInv, Fiel, FuenteFiel
  <2>3. Vuela(tab, "sucursales") => Vuela(s, "sucursales")
    BY <1>2 DEF Vuela
  <2>4. ~tarde' => ~tarde /\ tab.usuario # Nadie
    BY DEF Llega
  <2>5. ~tarde' => /\ "nombre" \notin ajenas' => PlanBien(s)
                   /\ "sucursales" \notin ajenas' => ListaBien(s)
                   /\ Limpia(s)
    BY <1>2, <2>1, <2>3, <2>4 DEF ShellInv, Fiel, PlanBien, ListaBien, Limpia
  <2> QED
    BY <2>2, <2>5 DEF Fiel
<1> QED
  BY <1>1, <1>2, <1>3, <1>4, <1>5 DEF ShellInv

\* The list of branches arrives, with the branch it leaves selected.
LEMMA LleganSucursales ==
  ASSUME ShellInv, NEW c \in tab.vuelo, c.op = "sucursales", NEW lista, NEW suc,
         tab' = [Sin(c) EXCEPT !.sucursales = lista, !.sucursal = suc], NEW x, Llega(c, x),
         ~tarde' /\ "sucursales" \notin ajenas' =>
           lista = {} \/ (lista \subseteq Sucs[tab.usuario.tenant] /\ suc \in lista \cup {Todas})
  PROVE  ShellInv' /\ tab'.sesion = tab.sesion
<1>1. PICK s : s = tab'
  OBVIOUS
<1>2. /\ DOMAIN s = Partes /\ s.usuario = tab.usuario /\ s.sesion = tab.sesion /\ s.ruta = tab.ruta
      /\ s.desde = tab.desde /\ s.rasgos = tab.rasgos
      /\ s.plan = tab.plan /\ s.sucursal = suc /\ s.sucursales = lista
      /\ s.vuelo = tab.vuelo \ {c}
  BY <1>1 DEF ShellInv, TabBien, Partes, Sin
<1>3. TabBien(s)
  <2>1. MemoriaBien(s)
    <3>1. MemoriaBien(tab)
      BY DEF ShellInv, TabBien
    <3>2. ASSUME s.rasgos.promesa PROVE \E d \in s.vuelo : d.op = "rasgos" /\ d.de = s.rasgos.tag
      <4>1. PICK d \in tab.vuelo : d.op = "rasgos" /\ d.de = tab.rasgos.tag
        BY <1>2, <3>1, <3>2 DEF MemoriaBien
      <4>2. d # c
        BY <4>1
      <4> QED
        BY <1>2, <4>1, <4>2
    <3> QED
      BY <1>2, <3>1, <3>2 DEF MemoriaBien
  <2>2. s.desde \in Rutas /\ s.plan \in Planes \cup {Ninguno} /\ TabBien(tab)
    BY <1>2 DEF ShellInv, TabBien
  <2> QED
    BY <1>2, <2>1, <2>2, Queda
<1>4. Guardada(s) /\ Espera(s)
  BY <1>2 DEF ShellInv, Guardada, Espera, Cargado
<1>5. Fiel(s, ajenas', tarde', expiro')
  <2>1. \A o \in {"rasgos", "nombre"} : o \notin ajenas' => o \notin ajenas
    BY DEF Llega
  <2>2. "rasgos" \notin ajenas' => FuenteFiel(s)
    BY <1>2, <2>1 DEF ShellInv, Fiel, FuenteFiel
  <2>3. Vuela(tab, "nombre") => Vuela(s, "nombre")
    BY <1>2 DEF Vuela
  <2>4. ~tarde' => ~tarde /\ tab.usuario # Nadie
    BY DEF Llega
  <2>5. ~tarde' => /\ "nombre" \notin ajenas' => PlanBien(s)
                   /\ "sucursales" \notin ajenas' => ListaBien(s)
                   /\ Limpia(s)
    BY <1>2, <2>1, <2>3, <2>4 DEF ShellInv, Fiel, PlanBien, ListaBien, Limpia
  <2> QED
    BY <2>2, <2>5 DEF Fiel
<1> QED
  BY <1>1, <1>2, <1>3, <1>4, <1>5 DEF ShellInv

\* The branch that fetchSucursales leaves is one of the list, or none.
LEMMA SucursalElegida ==
  ASSUME NEW lista, IsFiniteSet(lista), NEW antes
  PROVE  (IF antes \in lista THEN antes
          ELSE IF Cardinality(lista) = 1 THEN CHOOSE s \in lista : TRUE ELSE Todas)
         \in lista \cup {Todas}
<1>1. Cardinality(lista) = 1 => (CHOOSE s \in lista : TRUE) \in lista
  BY FS_EmptySet
<1> QED
  BY <1>1

\* Logout goes on.
LEMMA LlegaSalida ==
  ASSUME ShellInv, NEW c \in tab.vuelo, c.op = "logout",
         tab' = Pinta(Salido(Sin(c)), "login"), NEW x, Llega(c, x)
  PROVE  ShellInv' /\ tab'.sesion = tab.sesion
<1>1. PICK m : m = Salido(Sin(c))
  OBVIOUS
<1>2. /\ DOMAIN m = Partes /\ m.usuario = Nadie /\ m.sesion = tab.sesion
      /\ m.desde = "pos" /\ m.rasgos = tab.rasgos /\ m.plan = Ninguno /\ m.sucursal = Todas
      /\ m.vuelo = tab.vuelo \ {c}
  BY <1>1 DEF ShellInv, TabBien, Partes, Salido, Sale, Sin
<1>3. TabBien(m)
  <2>1. MemoriaBien(m)
    BY <1>2 DEF ShellInv, TabBien, MemoriaBien
  <2>2. m.desde \in Rutas /\ m.plan \in Planes \cup {Ninguno} /\ TabBien(tab)
    BY <1>2 DEF ShellInv, Rutas
  <2> QED
    BY <1>2, <2>1, <2>2, Queda
<1>4. Fiel(m, ajenas', tarde', expiro')
  <2>1. "rasgos" \notin ajenas' => "rasgos" \notin ajenas
    BY DEF Llega
  <2> QED
    BY <1>2, <2>1 DEF ShellInv, Fiel, FuenteFiel, PlanBien, ListaBien, Limpia
<1>5. "login" \in Rutas
  BY DEF Rutas, Publicas
<1> QED
  BY <1>1, <1>2, <1>3, <1>4, <1>5, Renderiza

\* A call answered for tenant x: its own, that of the session that repeated it, or
\* one whose body the service worker kept.
LEMMA AplicaConserva ==
  ASSUME ShellInv, NEW c \in tab.vuelo, NEW x \in Tenants, tab' = Aplica(Sin(c), c, x),
         Llega(c, x)
  PROVE  ShellInv' /\ tab'.sesion = tab.sesion
<1>1. c.op \in Consultas /\ PlanDe[x] \in Planes /\ IsFiniteSet(Sucs[x])
  BY AdminShellAssumption DEF ShellInv, TabBien, LlamadaBien, Planes
<1>2. Sin(c).ruta = tab.ruta /\ Sin(c).sucursal = tab.sucursal
  BY DEF Sin, ShellInv, TabBien, Partes
<1>7. c.op # "logout" /\ c.op \notin ajenas' /\ ~tarde' => x \in {tab.usuario.tenant, "nada"}
  <2>1. c.op # "logout" /\ c.op \notin ajenas' => x \in {c.de, "nada"}
    BY DEF Llega
  <2>2. ~tarde' => c.de = tab.usuario.tenant
    BY DEF Llega, ShellInv, TabBien, LlamadaBien
  <2> QED
    BY <2>1, <2>2
<1>8. x # "nada"
  BY AdminShellAssumption
<1>3. CASE c.op = "rasgos"
  <2>1. tab' = Pinta(RecibeRasgos(Sin(c), c, x), tab.ruta)
    BY <1>2, <1>3 DEF Aplica
  <2> QED
    BY <1>3, <2>1, LleganRasgos
<1>4. CASE c.op = "nombre"
  <2>1. tab' = [Sin(c) EXCEPT !.plan = PlanDe[x]]
    BY <1>4 DEF Aplica
  <2>2. ~tarde' /\ "nombre" \notin ajenas' => PlanDe[x] \in {PlanDe[tab.usuario.tenant], "basico"}
    BY <1>7, <1>4, <1>8
  <2> QED
    BY <1>1, <1>4, <2>1, <2>2, LlegaNombre
<1>5. CASE c.op = "sucursales"
  <2>1. PICK suc : suc = IF tab.sucursal \in Sucs[x] THEN tab.sucursal
                         ELSE IF Cardinality(Sucs[x]) = 1 THEN CHOOSE s \in Sucs[x] : TRUE
                         ELSE Todas
    OBVIOUS
  <2>2. PICK lista : lista = Sucs[x]
    OBVIOUS
  <2>3. suc \in lista \cup {Todas}
    BY <1>1, <2>1, <2>2, SucursalElegida
  <2>4. tab' = [Sin(c) EXCEPT !.sucursales = lista, !.sucursal = suc]
    BY <1>2, <1>5, <2>1, <2>2 DEF Aplica, RecibeSucursales
  <2>5. ~tarde' /\ "sucursales" \notin ajenas' => lista \subseteq Sucs[tab.usuario.tenant]
    BY <1>7, <1>5, <1>8, <2>2
  <2> QED
    BY <1>5, <2>3, <2>4, <2>5, LleganSucursales
<1>6. CASE c.op = "logout"
  <2>1. tab' = Pinta(Salido(Sin(c)), "login")
    BY <1>6 DEF Aplica
  <2> QED
    BY <1>6, <2>1, LlegaSalida
<1> QED
  BY <1>1, <1>3, <1>4, <1>5, <1>6 DEF Consultas

LEMMA FracasaConserva ==
  ASSUME ShellInv, NEW c \in tab.vuelo, Fracasa(c)
  PROVE  ShellInv' /\ tab'.sesion = tab.sesion
<1>1. c.op \in Consultas /\ c.op # "logout" /\ Llega(c, "nada") /\ tab' = Malogra(Sin(c), c)
  BY DEF Fracasa, SinRed, ShellInv, TabBien, LlamadaBien
<1>2. Sin(c).ruta = tab.ruta /\ Sin(c).sucursal = tab.sucursal
  BY DEF Sin, ShellInv, TabBien, Partes
<1>3. CASE c.op = "rasgos"
  <2>1. tab' = Pinta(RecibeRasgos(Sin(c), c, "nada"), tab.ruta)
    BY <1>1, <1>2, <1>3 DEF Malogra
  <2> QED
    BY <1>1, <1>3, <2>1, LleganRasgos
<1>4. CASE c.op = "nombre"
  <2>1. tab' = [Sin(c) EXCEPT !.plan = "basico"] /\ "basico" \in Planes
    BY <1>1, <1>4 DEF Malogra, Planes
  <2> QED
    BY <1>1, <1>4, <2>1, LlegaNombre
<1>5. CASE c.op = "sucursales"
  <2>1. tab' = [Sin(c) EXCEPT !.sucursales = {}]
    BY <1>1, <1>5 DEF Malogra
  <2>2. tab' = [Sin(c) EXCEPT !.sucursales = {}, !.sucursal = tab.sucursal]
    BY <1>2, <2>1
  <2> QED
    BY <1>1, <1>5, <2>2, LleganSucursales
<1> QED
  BY <1>1, <1>3, <1>4, <1>5 DEF Consultas

LEMMA RedConserva ==
  ASSUME ShellInv, Red
  PROVE  ShellInv' /\ tab'.sesion = tab.sesion
<1>1. PICK c \in tab.vuelo : Responde(c) \/ Cruza(c) \/ Fracasa(c) \/ \E x \in Tenants \ {c.de} : DeCache(c, x)
  BY DEF Red
<1>2. LlamadaBien(tab, c) /\ tab.usuario \in Usuarios \cup {Nadie}
  BY DEF ShellInv, TabBien
<1>3. CASE Responde(c)
  <2>1. tab' = Aplica(Sin(c), c, c.de) /\ Llega(c, c.de) /\ c.de \in Tenants
    BY <1>2, <1>3 DEF Responde, LlamadaBien
  <2> QED
    BY <2>1, AplicaConserva
<1>4. CASE Cruza(c)
  <2>1. tab' = Aplica(Sin(c), c, tab.usuario.tenant) /\ Llega(c, tab.usuario.tenant) /\ tab.usuario # Nadie
    BY <1>4 DEF Cruza
  <2>2. tab.usuario.tenant \in Tenants
    BY <1>2, <2>1, NadieNoEsUsuario
  <2> QED
    BY <2>1, <2>2, AplicaConserva
<1>6. ASSUME NEW x \in Tenants, DeCache(c, x) PROVE ShellInv' /\ tab'.sesion = tab.sesion
  BY <1>6, AplicaConserva DEF DeCache
<1>5. CASE Fracasa(c)
  BY <1>5, FracasaConserva
<1> QED
  BY <1>1, <1>3, <1>4, <1>5, <1>6

-----------------------------------------------------------------------------
(* The specification *)

LEMMA InicioEstablece == ShellInit => ShellInv
<1> SUFFICES ASSUME ShellInit PROVE ShellInv
  OBVIOUS
<1>1. /\ DOMAIN tab = Partes /\ tab.usuario = Nadie /\ tab.sesion = 0 /\ tab.ruta = "login"
      /\ tab.desde = "pos" /\ tab.rasgos = SinMemoria /\ tab.plan = Ninguno /\ tab.sucursal = Todas
      /\ tab.vuelo = {}
  BY DEF ShellInit, Partes
<1>2. SinMemoria.tag = "" /\ SinMemoria.fuente = "nulo" /\ ~SinMemoria.promesa
  BY DEF SinMemoria
<1>3. "login" \in Rutas /\ "login" \notin RutasPanel /\ "pos" \in Rutas
  BY DEF Rutas, Publicas, RutasPanel, Puertas
<1>4. TabBien(tab)
  <2>1. MemoriaBien(tab)
    BY <1>1, <1>2 DEF MemoriaBien
  <2> QED
    BY <1>1, <1>3, <2>1 DEF TabBien
<1>5. Guardada(tab) /\ Espera(tab)
  BY <1>1, <1>3 DEF Guardada, Espera
<1>6. Fiel(tab, ajenas, tarde, expiro)
  BY <1>1, <1>2, <1>3 DEF Fiel, FuenteFiel, PlanBien, ListaBien, Limpia
<1> QED
  BY <1>4, <1>5, <1>6 DEF ShellInv

LEMMA PasoConserva == ShellInv /\ [ShellNext]_shellVars => ShellInv' /\ [SinAjena]_shellVars
<1> SUFFICES ASSUME ShellInv, [ShellNext]_shellVars PROVE ShellInv' /\ [SinAjena]_shellVars
  OBVIOUS
<1>1. tab'.sesion = tab.sesion => SinAjena
  BY DEF SinAjena
<1>2. ASSUME NEW u \in Usuarios, Entrar(u) PROVE ShellInv' /\ SinAjena
  BY <1>2, EntrarConserva
<1>3. CASE Expirar
  BY <1>1, <1>3, ExpirarConserva
<1>4. ASSUME NEW r \in Destinos \cup {tab.ruta}, Recargar(r) PROVE ShellInv' /\ SinAjena
  <2>1. r \in Rutas
    BY AdminShellAssumption DEF Rutas, ShellInv, Guardada
  <2> QED
    BY <1>1, <1>4, <2>1, RecargarConserva
<1>5. CASE \/ \E r \in Destinos : MenuPanel(r) \/ DelPosAlPanel(r)
           \/ CierraModal \/ VolverAlPos \/ PideSalir
           \/ \E t \in Tenants : \E s \in Sucs[t] \cup {Todas} : EligeSucursal(s)
  BY <1>1, <1>5, ClicConserva
<1>6. CASE Red
  BY <1>1, <1>6, RedConserva
<1>7. CASE UNCHANGED shellVars
  BY <1>7 DEF shellVars, ShellInv
<1> QED
  BY <1>2, <1>3, <1>4, <1>5, <1>6, <1>7 DEF ShellNext

LEMMA Invariante == ShellSpec => []ShellInv
  BY InicioEstablece, PasoConserva, PTL DEF ShellSpec

(* Whatever answers come in whatever order, in whosever session, a gate of  *)
(* the panel opens by the features of the tenant of the session, unless the *)
(* last answer was not for the tenant that asked (the service worker's      *)
(* cache, a call repeated with a new token), and while it shows its spinner *)
(* a call for that tenant is in flight (useFeature, FeatureGate).           *)
THEOREM RasgosDelUsuario == ShellSpec => []RasgosFieles
<1>1. ShellInv => RasgosFieles
  <2> SUFFICES ASSUME ShellInv PROVE RasgosFieles
    OBVIOUS
  <2>1. TabTypeOK
    BY DEF ShellInv, TabBien, MemoriaBien, Guardada, Rutas, Planes, TabTypeOK, EnVuelo
  <2>2. RasgosDelTenant
    BY DEF ShellInv, Fiel, FuenteFiel, RasgosDelTenant, Cargado
  <2>3. EsperaConLlamada
    BY DEF ShellInv, Espera, EsperaConLlamada, EnPanel
  <2> QED
    BY <2>1, <2>2, <2>3 DEF RasgosFieles
<1> QED
  BY <1>1, Invariante, PTL

(* The menu offers no page that the guards of its route refuse, and the     *)
(* plan and the branches of the panel are those of the tenant, also after   *)
(* the session of another tenant expired, until the service worker answers  *)
(* with a body of another one (AdminLayout, App.tsx, useSucursalStore,      *)
(* useAuthStore, sw.ts).                                                    *)
THEOREM PanelEnOrden == ShellSpec => []PanelDelUsuario
<1>1. ShellInv => PanelDelUsuario
  <2> SUFFICES ASSUME ShellInv PROVE PanelDelUsuario
    OBVIOUS
  <2>1. MenuLleva
    <3> SUFFICES ASSUME EnPanel, NEW r \in RutasPanel, Ofrece(r, tab.usuario.rol)
                 PROVE  Destino(tab, r) = r
      BY DEF MenuLleva
    <3>1. tab.usuario # Nadie /\ tab.usuario.rol \in {"admin", "supervisor"}
      BY DEF ShellInv, Guardada, EnPanel, Permite
    <3>2. r # "login"
      BY DEF RutasPanel, Puertas
    <3>3. Permite(r, tab.usuario.rol)
      BY <3>1 DEF Ofrece, Permite
    <3> QED
      BY <3>1, <3>2, <3>3 DEF Destino
  <2>2. SucursalDeLaLista
    BY DEF ShellInv, Guardada, Fiel, ListaBien, Vuela, SucursalDeLaLista, EnPanel, EnVuelo
  <2>3. PlanPropio
    BY DEF ShellInv, Fiel, PlanBien, Vuela, PlanPropio, EnVuelo
  <2> QED
    BY <2>1, <2>2, <2>3 DEF PanelDelUsuario
<1> QED
  BY <1>1, Invariante, PTL

(* The login that follows a logout finds no branch of another tenant        *)
(* selected, whatever was chosen, stored and restored before                *)
(* (useAuthStore.logout).                                                   *)
THEOREM SesionLimpia == ShellSpec => SesionSinSucursalAjena
<1>1. ShellInv /\ [ShellNext]_shellVars => [tab'.sesion # tab.sesion /\ ~expiro /\ ~tarde =>
        tab'.sucursal \in Sucs[tab'.usuario.tenant] \cup {Todas}]_shellVars
  BY PasoConserva DEF SinAjena
<1> QED
  BY <1>1, Invariante, PTL DEF ShellSpec, SesionSinSucursalAjena
=============================================================================
