------------------------------ MODULE BackendAccess -----------------------------
(***************************************************************************)
(* apps/frontend/src/sw.ts, apps/backend/src and the providers of           *)
(* packages/guide: how a request of a page gets to the backend.  The service *)
(* worker of a visitor exchanges a secret, or nothing, for a token, keeps it *)
(* in memory and puts it on every request; the backend checks the token,    *)
(* limits the calls of the language model per tier, and forwards the calls   *)
(* that it admits.                                                          *)
(*                                                                         *)
(* A fetch is settled by the network in the end, with an answer or without. *)
(* A browser terminates the worker when it has no request to handle, and    *)
(* its memory goes with it.  The backend does not restart.                  *)
(***************************************************************************)
EXTENDS Naturals, Sequences, Selection

CONSTANTS
  Visitor,
  Request, Owner,      \* fetches of the pages, and the visitor who makes each
  Turn,                \* the requests that are calls of /llm/turn
  Secret, Granted,     \* secrets, and the tier of each that the backend knows
  Tier, Anonymous,     \* access tiers, and the one of a visitor without secret
  Limit, Unlimited,    \* rateLimitPerMinute of each tier
  Cap,                 \* spendCap of each tier, or Unlimited
  Window, Ttl, Margin, \* 60,000 ms, tokenTtlMs, and the 30,000 ms of getToken(), in ticks
  Behind,              \* how far the clocks of the pages are behind the backend's
  None,
  MaxClock, MaxStops   \* bounds: the clock, and how often workers are terminated

ASSUME AccessAssumption ==
  /\ Owner \in [Request -> Visitor] /\ Turn \subseteq Request
  /\ DOMAIN Granted \subseteq Secret /\ \A s \in DOMAIN Granted : Granted[s] \in Tier
  /\ Anonymous \in Tier
  /\ Cap \in [Tier -> Nat \cup {Unlimited}]
  /\ Ttl \in Nat /\ Margin \in Nat /\ Behind \in 0 .. Margin
  /\ MaxClock \in Nat /\ MaxStops \in Nat
  /\ None \notin Request \cup Secret

VARIABLES
  clock,       \* Date.now() of the backend
  active,      \* the visitor's worker is activated and controls the page
  link,        \* the secret in the address of the page
  pending,     \* pendingSecret of the worker
  cached,      \* cachedToken and tokenExpiresAt
  fetching,    \* the request whose fetchToken() is tokenFetchPromise
  exchange,    \* fetchToken() of a request: None, what it sent, or what came of it
  phase,       \* of a request: new, awaiting a token, sent, in its turn, done
  bearer,      \* the token it carries
  callTimestamps, \* of the UsageStore
  admitted, refusals, \* history: as in module CallWindow
  owed,        \* history: the tier of the secret a worker took, unless it had no luck with it
  cachedAt,    \* history: when a request got a token from the cache
  stops
workerVars == <<active, link, pending, cached, fetching, exchange>>
requestVars == <<phase, bearer, cachedAt>>
usageVars == <<callTimestamps, admitted, refusals>>
vars == <<clock, workerVars, requestVars, usageVars, owed, stops>>

Token == [tier : Tier, session : Request, exp : Nat]

Init ==
  /\ clock = 0
  /\ active = [v \in Visitor |-> FALSE]
  /\ link \in [Visitor -> Secret \cup {None}]
  /\ pending = [v \in Visitor |-> None]
  /\ cached = [v \in Visitor |-> None]
  /\ fetching = [v \in Visitor |-> None]
  /\ exchange = [r \in Request |-> None]
  /\ phase = [r \in Request |-> "new"]
  /\ bearer = [r \in Request |-> None]
  /\ callTimestamps = [t \in Tier |-> <<>>]
  /\ admitted = [t \in Tier |-> <<>>]
  /\ refusals = [t \in Tier |-> 0]
  /\ owed = [v \in Visitor |-> None]
  /\ cachedAt = [r \in Request |-> None]
  /\ stops = 0

-----------------------------------------------------------------------------
(* The service worker *)

(* skipWaiting(), claim() and extractSecret(): the browser holds the fetch
   events back until the worker is activated.  A secret leaves the address. *)
Activate(v) ==
  /\ ~active[v]
  /\ active' = [active EXCEPT ![v] = TRUE]
  /\ pending' = [pending EXCEPT ![v] = link[v]]
  /\ owed' = [owed EXCEPT ![v] = IF link[v] \in DOMAIN Granted THEN Granted[link[v]] ELSE None]
  /\ link' = [link EXCEPT ![v] = None]
  /\ UNCHANGED <<clock, cached, fetching, exchange, requestVars, usageVars, stops>>

Handled(v) == {r \in Request : Owner[r] = v /\ phase[r] \in {"awaiting", "sent", "turn"}}

(* The browser terminates a worker that has nothing to do; the next event
   starts it again, with the variables of the module as they are declared. *)
Terminate(v) ==
  /\ active[v] /\ Handled(v) = {} /\ stops < MaxStops
  /\ stops' = stops + 1
  /\ pending' = [pending EXCEPT ![v] = None]
  /\ cached' = [cached EXCEPT ![v] = None]
  /\ owed' = [owed EXCEPT ![v] = None]
  /\ UNCHANGED <<clock, active, link, fetching, exchange, requestVars, usageVars>>

Send(rs, token) ==
  /\ phase' = [r \in Request |-> IF r \in rs THEN "sent" ELSE phase[r]]
  /\ bearer' = [r \in Request |-> IF r \in rs THEN token ELSE bearer[r]]

(* Before the worker is activated, a request goes as it is. *)
FetchDirectly(r) ==
  /\ phase[r] = "new" /\ ~active[Owner[r]]
  /\ Send({r}, None)
  /\ UNCHANGED <<clock, workerVars, cachedAt, usageVars, owed, stops>>

(* getToken() trusts its token for another Margin, by the clock of the page. *)
Valid(v) == cached[v] # None /\ cached[v].exp + Behind > clock + Margin

(* Mutant: the secret is cleared before it is read. *)
FetchTokenCleared(r) ==
  LET v == Owner[r] IN
  /\ exchange' = [exchange EXCEPT ![r] = [secret |-> None]]
  /\ pending' = [pending EXCEPT ![v] = None]
  /\ fetching' = [fetching EXCEPT ![v] = r]
  /\ owed' = [owed EXCEPT ![v] = IF cached[v] = None THEN @ ELSE None]

(* fetchToken() up to its await: the secret is given away. *)
FetchToken(r) ==
  LET v == Owner[r] IN
  /\ exchange' = [exchange EXCEPT ![r] = [secret |-> pending[v]]]
  /\ pending' = [pending EXCEPT ![v] = None]
  /\ fetching' = [fetching EXCEPT ![v] = r]
  /\ owed' = [owed EXCEPT ![v] = IF cached[v] = None THEN @ ELSE None]

(* Mutant: nobody waits for the exchange of another request. *)
FetchAlone(r) ==
  LET v == Owner[r] IN
  /\ phase[r] = "new" /\ active[v] /\ ~Valid(v)
  /\ phase' = [phase EXCEPT ![r] = "awaiting"]
  /\ FetchToken(r)
  /\ UNCHANGED <<clock, active, link, cached, bearer, cachedAt, usageVars, stops>>

FetchWithCached(r) ==
  /\ phase[r] = "new" /\ active[Owner[r]] /\ Valid(Owner[r])
  /\ Send({r}, cached[Owner[r]])
  /\ cachedAt' = [cachedAt EXCEPT ![r] = clock]
  /\ UNCHANGED <<clock, workerVars, usageVars, owed, stops>>

(* The fetch event of a request for which there is no token: the first starts
   the exchange, the others wait for it. *)
FetchAwaiting(r) ==
  LET v == Owner[r] IN
  /\ phase[r] = "new" /\ active[v] /\ ~Valid(v)
  /\ phase' = [phase EXCEPT ![r] = "awaiting"]
  /\ IF fetching[v] # None
       THEN UNCHANGED <<exchange, pending, fetching, owed>>
       ELSE FetchToken(r)
  /\ UNCHANGED <<clock, active, link, cached, bearer, cachedAt, usageVars, stops>>

Fetches(r) == exchange[r] # None /\ phase[r] = "awaiting"

(* Mutant: only the request that started the exchange goes on without token. *)
ResumeOne(r, token) ==
  LET v == Owner[r] IN
  /\ exchange' = [exchange EXCEPT ![r] = None]
  /\ fetching' = [fetching EXCEPT ![v] = None]
  /\ Send(IF token = None THEN {r} ELSE {q \in Request : Owner[q] = v /\ phase[q] = "awaiting"},
          token)

(* tokenFetchPromise is resolved: who waited for it sends his request. *)
Resume(r, token) ==
  LET v == Owner[r]
      waiting == {q \in Request : Owner[q] = v /\ phase[q] = "awaiting"
                                  /\ (q = r \/ exchange[q] = None)}
  IN
  /\ exchange' = [exchange EXCEPT ![r] = None]
  /\ fetching' = [fetching EXCEPT ![v] = None]
  /\ Send(waiting, token)

ExchangeArrives(r) ==
  /\ Fetches(r) /\ exchange[r] \in Token
  /\ cached' = [cached EXCEPT ![Owner[r]] = exchange[r]]
  /\ Resume(r, exchange[r])
  /\ UNCHANGED <<clock, active, link, pending, cachedAt, usageVars, owed, stops>>

(* The exchange is refused, or lost on one of its ways. *)
ExchangeFails(r) ==
  /\ Fetches(r)
  /\ owed' = [owed EXCEPT ![Owner[r]] = None]
  /\ Resume(r, None)
  /\ UNCHANGED <<clock, active, link, pending, cached, cachedAt, usageVars, stops>>

-----------------------------------------------------------------------------
(* The backend *)

(* POST /auth/exchange: every token is of a session of its own.  A secret it
   does not know is refused. *)
Exchange(r) ==
  /\ Fetches(r) /\ exchange[r] \notin Token
  /\ exchange[r].secret \in DOMAIN Granted \cup {None}
  /\ exchange' = [exchange EXCEPT ![r] =
       [tier |-> IF @.secret = None THEN Anonymous ELSE Granted[@.secret],
        session |-> r, exp |-> clock + Ttl]]
  /\ UNCHANGED <<clock, active, link, pending, cached, fetching, requestVars, usageVars,
                 owed, stops>>

(* authMiddleware() *)
Authorised(r) == bearer[r] # None /\ bearer[r].exp >= clock

Ends(r) ==
  /\ phase' = [phase EXCEPT ![r] = "done"]
  /\ bearer' = [bearer EXCEPT ![r] = None]
  /\ cachedAt' = [cachedAt EXCEPT ![r] = None]

(* 401 *)
Unauthorised(r) ==
  /\ phase[r] = "sent" /\ ~Authorised(r)
  /\ Ends(r)
  /\ UNCHANGED <<clock, workerVars, usageVars, owed, stops>>

Retrieve(r) ==
  /\ phase[r] = "sent" /\ Authorised(r) /\ r \notin Turn
  /\ Ends(r)
  /\ UNCHANGED <<clock, workerVars, usageVars, owed, stops>>

(* Mutant: a call at the edge of the window is forgotten. *)
RecentOpen(t) == Only(callTimestamps[t], {at \in Nat : at + Window > clock})

(* countRecentCalls() *)
Recent(t) == Only(callTimestamps[t], {at \in Nat : at + Window >= clock})

(* getSpend() of any session: no code calls addSpend(). *)
Spend == 0

(* Mutant: a call is recorded before the recent ones are counted. *)
RecordedFirst(r, t) ==
  LET kept == Append(Recent(t), clock) IN
  /\ callTimestamps' = [callTimestamps EXCEPT ![t] = kept]
  /\ IF Limit[t] # Unlimited /\ Len(kept) >= Limit[t]
       THEN /\ refusals' = [refusals EXCEPT ![t] = @ + 1]
            /\ UNCHANGED admitted /\ Ends(r)
       ELSE /\ admitted' = [admitted EXCEPT ![t] = Append(@, clock)]
            /\ phase' = [phase EXCEPT ![r] = "turn"]
            /\ UNCHANGED <<refusals, bearer, cachedAt>>

(* enforceCostControls(): a refused call is answered 429 or 402. *)
EnforceCostControls(r, t) ==
  LET kept == IF Limit[t] = Unlimited THEN callTimestamps[t] ELSE Recent(t) IN
  IF Limit[t] # Unlimited /\ Len(kept) >= Limit[t]
    THEN /\ callTimestamps' = [callTimestamps EXCEPT ![t] = kept]
         /\ refusals' = [refusals EXCEPT ![t] = @ + 1]
         /\ UNCHANGED admitted /\ Ends(r)
  ELSE IF Cap[t] # Unlimited /\ Spend >= Cap[t]
    THEN /\ callTimestamps' = [callTimestamps EXCEPT ![t] = kept]
         /\ UNCHANGED <<admitted, refusals>> /\ Ends(r)
    ELSE /\ callTimestamps' = [callTimestamps EXCEPT ![t] = Append(kept, clock)]
         /\ admitted' = [admitted EXCEPT ![t] = Append(@, clock)]
         /\ phase' = [phase EXCEPT ![r] = "turn"]
         /\ UNCHANGED <<refusals, bearer, cachedAt>>

(* POST /llm/turn up to the call of the model. *)
BeginTurn(r) ==
  /\ phase[r] = "sent" /\ Authorised(r) /\ r \in Turn
  /\ EnforceCostControls(r, bearer[r].tier)
  /\ UNCHANGED <<clock, workerVars, owed, stops>>

(* The provider has the model's answer, or an error for an HTTP error or an
   answer without choice; the proxy answers 200 or 500, and the provider of
   the page returns the calls, FINISHED, or throws. *)
EndTurn(r) ==
  /\ phase[r] = "turn"
  /\ Ends(r)
  /\ UNCHANGED <<clock, workerVars, usageVars, owed, stops>>

(* The request is lost: the worker answers 503 in its place, and without
   worker the fetch is rejected. *)
Lost(r) ==
  /\ phase[r] = "sent"
  /\ Ends(r)
  /\ UNCHANGED <<clock, workerVars, usageVars, owed, stops>>

Tick ==
  /\ clock < MaxClock
  /\ clock' = clock + 1
  /\ UNCHANGED <<workerVars, requestVars, usageVars, owed, stops>>

Next ==
  \/ Tick
  \/ \E v \in Visitor : Activate(v) \/ Terminate(v)
  \/ \E r \in Request :
       \/ FetchDirectly(r) \/ FetchWithCached(r) \/ FetchAwaiting(r)
       \/ Exchange(r) \/ ExchangeArrives(r) \/ ExchangeFails(r)
       \/ Unauthorised(r) \/ Retrieve(r) \/ BeginTurn(r) \/ EndTurn(r) \/ Lost(r)

Spec == Init /\ [][Next]_vars

(* The network and the model settle every fetch. *)
Fairness ==
  \A r \in Request :
    /\ WF_vars(ExchangeArrives(r) \/ ExchangeFails(r))
    /\ WF_vars(Unauthorised(r) \/ Retrieve(r) \/ BeginTurn(r) \/ EndTurn(r) \/ Lost(r))

FairSpec == Spec /\ Fairness

-----------------------------------------------------------------------------
TypeOK ==
  /\ clock \in Nat /\ stops \in Nat
  /\ active \in [Visitor -> BOOLEAN] /\ owed \in [Visitor -> Tier \cup {None}]
  /\ link \in [Visitor -> Secret \cup {None}]
  /\ pending \in [Visitor -> Secret \cup {None}]
  /\ cached \in [Visitor -> Token \cup {None}]
  /\ fetching \in [Visitor -> Request \cup {None}]
  /\ exchange \in [Request -> Token \cup {None} \cup [secret : Secret \cup {None}]]
  /\ phase \in [Request -> {"new", "awaiting", "sent", "turn", "done"}]
  /\ bearer \in [Request -> Token \cup {None}]
  /\ cachedAt \in [Request -> Nat \cup {None}]
  /\ callTimestamps \in [Tier -> Seq(Nat)]

(* enforceCostControls() implements the limit of module CallWindow, although
   it forgets what is out of the window, and only looks at it when a call
   comes: a call is admitted if and only if the window is not full. *)
Limiter == INSTANCE CallWindow
ASSUME LimitAssumption == Limiter!WindowAssumption
LimitsCalls == Limiter!Spec

(* However the calls of all visitors and sessions interleave and however long
   their turns take, no window of a tier holds more than its limit. *)
RateLimited == Limiter!RateLimited

(* sw.ts, line 26: concurrent requests share one exchange.  So a visitor's
   token, and with it the session that the backend counts for, is never
   replaced while it is good; it can only be lost with the worker. *)
SessionStable ==
  [][\A v \in Visitor : Valid(v) => cached'[v] \in {cached[v], None}]_vars

(* The secret of a visitor's address is what his first token is made from, on
   all his requests through the worker, those that came while the exchange was
   under way included; unless the exchange fails or the worker is terminated. *)
SecretHonoured ==
  \A r \in Request :
    bearer[r] # None /\ owed[Owner[r]] # None => bearer[r].tier = owed[Owner[r]]

(* A token from the cache is good for as long as the margin, less what the
   clock of the page is behind: a request that arrives by then is not refused. *)
TokenAccepted ==
  \A r \in Request :
    phase[r] = "sent" /\ cachedAt[r] # None /\ ~Authorised(r) =>
      clock + Behind > cachedAt[r] + Margin

(* What the page attaches, the backend takes for what it is. *)
TokensHonoured == TypeOK /\ SecretHonoured /\ TokenAccepted

(* Every fetch is answered, also when the exchange it waits for was begun by
   another and fails. *)
AnsweredInTheEnd == \A r \in Request : phase[r] # "new" ~> phase[r] = "done"
=============================================================================
