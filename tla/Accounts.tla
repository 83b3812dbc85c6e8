------------------------------ MODULE Accounts ------------------------------
(***************************************************************************)
(* Reviewer accounts: the OAuth handlers of internal/httpserver/oauth.go   *)
(* with the in-memory state of one server process (one-time states, the    *)
(* rate limiter's windows), the table github_accounts, and the command     *)
(* `seed-account`, which writes the table from another process.            *)
(*                                                                         *)
(* A flow is one OAuth authorization: the start request that issues its    *)
(* state, and any number of callback requests that present the state again *)
(* (a browser repeats them, two may run at once).  One action is one       *)
(* critical section, statement or remote call with the code up to the next.*)
(* Requests that fail validateAdmin, have the wrong method or lack a       *)
(* parameter change nothing and are left out, as is ListAccounts, which    *)
(* only reads.  Tokens are left out: what matters is whose row is written. *)
(* Time is counted in ticks; any number of requests share a tick, and a    *)
(* number tells those of one address apart.                                *)
(***************************************************************************)
EXTENDS Integers, FiniteSets

CONSTANTS
    NULL,
    Login,                \* GitHub logins that may authorize or be seeded
    Flow,                 \* the random states the server may generate
    Callback,             \* callback requests being handled at a time
    IP,                   \* client addresses, as getClientIP computes them
    MaxReviewerAccounts,  \* MAX_REVIEWER_ACCOUNTS
    AdminOAuthRPM,        \* ADMIN_OAUTH_RPM
    Minute,               \* the rate limiter's window, in ticks
    TTL,                  \* the lifetime of a state, ten minutes, in ticks
    MaxTime,              \* bound: last tick of the clock
    MaxSeeds              \* bound: runs of `agent-frei seed-account`

ASSUME LimitsAssumption == {MaxReviewerAccounts, AdminOAuthRPM} \subseteq Int
ASSUME TimeAssumption == {Minute, TTL, MaxTime, MaxSeeds} \subseteq Nat
ASSUME AccountsNullAssumption == NULL \notin Login \cup Flow \cup Nat

VARIABLES
    accounts,  \* github_accounts.status by login; "absent": no row
    states,    \* s.states: when a state was issued, NULL when not in the map
    limits,    \* s.limits: the requests the limiter remembers
    starts,    \* each flow's start request: where it stands
    calls,     \* what each callback request is doing
    now,       \* time.Now()
    seeds,     \* seed-account runs so far
    admits,    \* history: all requests the limiter let through
    spent,     \* history: how many callbacks passed the check of a state
    overlap    \* history: a flow was counted while another was outstanding

server == <<states, limits, starts, calls>>
vars == <<accounts, server, now, seeds, admits, spent, overlap>>

Idle == [pc |-> "idle", flow |-> NULL, login |-> NULL]

CallState == [pc : {"idle", "exchange", "user", "upsert"},
              flow : Flow \cup {NULL}, login : Login \cup {NULL}]

(* The maps of a server that has just started. *)
NoStates == [f \in Flow |-> NULL]
NoRequests == [ip \in IP |-> {}]
NoCalls == [c \in Callback |-> Idle]

Init ==
    /\ accounts = [u \in Login |-> "absent"]
    /\ states = NoStates /\ limits = NoRequests /\ calls = NoCalls
    /\ starts = [f \in Flow |-> "new"]
    /\ now = 0
    /\ seeds = 0
    /\ admits = NoRequests
    /\ spent = [f \in Flow |-> 0]
    /\ overlap = FALSE
-----------------------------------------------------------------------------
(* allowIPRateLimit, under limiterMu.                                       *)

(* What the limiter knows of a request: when it came. *)
Request == [at : Nat, number : Nat]

(* A request that comes now. *)
NewRequest(ip) == [at |-> now, number |-> Cardinality(admits[ip])]

(* The cutoff is an entry too far on: RateLimitHolds. *)
BugActive(ip) == {r \in limits[ip] : r.at > now - Minute + 1}

(* The entries younger than a minute. *)
Active(ip) == {r \in limits[ip] : r.at > now - Minute}

Admitted(ip) == Cardinality(Active(ip)) < AdminOAuthRPM

(* Refused requests are remembered as well: LimiterIsExact. *)
BugRemembered(ip) == Active(ip) \cup {NewRequest(ip)}

(* What the limiter stores: a refusal only drops the old entries. *)
Remembered(ip) == Active(ip) \cup IF Admitted(ip) THEN {NewRequest(ip)} ELSE {}

(* oauthStartHandler up to CountAccounts. *)
OAuthStart(f, ip) ==
    /\ starts[f] = "new"
    /\ limits' = [limits EXCEPT ![ip] = Remembered(ip)]
    /\ IF Admitted(ip)
       THEN /\ starts' = [starts EXCEPT ![f] = "count"]
            /\ admits' = [admits EXCEPT ![ip] = @ \cup {NewRequest(ip)}]
       ELSE UNCHANGED <<starts, admits>>
    /\ UNCHANGED <<accounts, states, calls, now, seeds, spent, overlap>>

ActiveAccounts == {u \in Login : accounts[u] = "active"}

CountAccounts == Cardinality(ActiveAccounts)

Unexpired(f) == states[f] # NULL /\ now - states[f] <= TTL

(* The flow was found within the limit and may still end in an upsert. *)
Outstanding(f) ==
    \/ starts[f] = "store" \/ Unexpired(f)
    \/ \E c \in Callback : calls[c].flow = f

(* The statement CountAccounts: at the limit, or when it fails, the request *)
(* is refused.                                                              *)
CheckLimit(f) ==
    /\ starts[f] = "count"
    /\ \/ /\ CountAccounts < MaxReviewerAccounts
          /\ starts' = [starts EXCEPT ![f] = "store"]
          /\ overlap' = (overlap \/ \E g \in Flow \ {f} : Outstanding(g))
       \/ /\ starts' = [starts EXCEPT ![f] = "new"]
          /\ UNCHANGED overlap
    /\ UNCHANGED <<accounts, states, limits, calls, now, seeds, admits, spent>>

(* Later the new state is stored under stateMu, and the browser redirected. *)
IssueState(f) ==
    /\ starts[f] = "store"
    /\ starts' = [starts EXCEPT ![f] = "issued"]
    /\ states' = [states EXCEPT ![f] = now]
    /\ UNCHANGED <<accounts, limits, calls, now, seeds, admits, spent, overlap>>
-----------------------------------------------------------------------------
(* oauthCallbackHandler.                                                    *)

(* The age of the state is not looked at: LimitHoldsWithoutOverlap. *)
BugStateValid(f) == states[f] # NULL

StateValid(f) == Unexpired(f)

(* The entry stays in the map: StateSpentOnce. *)
BugDeleteState(f) == UNCHANGED states

DeleteState(f) == states' = [states EXCEPT ![f] = NULL]

(* The state is looked up and deleted under stateMu, whether or not it has  *)
(* expired.                                                                 *)
TakeState(c, f) ==
    /\ calls[c] = Idle
    /\ starts[f] = "issued"
    /\ DeleteState(f)
    /\ IF StateValid(f)
       THEN /\ calls' = [calls EXCEPT ![c] = [Idle EXCEPT !.pc = "exchange", !.flow = f]]
            /\ spent' = [spent EXCEPT ![f] = @ + 1]
       ELSE UNCHANGED <<calls, spent>>
    /\ UNCHANGED <<accounts, limits, starts, now, seeds, admits, overlap>>

(* The flow is remembered after the answer: TypeOK. *)
BugAnswer(c) == calls' = [calls EXCEPT ![c].pc = "idle"]

Answer(c) == calls' = [calls EXCEPT ![c] = Idle]

(* Each remote call succeeds, or the handler answers with an error. *)
ExchangeCode(c) ==
    /\ calls[c].pc = "exchange"
    /\ calls' = [calls EXCEPT ![c].pc = "user"] \/ Answer(c)
    /\ UNCHANGED <<accounts, states, limits, starts, now, seeds, admits, spent, overlap>>

(* GET /user names whoever authorized; the token is encrypted. *)
FetchUser(c) ==
    /\ calls[c].pc = "user"
    /\ \/ \E u \in Login :
             calls' = [calls EXCEPT ![c].pc = "upsert", ![c].login = u]
       \/ Answer(c)
    /\ UNCHANGED <<accounts, states, limits, starts, now, seeds, admits, spent, overlap>>

(* The row is active whatever it was. *)
UpsertRow(u) == accounts' = [accounts EXCEPT ![u] = "active"]

(* The statement is applied, with or without the handler learning it, or    *)
(* fails; either way the handler answers and ends.                          *)
UpsertAccountToken(c) ==
    /\ calls[c].pc = "upsert"
    /\ UpsertRow(calls[c].login) \/ UNCHANGED accounts
    /\ Answer(c)
    /\ UNCHANGED <<states, limits, starts, now, seeds, admits, spent, overlap>>
-----------------------------------------------------------------------------
(* No row matches an unknown login, which is an error. *)
SetAccountStatus(u, status) ==
    /\ accounts[u] # "absent"
    /\ accounts' = [accounts EXCEPT ![u] = status]

(* adminAccountsActionHandler. *)
DisableAccount(u) ==
    /\ SetAccountStatus(u, "disabled")
    /\ UNCHANGED <<server, now, seeds, admits, spent, overlap>>

(* seed-account: no limit applies. *)
SeedAccount(u) ==
    /\ seeds < MaxSeeds
    /\ seeds' = seeds + 1
    /\ UpsertRow(u)
    /\ UNCHANGED <<server, now, admits, spent, overlap>>

(* The server process is replaced: the maps are empty, open requests die,   *)
(* and the limiter's history starts anew.                                   *)
Restart ==
    /\ states' = NoStates /\ limits' = NoRequests /\ calls' = NoCalls
    /\ starts' = [f \in Flow |-> IF starts[f] \in {"count", "store"} THEN "new" ELSE starts[f]]
    /\ admits' = NoRequests
    /\ UNCHANGED <<accounts, now, seeds, spent, overlap>>

Tick ==
    /\ now < MaxTime
    /\ now' = now + 1
    /\ UNCHANGED <<accounts, server, seeds, admits, spent, overlap>>

Next ==
    \/ \E f \in Flow : CheckLimit(f) \/ IssueState(f) \/ \E ip \in IP : OAuthStart(f, ip)
    \/ \E c \in Callback : \/ \E f \in Flow : TakeState(c, f)
                           \/ ExchangeCode(c) \/ FetchUser(c) \/ UpsertAccountToken(c)
    \/ \E u \in Login : DisableAccount(u) \/ SeedAccount(u)
    \/ Restart
    \/ Tick

Spec == Init /\ [][Next]_vars
-----------------------------------------------------------------------------
(* Every variable has its type, and a callback request knows its flow, and  *)
(* later its login, exactly while it needs them (oauth.go:126-268).         *)
TypeOK ==
    /\ accounts \in [Login -> {"absent", "active", "disabled"}]
    /\ states \in [Flow -> Nat \cup {NULL}]
    /\ limits \in [IP -> SUBSET Request] /\ admits \in [IP -> SUBSET Request]
    /\ starts \in [Flow -> {"new", "count", "store", "issued"}]
    /\ calls \in [Callback -> CallState]
    /\ \A c \in Callback : /\ calls[c].pc = "idle" <=> calls[c].flow = NULL
                           /\ calls[c].pc = "upsert" <=> calls[c].login # NULL
    /\ now \in 0 .. MaxTime /\ seeds \in 0 .. MaxSeeds
    /\ spent \in [Flow -> Nat] /\ overlap \in BOOLEAN

(* A state lets one callback through in its whole life, however often and   *)
(* however concurrently it is presented, before and after its deadline and  *)
(* a restart (the comment "one-time use" at oauth.go:142).                  *)
StateSpentOnce == \A f \in Flow : spent[f] <= 1

(* The requests of the minute that begins after `from`. *)
InWindow(requests, from) == {r \in requests : r.at > from /\ r.at <= from + Minute}

(* In no minute of a server process's life, wherever it begins, does the    *)
(* limiter let more than ADMIN_OAUTH_RPM requests of one address through    *)
(* (oauth.go:34-57, README.md:199); a restart forgets them all.             *)
RateLimitHolds ==
    \A ip \in IP, from \in -Minute .. now :
        Cardinality(InWindow(admits[ip], from)) <=
            IF AdminOAuthRPM > 0 THEN AdminOAuthRPM ELSE 0

(* The limiter forgets nothing that counts and counts nothing else: what    *)
(* it would count now are the requests it let through in the last minute,   *)
(* so refused requests do not delay the next admission (oauth.go:42-56).    *)
LimiterIsExact ==
    \A ip \in IP : Active(ip) = InWindow(admits[ip], now - Minute)

(* Without seed-account, and as long as no flow passes the count while      *)
(* another that passed it is still to store its state or may still end in   *)
(* an upsert, the count keeps the number of active accounts within          *)
(* MAX_REVIEWER_ACCOUNTS, although it is taken two steps before the state   *)
(* is stored and minutes before the account: a state that outlived its ten  *)
(* minutes or was used cannot add an account later (oauth.go:93-154).       *)
LimitHoldsWithoutOverlap ==
    (~overlap /\ seeds = 0) =>
        CountAccounts <= IF MaxReviewerAccounts > 0 THEN MaxReviewerAccounts ELSE 0

(* README.md:198 "Maximum number of active reviewer accounts allowed".      *)
(* Checked without seed-account: concurrent flows exceed it.                *)
ActiveWithinLimit == CountAccounts <= MaxReviewerAccounts
=============================================================================
