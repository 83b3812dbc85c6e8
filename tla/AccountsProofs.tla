--------------------------- MODULE AccountsProofs ---------------------------
(***************************************************************************)
(* Proofs about Accounts, for any number of logins, flows, callback        *)
(* requests and client addresses, any limits and any clock.                *)
(***************************************************************************)
EXTENDS Accounts, FiniteSetTheorems, TLAPS

-----------------------------------------------------------------------------
(* TypeOK.                                                                  *)

(* A server that has just started is well typed. *)
LEMMA FreshServer ==
    /\ Idle \in CallState /\ Idle.pc = "idle" /\ Idle.flow = NULL /\ Idle.login = NULL
    /\ NoStates \in [Flow -> Nat \cup {NULL}]
    /\ NoRequests \in [IP -> SUBSET Request]
    /\ NoCalls \in [Callback -> CallState] /\ \A c \in Callback : NoCalls[c] = Idle
  BY DEF Idle, CallState, NoStates, NoRequests, NoCalls

CallsOK == /\ calls \in [Callback -> CallState]
           /\ \A c \in Callback : /\ calls[c].pc = "idle" <=> calls[c].flow = NULL
                                  /\ calls[c].pc = "upsert" <=> calls[c].login # NULL

(* A callback request that moves on keeps its flow until it answers, and    *)
(* learns its login when it reaches the upsert.                             *)
LEMMA CallTypes ==
    ASSUME TypeOK, NEW c \in Callback
    PROVE  /\ Answer(c) => CallsOK'
           /\ \A f \in Flow :
                 calls' = [calls EXCEPT ![c] = [Idle EXCEPT !.pc = "exchange", !.flow = f]]
                 => CallsOK'
           /\ calls[c].pc = "exchange" /\ calls' = [calls EXCEPT ![c].pc = "user"] => CallsOK'
           /\ \A u \in Login :
                 /\ calls[c].pc = "user"
                 /\ calls' = [calls EXCEPT ![c].pc = "upsert", ![c].login = u]
                 => CallsOK'
  <1> USE AccountsNullAssumption
  <1>1. ASSUME Answer(c) PROVE CallsOK'
    BY <1>1, FreshServer DEF Answer, CallsOK, TypeOK
  <1>2. ASSUME NEW f \in Flow,
               calls' = [calls EXCEPT ![c] = [Idle EXCEPT !.pc = "exchange", !.flow = f]]
        PROVE  CallsOK'
    <2> DEFINE call == [Idle EXCEPT !.pc = "exchange", !.flow = f]
    <2>1. /\ call \in CallState /\ call.pc = "exchange" /\ call.flow = f /\ call.login = NULL
      BY DEF Idle, CallState
    <2> HIDE DEF call
    <2> QED
      BY <1>2, <2>1 DEF CallsOK, TypeOK, call
  <1>3. ASSUME calls[c].pc = "exchange", calls' = [calls EXCEPT ![c].pc = "user"]
        PROVE  CallsOK'
    BY <1>3 DEF CallsOK, TypeOK, CallState
  <1>4. ASSUME NEW u \in Login, calls[c].pc = "user",
               calls' = [calls EXCEPT ![c].pc = "upsert", ![c].login = u]
        PROVE  CallsOK'
    BY <1>4 DEF CallsOK, TypeOK, CallState
  <1> QED
    BY <1>1, <1>2, <1>3, <1>4

(* The limiter lets finitely many requests through, so that it can number   *)
(* the next one.                                                            *)
AdmitsFinite == \A ip \in IP : IsFiniteSet(admits[ip])

(* A new request has a number, and the limiter keeps only requests. *)
LEMMA RequestTypes ==
    ASSUME TypeOK, AdmitsFinite, NEW ip \in IP
    PROVE  /\ NewRequest(ip) \in Request
           /\ Active(ip) \subseteq Request /\ Remembered(ip) \subseteq Request
  <1>1. now \in Nat /\ Cardinality(admits[ip]) \in Nat
    BY TimeAssumption, FS_CardinalityType DEF TypeOK, AdmitsFinite
  <1>2. NewRequest(ip) \in Request
    BY <1>1 DEF NewRequest, Request
  <1> QED
    BY <1>2 DEF Active, Remembered, TypeOK

(* Initially the table and the maps are empty. *)
LEMMA TypeOK_Init == Init => TypeOK /\ AdmitsFinite
  <1> SUFFICES ASSUME Init PROVE TypeOK /\ AdmitsFinite
    OBVIOUS
  <1>1. CallsOK
    <2>1. \A c \in Callback : calls[c] = Idle
      BY FreshServer DEF Init
    <2>2. Idle.pc = "idle" /\ Idle.flow = NULL /\ Idle.login = NULL
      BY FreshServer
    <2> QED
      BY <2>1, <2>2, FreshServer DEF Init, CallsOK
  <1>2. AdmitsFinite
    BY FS_EmptySet DEF Init, AdmitsFinite, NoRequests
  <1>3. 0 \in 0 .. MaxTime /\ 0 \in 0 .. MaxSeeds
    BY TimeAssumption
  <1> QED
    BY <1>1, <1>2, <1>3, FreshServer DEF Init, TypeOK, CallsOK

(* Every request, statement, remote call, restart and tick preserves the    *)
(* types, one step per action.                                              *)
LEMMA TypeOK_Next == TypeOK /\ AdmitsFinite /\ [Next]_vars => TypeOK' /\ AdmitsFinite'
  <1> SUFFICES ASSUME TypeOK, AdmitsFinite, [Next]_vars PROVE TypeOK' /\ AdmitsFinite'
    OBVIOUS
  <1>1. ASSUME NEW f \in Flow, NEW ip \in IP, OAuthStart(f, ip)
        PROVE  TypeOK' /\ AdmitsFinite'
    <2>1. limits' \in [IP -> SUBSET Request]
      BY <1>1, RequestTypes DEF OAuthStart, TypeOK
    <2>2. CASE UNCHANGED <<starts, admits>>
      BY <1>1, <2>1, <2>2 DEF OAuthStart, TypeOK, AdmitsFinite
    <2>3. CASE /\ starts' = [starts EXCEPT ![f] = "count"]
               /\ admits' = [admits EXCEPT ![ip] = admits[ip] \cup {NewRequest(ip)}]
      <3>1. admits' \in [IP -> SUBSET Request]
        BY <2>3, RequestTypes DEF TypeOK
      <3>2. starts' \in [Flow -> {"new", "count", "store", "issued"}]
        BY <2>3 DEF TypeOK
      <3>3. AdmitsFinite'
        <4>1. IsFiniteSet(admits[ip] \cup {NewRequest(ip)})
          BY FS_AddElement DEF AdmitsFinite
        <4> QED
          BY <2>3, <4>1 DEF AdmitsFinite, TypeOK
      <3> QED
        BY <1>1, <2>1, <3>1, <3>2, <3>3 DEF OAuthStart, TypeOK
    <2> QED
      BY <1>1, <2>2, <2>3 DEF OAuthStart
  <1>2. ASSUME NEW f \in Flow, CheckLimit(f) \/ IssueState(f)
        PROVE  TypeOK' /\ AdmitsFinite'
    <2>1. states' \in [Flow -> Nat \cup {NULL}]
      BY <1>2, TimeAssumption DEF CheckLimit, IssueState, TypeOK
    <2>2. starts' \in [Flow -> {"new", "count", "store", "issued"}]
      BY <1>2 DEF CheckLimit, IssueState, TypeOK
    <2>3. overlap' \in BOOLEAN
      BY <1>2 DEF CheckLimit, IssueState, TypeOK
    <2> QED
      BY <1>2, <2>1, <2>2, <2>3 DEF CheckLimit, IssueState, TypeOK, AdmitsFinite
  <1>3. ASSUME NEW c \in Callback, NEW f \in Flow, TakeState(c, f)
        PROVE  TypeOK' /\ AdmitsFinite'
    <2>1. CallsOK'
      BY <1>3, CallTypes DEF TakeState, TypeOK, CallsOK
    <2>2. states' \in [Flow -> Nat \cup {NULL}] /\ spent' \in [Flow -> Nat]
      BY <1>3 DEF TakeState, DeleteState, TypeOK
    <2> QED
      BY <1>3, <2>1, <2>2 DEF TakeState, TypeOK, CallsOK, AdmitsFinite
  <1>4. ASSUME NEW c \in Callback, ExchangeCode(c) \/ FetchUser(c)
        PROVE  TypeOK' /\ AdmitsFinite'
    <2>1. CallsOK'
      BY <1>4, CallTypes DEF ExchangeCode, FetchUser
    <2> QED
      BY <1>4, <2>1 DEF ExchangeCode, FetchUser, TypeOK, CallsOK, AdmitsFinite
  <1>5. ASSUME NEW c \in Callback, UpsertAccountToken(c) PROVE TypeOK' /\ AdmitsFinite'
    <2>1. CallsOK'
      BY <1>5, CallTypes DEF UpsertAccountToken
    <2>2. accounts' \in [Login -> {"absent", "active", "disabled"}]
      BY <1>5 DEF UpsertAccountToken, UpsertRow, TypeOK
    <2> QED
      BY <1>5, <2>1, <2>2 DEF UpsertAccountToken, TypeOK, CallsOK, AdmitsFinite
  <1>6. ASSUME NEW u \in Login, DisableAccount(u) \/ SeedAccount(u)
        PROVE  TypeOK' /\ AdmitsFinite'
    <2>1. accounts' \in [Login -> {"absent", "active", "disabled"}]
      BY <1>6 DEF DisableAccount, SetAccountStatus, SeedAccount, UpsertRow, TypeOK
    <2>2. seeds' \in 0 .. MaxSeeds
      BY <1>6, TimeAssumption DEF DisableAccount, SeedAccount, TypeOK
    <2> QED
      BY <1>6, <2>1, <2>2 DEF DisableAccount, SeedAccount, server, TypeOK, AdmitsFinite
  <1>7. ASSUME Restart PROVE TypeOK' /\ AdmitsFinite'
    <2>1. starts' \in [Flow -> {"new", "count", "store", "issued"}]
      BY <1>7 DEF Restart, TypeOK
    <2>2. AdmitsFinite'
      BY <1>7, FS_EmptySet DEF Restart, AdmitsFinite, NoRequests
    <2>3. CallsOK' /\ states' \in [Flow -> Nat \cup {NULL}]
          /\ limits' \in [IP -> SUBSET Request] /\ admits' \in [IP -> SUBSET Request]
      BY <1>7, FreshServer DEF Restart, CallsOK
    <2> QED
      BY <1>7, <2>1, <2>2, <2>3 DEF Restart, TypeOK, CallsOK
  <1>8. ASSUME Tick PROVE TypeOK' /\ AdmitsFinite'
    BY <1>8, TimeAssumption DEF Tick, server, TypeOK, AdmitsFinite
  <1>9. CASE UNCHANGED vars
    BY <1>9 DEF vars, server, TypeOK, AdmitsFinite
  <1> QED
    BY <1>1, <1>2, <1>3, <1>4, <1>5, <1>6, <1>7, <1>8, <1>9 DEF Next

(* Every reachable state of the accounts and the server is well typed. *)
THEOREM AccountsTyping == Spec => []TypeOK
  BY TypeOK_Init, TypeOK_Next, PTL DEF Spec

-----------------------------------------------------------------------------
(* One-time states.  A state is in the map only between its start request   *)
(* and its first callback, and no callback has passed before it is issued.  *)

StateInv ==
    \A f \in Flow :
        /\ spent[f] <= 1
        /\ states[f] # NULL => starts[f] = "issued" /\ spent[f] = 0
        /\ starts[f] # "issued" => states[f] = NULL /\ spent[f] = 0

(* Initially no state is issued. *)
LEMMA State_Init == Init => StateInv
  BY DEF Init, StateInv, NoStates

(* Issuing finds the flow unspent; a callback that passes takes the state   *)
(* out of the map.                                                          *)
LEMMA State_Next == TypeOK /\ StateInv /\ [Next]_vars => StateInv'
  <1> SUFFICES ASSUME TypeOK, StateInv, [Next]_vars, NEW g \in Flow
               PROVE  /\ spent'[g] <= 1
                      /\ states'[g] # NULL => starts'[g] = "issued" /\ spent'[g] = 0
                      /\ starts'[g] # "issued" => states'[g] = NULL /\ spent'[g] = 0
    BY DEF StateInv
  <1> USE DEF StateInv, TypeOK
  <1>1. ASSUME NEW f \in Flow, NEW ip \in IP, OAuthStart(f, ip)
        PROVE  UNCHANGED <<states, spent>> /\ (starts'[g] = "issued" <=> starts[g] = "issued")
    BY <1>1 DEF OAuthStart
  <1>2. CASE \E f \in Flow : CheckLimit(f) \/ IssueState(f)
    BY <1>2, AccountsNullAssumption, TimeAssumption DEF CheckLimit, IssueState
  <1>3. CASE \E c \in Callback, f \in Flow : TakeState(c, f)
    BY <1>3 DEF TakeState, StateValid, Unexpired, DeleteState
  <1>4. CASE Restart
    BY <1>4 DEF Restart, NoStates
  <1>5. CASE UNCHANGED <<states, starts, spent>>
    BY <1>5
  <1> QED
    BY <1>1, <1>2, <1>3, <1>4, <1>5
       DEF Next, vars, server, ExchangeCode, FetchUser, UpsertAccountToken, DisableAccount,
           SeedAccount, Tick

(* No state ever lets two callbacks through.                                *)
THEOREM StatesAreOneTime == Spec => []StateSpentOnce
  <1>1. StateInv => StateSpentOnce
    BY DEF StateInv, StateSpentOnce
  <1> QED
    BY <1>1, TypeOK_Init, TypeOK_Next, State_Init, State_Next, PTL DEF Spec

-----------------------------------------------------------------------------
(* The rate limiter.  It remembers every request it let through in the last *)
(* minute and no other, so the count it compares with the limit is that of  *)
(* the window that ends now.  Requests of one address differ in number.     *)

LimiterInv ==
    \A ip \in IP :
        /\ limits[ip] \subseteq admits[ip]
        /\ \A r \in admits[ip] :
              /\ r.at <= now
              /\ r.number < Cardinality(admits[ip])
              /\ r.at > now - Minute => r \in limits[ip]
        /\ \A from \in Int :
              Cardinality(InWindow(admits[ip], from)) <=
                  IF AdminOAuthRPM > 0 THEN AdminOAuthRPM ELSE 0

(* Initially nothing was let through. *)
LEMMA Limiter_Init == Init => LimiterInv
  <1> SUFFICES ASSUME Init, NEW ip \in IP
               PROVE  /\ limits[ip] = {} /\ admits[ip] = {}
                      /\ \A from : InWindow(admits[ip], from) = {}
                      /\ 0 <= IF AdminOAuthRPM > 0 THEN AdminOAuthRPM ELSE 0
    BY FS_EmptySet DEF LimiterInv
  <1> QED
    BY LimitsAssumption DEF Init, NoRequests, InWindow

(* A window that contains the request admitted now holds, before it, only   *)
(* requests the limiter has just counted.                                   *)
LEMMA Limiter_Window ==
    ASSUME TypeOK, AdmitsFinite, LimiterInv, NEW ip \in IP, Admitted(ip), NEW from \in Int
    PROVE  LET new == admits[ip] \cup {NewRequest(ip)}
               max == IF AdminOAuthRPM > 0 THEN AdminOAuthRPM ELSE 0
           IN  Cardinality(InWindow(new, from)) <= max
  <1> DEFINE r == NewRequest(ip)
             old == InWindow(admits[ip], from)
             new == InWindow(admits[ip] \cup {r}, from)
             max == IF AdminOAuthRPM > 0 THEN AdminOAuthRPM ELSE 0
  <1>1. now \in Nat /\ Minute \in Nat /\ AdminOAuthRPM \in Int /\ r.at = now
    BY TimeAssumption, LimitsAssumption DEF TypeOK, NewRequest
  <1>2. \A q \in admits[ip] : q.at \in Nat
    BY DEF TypeOK, Request
  <1>3. IsFiniteSet(old) /\ IsFiniteSet(Active(ip))
    <2>1. old \subseteq admits[ip] /\ Active(ip) \subseteq admits[ip]
      BY DEF InWindow, Active, LimiterInv
    <2> QED
      BY <2>1, FS_Subset DEF AdmitsFinite
  <1>4. Cardinality(old) \in Nat /\ Cardinality(Active(ip)) \in Nat
    BY <1>3, FS_CardinalityType
  <1>5. CASE ~(from < now /\ now <= from + Minute)
    <2>1. new = old
      BY <1>1, <1>5 DEF InWindow
    <2> QED
      BY <2>1 DEF LimiterInv
  <1>6. CASE from < now /\ now <= from + Minute
    <2>1. new = old \cup {r}
      BY <1>1, <1>6 DEF InWindow
    <2>2. old \subseteq Active(ip)
      <3> SUFFICES ASSUME NEW q \in old PROVE q \in Active(ip)
        OBVIOUS
      <3>1. q \in admits[ip] /\ q.at > from
        BY DEF InWindow
      <3>2. q.at > now - Minute
        BY <1>1, <1>2, <1>6, <3>1
      <3> QED
        BY <3>1, <3>2 DEF Active, LimiterInv
    <2>3. Cardinality(old) <= Cardinality(Active(ip))
      BY <1>3, <2>2, FS_Subset
    <2>4. Cardinality(new) <= Cardinality(old) + 1
      <3> HIDE DEF old, new, r
      <3>1. Cardinality(old \cup {r}) = IF r \in old THEN Cardinality(old) ELSE Cardinality(old) + 1
        BY <1>3, FS_AddElement
      <3> QED
        BY <1>4, <2>1, <3>1
    <2>5. Cardinality(new) \in Nat
      BY <1>3, <2>1, FS_AddElement, FS_CardinalityType
    <2> QED
      BY <1>1, <1>4, <2>3, <2>4, <2>5 DEF Admitted
  <1> QED
    BY <1>5, <1>6

(* A start request is remembered exactly when it is let through. *)
LEMMA Limiter_Start ==
    ASSUME TypeOK, AdmitsFinite, LimiterInv, NEW f \in Flow, NEW ip \in IP, OAuthStart(f, ip)
    PROVE  LimiterInv'
  <1>1. now' = now /\ now \in Nat /\ Minute \in Nat
    BY TimeAssumption DEF OAuthStart, TypeOK
  <1>2. ASSUME NEW k \in IP, k # ip
        PROVE  limits'[k] = limits[k] /\ admits'[k] = admits[k]
    BY <1>2 DEF OAuthStart, TypeOK
  <1>3. limits'[ip] = Remembered(ip)
    BY DEF OAuthStart, TypeOK
  <1>4. CASE ~Admitted(ip)
    <2>1. admits' = admits /\ limits'[ip] = Active(ip)
      BY <1>3, <1>4 DEF OAuthStart, Remembered
    <2> QED
      BY <1>1, <1>2, <2>1 DEF LimiterInv, Active
  <1>5. CASE Admitted(ip)
    <2> DEFINE r == NewRequest(ip)
    <2>1. admits'[ip] = admits[ip] \cup {r} /\ limits'[ip] = Active(ip) \cup {r}
      BY <1>3, <1>5 DEF OAuthStart, Remembered, TypeOK
    <2>2. r.at = now /\ r.number = Cardinality(admits[ip])
      BY DEF NewRequest
    <2>3. r \notin admits[ip] /\ Cardinality(admits[ip]) \in Nat
      BY <2>2, FS_CardinalityType DEF LimiterInv, AdmitsFinite
    <2>4. Cardinality(admits'[ip]) = Cardinality(admits[ip]) + 1
      BY <2>1, <2>3, FS_AddElement DEF AdmitsFinite
    <2>5. limits'[ip] \subseteq admits'[ip]
      BY <2>1 DEF LimiterInv, Active
    <2>6. ASSUME NEW q \in admits'[ip]
          PROVE  /\ q.at <= now /\ q.number < Cardinality(admits'[ip])
                 /\ q.at > now - Minute => q \in limits'[ip]
      <3>1. CASE q \in admits[ip]
        <4>1. q.number \in Nat /\ q.number < Cardinality(admits[ip]) /\ q.at <= now
          BY <3>1 DEF LimiterInv, TypeOK, Request
        <4>2. q.at > now - Minute => q \in Active(ip)
          BY <3>1 DEF LimiterInv, Active
        <4> QED
          BY <2>1, <2>3, <2>4, <4>1, <4>2
      <3>2. CASE q = r
        BY <1>1, <2>1, <2>2, <2>3, <2>4, <3>2
      <3> QED
        BY <2>1, <3>1, <3>2
    <2>7. ASSUME NEW from \in Int
          PROVE  Cardinality(InWindow(admits'[ip], from)) <=
                     IF AdminOAuthRPM > 0 THEN AdminOAuthRPM ELSE 0
      BY <1>5, <2>1, Limiter_Window
    <2> QED
      BY <1>1, <1>2, <2>5, <2>6, <2>7 DEF LimiterInv
  <1> QED
    BY <1>4, <1>5

(* Every step keeps the limiter exact: time passing only shortens what it   *)
(* has to remember, and a new server starts with nothing.                   *)
LEMMA Limiter_Next == TypeOK /\ AdmitsFinite /\ LimiterInv /\ [Next]_vars => LimiterInv'
  <1> SUFFICES ASSUME TypeOK, AdmitsFinite, LimiterInv, [Next]_vars PROVE LimiterInv'
    OBVIOUS
  <1>1. CASE \E f \in Flow, ip \in IP : OAuthStart(f, ip)
    BY <1>1, Limiter_Start
  <1>2. CASE Restart
    <2>1. \A ip \in IP : limits'[ip] = {} /\ admits'[ip] = {}
      BY <1>2 DEF Restart, NoRequests
    <2>2. \A from : InWindow({}, from) = {}
      BY DEF InWindow
    <2>3. 0 <= IF AdminOAuthRPM > 0 THEN AdminOAuthRPM ELSE 0
      BY LimitsAssumption
    <2> QED
      BY <2>1, <2>2, <2>3, FS_EmptySet DEF LimiterInv
  <1>3. CASE Tick
    <2>1. now \in Nat /\ now' = now + 1 /\ Minute \in Nat
          /\ \A ip \in IP : \A r \in admits[ip] : r.at \in Nat
      BY <1>3, TimeAssumption DEF Tick, TypeOK, Request
    <2>2. \A ip \in IP : \A r \in admits[ip] :
             r.at <= now' /\ (r.at > now' - Minute => r.at > now - Minute)
      BY <2>1 DEF LimiterInv
    <2> QED
      BY <1>3, <2>2 DEF LimiterInv, Tick, server
  <1>4. CASE UNCHANGED <<limits, admits, now>>
    BY <1>4 DEF LimiterInv
  <1> QED
    BY <1>1, <1>2, <1>3, <1>4
       DEF Next, vars, server, CheckLimit, IssueState, TakeState, ExchangeCode, FetchUser,
           UpsertAccountToken, DisableAccount, SeedAccount

(* In no minute, wherever it begins, more than ADMIN_OAUTH_RPM requests of  *)
(* one address are let through.                                             *)
THEOREM RateIsLimited == Spec => []RateLimitHolds
  <1>1. TypeOK /\ LimiterInv => RateLimitHolds
    <2>1. now \in Nat /\ Minute \in Nat => -Minute .. now \subseteq Int
      OBVIOUS
    <2> QED
      BY <2>1, TimeAssumption DEF LimiterInv, RateLimitHolds, TypeOK
  <1> QED
    BY <1>1, TypeOK_Init, TypeOK_Next, Limiter_Init, Limiter_Next, PTL DEF Spec

(* What the limiter counts are exactly the requests of the last minute that *)
(* it let through.                                                          *)
THEOREM LimiterCountsRight == Spec => []LimiterIsExact
  <1>1. ASSUME TypeOK, LimiterInv, NEW ip \in IP
        PROVE  Active(ip) = InWindow(admits[ip], now - Minute)
    <2>1. now \in Nat /\ Minute \in Nat
      BY TimeAssumption, <1>1 DEF TypeOK
    <2>2. \A r \in admits[ip] : r.at \in Nat /\ r.at <= (now - Minute) + Minute
      BY <1>1, <2>1 DEF LimiterInv, TypeOK, Request
    <2> QED
      BY <1>1, <2>2 DEF LimiterInv, Active, InWindow
  <1>2. TypeOK /\ LimiterInv => LimiterIsExact
    BY <1>1 DEF LimiterIsExact
  <1> QED
    BY <1>2, TypeOK_Init, TypeOK_Next, Limiter_Init, Limiter_Next, PTL DEF Spec

-----------------------------------------------------------------------------
(* The account limit.  While no flow is counted next to another, at most    *)
(* one flow can still end in an upsert, and as long as one can there is     *)
(* room for it.  A flow is outstanding before its state is stored, in the   *)
(* map or in one callback, never in two of them.                            *)

Handled(c) == calls[c].flow # NULL

Limit == IF MaxReviewerAccounts > 0 THEN MaxReviewerAccounts ELSE 0

RoomIsKept ==
    /\ \A f, g \in Flow : Outstanding(f) /\ Outstanding(g) => f = g
    /\ (\E f \in Flow : Outstanding(f)) => CountAccounts < MaxReviewerAccounts
    /\ CountAccounts <= Limit

LimitInv ==
    /\ IsFiniteSet(ActiveAccounts)
    /\ \A c \in Callback : Handled(c) => states[calls[c].flow] = NULL
    /\ \A c \in Callback : Handled(c) => spent[calls[c].flow] # 0
    /\ \A c, d \in Callback : Handled(c) /\ calls[c].flow = calls[d].flow => c = d
    /\ ~overlap /\ seeds = 0 => RoomIsKept

(* Initially no account is active and no flow outstanding. *)
LEMMA Limit_Init == Init => LimitInv
  <1> SUFFICES ASSUME Init PROVE LimitInv
    OBVIOUS
  <1>1. ActiveAccounts = {}
    BY DEF Init, ActiveAccounts
  <1>2. \A c \in Callback : calls[c].flow = NULL
    BY FreshServer DEF Init
  <1>3. \A f \in Flow : states[f] = NULL /\ f # NULL
    BY AccountsNullAssumption DEF Init, NoStates
  <1>4. \A f \in Flow : ~Outstanding(f)
    BY <1>2, <1>3 DEF Init, Outstanding, Unexpired
  <1>5. CountAccounts = 0 /\ 0 <= Limit
    BY <1>1, FS_EmptySet, LimitsAssumption DEF CountAccounts, Limit
  <1> QED
    BY <1>1, <1>2, <1>4, <1>5, FS_EmptySet DEF LimitInv, RoomIsKept, Handled

(* An upsert adds at most one account, and disabling one adds none. *)
LEMMA CountStep ==
    ASSUME TypeOK, IsFiniteSet(ActiveAccounts), NEW u \in Login
    PROVE  /\ CountAccounts \in Nat
           /\ accounts' = accounts => ActiveAccounts' = ActiveAccounts
           /\ UpsertRow(u) => /\ IsFiniteSet(ActiveAccounts')
                              /\ CountAccounts' \in Nat /\ CountAccounts' <= CountAccounts + 1
           /\ SetAccountStatus(u, "disabled") =>
                 /\ IsFiniteSet(ActiveAccounts')
                 /\ CountAccounts' \in Nat /\ CountAccounts' <= CountAccounts
  <1>1. CountAccounts \in Nat
    BY FS_CardinalityType DEF CountAccounts
  <1>2. accounts' = accounts => ActiveAccounts' = ActiveAccounts
    BY DEF ActiveAccounts
  <1>3. ASSUME UpsertRow(u)
        PROVE  /\ IsFiniteSet(ActiveAccounts')
               /\ CountAccounts' \in Nat /\ CountAccounts' <= CountAccounts + 1
    <2>1. ActiveAccounts' = ActiveAccounts \cup {u}
      BY <1>3 DEF UpsertRow, ActiveAccounts, TypeOK
    <2>2. /\ IsFiniteSet(ActiveAccounts \cup {u})
          /\ Cardinality(ActiveAccounts \cup {u}) =
                IF u \in ActiveAccounts THEN CountAccounts ELSE CountAccounts + 1
      BY FS_AddElement DEF CountAccounts
    <2>3. CountAccounts' = Cardinality(ActiveAccounts \cup {u})
      BY <2>1 DEF CountAccounts
    <2> QED
      BY <1>1, <2>1, <2>2, <2>3
  <1>4. ASSUME SetAccountStatus(u, "disabled")
        PROVE  /\ IsFiniteSet(ActiveAccounts')
               /\ CountAccounts' \in Nat /\ CountAccounts' <= CountAccounts
    <2>1. ActiveAccounts' \subseteq ActiveAccounts
      BY <1>4 DEF SetAccountStatus, ActiveAccounts, TypeOK
    <2>2. IsFiniteSet(ActiveAccounts') /\ Cardinality(ActiveAccounts') <= CountAccounts
      BY <2>1, FS_Subset DEF CountAccounts
    <2>3. CountAccounts' = Cardinality(ActiveAccounts')
      BY DEF CountAccounts
    <2> QED
      BY <2>2, <2>3, FS_CardinalityType
  <1> QED
    BY <1>1, <1>2, <1>3, <1>4

(* No step but passing the count makes a flow outstanding. *)
LEMMA OutstandingStep ==
    ASSUME TypeOK, [Next]_vars, NEW g \in Flow, ~CheckLimit(g), Outstanding(g)'
    PROVE  Outstanding(g)
  <1>0. g # NULL
    BY AccountsNullAssumption
  <1>1. ASSUME NEW c \in Callback, NEW f \in Flow, TakeState(c, f) PROVE Outstanding(g)
    <2>1. CASE Unexpired(g)'
      BY <1>1, <2>1 DEF TakeState, DeleteState, Unexpired, Outstanding, TypeOK
    <2>2. ASSUME NEW d \in Callback, calls'[d].flow = g PROVE Outstanding(g)
      <3>1. CASE calls'[d] = calls[d]
        BY <2>2, <3>1 DEF Outstanding
      <3>2. CASE calls'[d] # calls[d]
        <4>1. StateValid(f) /\ calls'[d] = [Idle EXCEPT !.pc = "exchange", !.flow = f]
          BY <1>1, <3>2 DEF TakeState, TypeOK
        <4>2. f = g
          BY <2>2, <4>1 DEF Idle
        <4> QED
          BY <4>1, <4>2 DEF StateValid, Outstanding
      <3> QED
        BY <3>1, <3>2
    <2>3. starts' = starts
      BY <1>1 DEF TakeState
    <2> QED
      BY <2>1, <2>2, <2>3 DEF Outstanding
  <1>2. ASSUME NEW c \in Callback, ExchangeCode(c) \/ FetchUser(c) \/ UpsertAccountToken(c)
        PROVE  Outstanding(g)
    <2>1. /\ UNCHANGED <<states, starts, now>>
          /\ \A d \in Callback : calls'[d].flow \in {calls[d].flow, NULL}
      BY <1>2 DEF ExchangeCode, FetchUser, UpsertAccountToken, Answer, Idle, TypeOK, CallState
    <2> QED
      BY <1>0, <2>1 DEF Outstanding, Unexpired
  <1>3. CASE Tick
    <2>1. /\ now \in Nat /\ now' = now + 1 /\ states[g] \in Nat \cup {NULL}
          /\ UNCHANGED <<states, starts, calls>>
      BY <1>3, TimeAssumption DEF Tick, server, TypeOK
    <2>2. Unexpired(g)' => Unexpired(g)
      BY <2>1, TimeAssumption DEF Unexpired
    <2> QED
      BY <2>1, <2>2 DEF Outstanding
  <1>4. CASE Restart
    BY <1>0, <1>4, FreshServer DEF Restart, Outstanding, Unexpired, NoStates
  <1>5. ASSUME NEW f \in Flow, CheckLimit(f) \/ IssueState(f) PROVE Outstanding(g)
    <2>1. CASE f = g
      BY <1>5, <2>1 DEF IssueState, Outstanding
    <2>2. CASE f # g
      BY <1>5, <2>2 DEF CheckLimit, IssueState, Outstanding, Unexpired, TypeOK
    <2> QED
      BY <2>1, <2>2
  <1>6. ASSUME NEW f \in Flow, NEW ip \in IP, OAuthStart(f, ip) PROVE Outstanding(g)
    BY <1>6 DEF OAuthStart, Outstanding, Unexpired, TypeOK
  <1>7. CASE UNCHANGED <<states, starts, calls, now>>
    BY <1>7 DEF Outstanding, Unexpired
  <1> QED
    BY <1>1, <1>2, <1>3, <1>4, <1>5, <1>6, <1>7
       DEF Next, vars, server, DisableAccount, SeedAccount

(* A flow is in the map or in one callback. *)
LEMMA Limit_Calls ==
    ASSUME TypeOK, StateInv, LimitInv, [Next]_vars, NEW c \in Callback, Handled(c)'
    PROVE  /\ states'[calls'[c].flow] = NULL /\ spent'[calls'[c].flow] # 0
           /\ \A d \in Callback : calls'[c].flow = calls'[d].flow => c = d
  <1> DEFINE Single == /\ states'[calls'[c].flow] = NULL /\ spent'[calls'[c].flow] # 0
                       /\ \A d \in Callback : calls'[c].flow = calls'[d].flow => c = d
  <1>0. \A d \in Callback : calls[d].flow \in Flow \cup {NULL}
    BY DEF TypeOK, CallState
  <1>1. ASSUME NEW b \in Callback, NEW f \in Flow, TakeState(b, f) PROVE Single
    <2>1. /\ states' = [states EXCEPT ![f] = NULL]
          /\ f # NULL
      BY <1>1, AccountsNullAssumption DEF TakeState, DeleteState
    <2>2. CASE ~StateValid(f)
      BY <1>0, <1>1, <2>1, <2>2 DEF TakeState, LimitInv, Handled, TypeOK
    <2>3. CASE StateValid(f)
      <3>1. /\ spent[f] = 0
            /\ spent' = [spent EXCEPT ![f] = 1]
            /\ calls' = [calls EXCEPT ![b] = [Idle EXCEPT !.pc = "exchange", !.flow = f]]
        BY <1>1, <2>3 DEF TakeState, StateValid, Unexpired, StateInv, TypeOK
      <3>2. /\ calls'[b].flow = f
            /\ \A d \in Callback \ {b} : calls'[d] = calls[d]
        BY <3>1 DEF Idle, TypeOK
      <3>3. \A d \in Callback : calls[d].flow # f
        BY <2>1, <3>1 DEF LimitInv, Handled
      <3> QED
        BY <1>0, <2>1, <3>1, <3>2, <3>3 DEF LimitInv, Handled, TypeOK
    <2> QED
      BY <2>2, <2>3
  <1>2. ASSUME NEW b \in Callback, ExchangeCode(b) \/ FetchUser(b) \/ UpsertAccountToken(b)
        PROVE  Single
    <2>1. /\ UNCHANGED <<states, spent>>
          /\ \A d \in Callback : calls'[d].flow \in {calls[d].flow, NULL}
      BY <1>2 DEF ExchangeCode, FetchUser, UpsertAccountToken, Answer, Idle, TypeOK, CallState
    <2> QED
      BY <2>1 DEF LimitInv, Handled
  <1>3. CASE Restart
    BY <1>3, FreshServer DEF Restart, Handled
  <1>4. ASSUME NEW f \in Flow, IssueState(f) PROVE Single
    <2>1. \A d \in Callback : calls[d].flow # f
      BY <1>4, AccountsNullAssumption DEF IssueState, StateInv, LimitInv, Handled
    <2> QED
      BY <1>0, <1>4, <2>1 DEF IssueState, LimitInv, Handled, TypeOK
  <1>5. CASE UNCHANGED <<states, calls, spent>>
    BY <1>5 DEF LimitInv, Handled
  <1> QED
    BY <1>1, <1>2, <1>3, <1>4, <1>5
       DEF Next, vars, server, OAuthStart, CheckLimit, DisableAccount, SeedAccount, Tick

(* As long as no flow has been counted next to another, the room stays      *)
(* reserved: a count is passed only when there is room and nobody else is   *)
(* outstanding, and whoever fills the room was the last outstanding.        *)
LEMMA Limit_Room ==
    ASSUME TypeOK, StateInv, LimitInv, [Next]_vars, ~overlap', seeds' = 0
    PROVE  RoomIsKept'
  <1>0. MaxReviewerAccounts \in Int /\ CountAccounts \in Nat
    BY LimitsAssumption, FS_CardinalityType DEF LimitInv, CountAccounts
  <1>1. ~overlap /\ seeds = 0
    <2>1. overlap => overlap'
      BY DEF Next, vars, server, OAuthStart, CheckLimit, IssueState, TakeState, ExchangeCode, FetchUser,
             UpsertAccountToken, DisableAccount, SeedAccount, Restart, Tick
    <2>2. seeds' = seeds \/ seeds' = seeds + 1
      BY DEF Next, vars, server, OAuthStart, CheckLimit, IssueState, TakeState, ExchangeCode, FetchUser,
             UpsertAccountToken, DisableAccount, SeedAccount, Restart, Tick
    <2> QED
      BY <2>1, <2>2, TimeAssumption DEF TypeOK
  <1>2. RoomIsKept
    BY <1>1 DEF LimitInv
  <1>3. ASSUME CountAccounts' \in Nat, CountAccounts' <= CountAccounts,
               \A f \in Flow : Outstanding(f)' => Outstanding(f)
        PROVE  RoomIsKept'
    BY <1>0, <1>2, <1>3 DEF RoomIsKept, Limit
  <1>4. ASSUME NEW f \in Flow, CheckLimit(f) PROVE RoomIsKept'
    <2>1. accounts' = accounts /\ CountAccounts' = CountAccounts
      BY <1>4 DEF CheckLimit, CountAccounts, ActiveAccounts
    <2>2. CASE starts' = [starts EXCEPT ![f] = "new"]
      <3>1. \A g \in Flow : Outstanding(g)' => Outstanding(g)
        BY <1>4, <2>2 DEF CheckLimit, Outstanding, Unexpired, TypeOK
      <3> QED
        BY <1>0, <1>3, <2>1, <3>1
    <2>3. CASE /\ CountAccounts < MaxReviewerAccounts
               /\ \A g \in Flow \ {f} : ~Outstanding(g)
      <3>1. \A g \in Flow \ {f} : ~CheckLimit(g)
        BY <1>4 DEF CheckLimit, TypeOK
      <3>2. \A g \in Flow \ {f} : ~Outstanding(g)'
        BY <2>3, <3>1, OutstandingStep
      <3> QED
        BY <1>2, <2>1, <2>3, <3>2 DEF RoomIsKept, Limit
    <2> QED
      BY <1>4, <2>2, <2>3 DEF CheckLimit
  <1>5. ASSUME NEW c \in Callback, UpsertAccountToken(c) PROVE RoomIsKept'
    <2> PICK f \in Flow : f = calls[c].flow
      BY <1>5 DEF UpsertAccountToken, TypeOK, CallState
    <2>1. Outstanding(f) /\ calls[c].login \in Login
      BY <1>5 DEF UpsertAccountToken, TypeOK, CallState, Outstanding
    <2>2. CountAccounts < MaxReviewerAccounts
      BY <1>2, <2>1 DEF RoomIsKept
    <2>3. ASSUME NEW g \in Flow PROVE ~Outstanding(g)'
      <3>1. ~Unexpired(f)' /\ starts'[f] # "store" /\ \A d \in Callback : calls'[d].flow # f
        BY <1>5, <2>1, AccountsNullAssumption
           DEF UpsertAccountToken, Answer, Unexpired, LimitInv, StateInv, Handled, TypeOK, Idle
      <3>2. ~Outstanding(f)'
        BY <3>1 DEF Outstanding
      <3>3. ~CheckLimit(g)
        BY <1>5 DEF UpsertAccountToken, CheckLimit, TypeOK
      <3> QED
        BY <1>2, <2>1, <3>2, <3>3, OutstandingStep DEF RoomIsKept
    <2>4. CountAccounts' \in Nat /\ CountAccounts' <= CountAccounts + 1
      <3>1. CASE UpsertRow(calls[c].login)
        BY <2>1, <3>1, CountStep DEF LimitInv
      <3>2. CASE accounts' = accounts
        BY <1>0, <3>2 DEF CountAccounts, ActiveAccounts
      <3> QED
        BY <1>5, <3>1, <3>2 DEF UpsertAccountToken
    <2> QED
      BY <1>0, <2>2, <2>3, <2>4 DEF RoomIsKept, Limit
  <1>6. ASSUME NEW u \in Login, DisableAccount(u) PROVE RoomIsKept'
    <2>1. CountAccounts' \in Nat /\ CountAccounts' <= CountAccounts
      BY <1>6, CountStep DEF DisableAccount, LimitInv
    <2> QED
      BY <1>3, <1>6, <2>1 DEF DisableAccount, server, Outstanding, Unexpired
  <1>7. CASE accounts' = accounts /\ ~ \E f \in Flow : CheckLimit(f)
    <2>1. CountAccounts' = CountAccounts
      BY <1>7 DEF CountAccounts, ActiveAccounts
    <2> QED
      BY <1>0, <1>3, <1>7, <2>1, OutstandingStep
  <1>8. ~ \E u \in Login : SeedAccount(u)
    BY <1>1 DEF SeedAccount
  <1> QED
    BY <1>4, <1>5, <1>6, <1>7, <1>8
       DEF Next, vars, server, OAuthStart, IssueState, TakeState, ExchangeCode, FetchUser,
           Restart, Tick

(* Every step keeps the account limit's invariant. *)
LEMMA Limit_Next == TypeOK /\ StateInv /\ LimitInv /\ [Next]_vars => LimitInv'
  <1> SUFFICES ASSUME TypeOK, StateInv, LimitInv, [Next]_vars PROVE LimitInv'
    OBVIOUS
  <1>1. IsFiniteSet(ActiveAccounts')
    <2>1. CASE accounts' = accounts
      BY <2>1 DEF ActiveAccounts, LimitInv
    <2>2. CASE \E u \in Login : UpsertRow(u) \/ SetAccountStatus(u, "disabled")
      BY <2>2, CountStep DEF LimitInv
    <2>3. \A c \in Callback : calls[c].pc = "upsert" => calls[c].login \in Login
      BY DEF TypeOK, CallState
    <2> QED
      BY <2>1, <2>2, <2>3
         DEF Next, vars, server, OAuthStart, CheckLimit, IssueState, TakeState, ExchangeCode, FetchUser,
             UpsertAccountToken, DisableAccount, SeedAccount, Restart, Tick
  <1>2. \A c \in Callback : Handled(c)' =>
           /\ states'[calls'[c].flow] = NULL /\ spent'[calls'[c].flow] # 0
           /\ \A d \in Callback : calls'[c].flow = calls'[d].flow => c = d
    BY Limit_Calls
  <1>3. ~overlap' /\ seeds' = 0 => RoomIsKept'
    BY Limit_Room
  <1> QED
    BY <1>1, <1>2, <1>3 DEF LimitInv, Handled

(* Without seed-account and overlapping flows, the check at the start of a  *)
(* flow keeps the active accounts within the limit although the account is  *)
(* stored minutes later.                                                    *)
THEOREM LimitWithoutOverlap == Spec => []LimitHoldsWithoutOverlap
  <1>1. LimitInv => LimitHoldsWithoutOverlap
    BY DEF LimitInv, RoomIsKept, Limit, LimitHoldsWithoutOverlap
  <1> QED
    BY <1>1, TypeOK_Init, TypeOK_Next, State_Init, State_Next, Limit_Init, Limit_Next, PTL
       DEF Spec
=============================================================================
