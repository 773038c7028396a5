----------------------------- MODULE KeyCaches -----------------------------
(***************************************************************************)
(* What Triton keeps of other parties' keys and tokens, and when it lets   *)
(* go of it.  A behaviour has one cache, of style                          *)
(*   "oidc"    OidcVerifier: signing keys, fetched for an unknown kid;     *)
(*   "teams"   Bot Framework JwtVerifier: two anchors, each with its keys; *)
(*   "google"  GoogleJwtVerifier of Google Chat;                           *)
(*   "access"  GoogleAccessTokenVerifier: answers of tokeninfo;            *)
(*   "mint", "wif"  Triton's own tokens (token_client, token_minter, and   *)
(*             wif_minter, which is told a time of expiry).                *)
(* The other side publishes and withdraws keys ("access": users' tokens)   *)
(* at any time.  One HTTP request takes at most Timeout.                   *)
(***************************************************************************)
EXTENDS Integers, FiniteSetsExt

CONSTANTS
    Styles, Kids, Callers,
    TTL,         \* JWKS_CACHE_TTL, cache_ttl, and the 300 s of tokeninfo
    Cooldown,    \* refresh_interval
    Timeout,     \* the client's timeout
    Lead, Life,  \* REFRESH_LEAD_SECS; the life of a token
    AccessCap,   \* the capacity of the tokeninfo cache
    MaxNow, MaxEvents   \* bounds: the clock; changes of keys, lost fetches

NoOne == "nobody"

\* A request is given 3 or 5 s; a token of ours is replaced at least 60 s
\* before it expires, and none is issued for less than one request takes.
ASSUME KcConstants ==
    /\ Styles \subseteq {"oidc", "teams", "google", "access", "mint", "wif"}
    /\ Kids # {} /\ NoOne \notin Callers
    /\ TTL \in Nat \ {0} /\ Cooldown \in Nat /\ Timeout \in Nat /\ Lead \in Nat /\ Life \in Nat
    /\ Timeout <= Lead /\ Timeout < Life /\ MaxNow \in Nat

VARIABLES
    style, time,
    published,   \* the keys the other side vouches for
    changed,     \* changed[k]: when that last changed
    failed,      \* when a fetch last failed, or ("oidc") was cut off with its caller
    cache,       \* cache[a]: the keys of anchor a, and when they were fetched
    stamp,       \* stamp[k]: last_refresh_per_kid
    until,       \* until[k]: the expiry of a cached answer of tokeninfo
    token,       \* Triton's token: when it expires, when it is replaced
    lock,        \* lock[a]: who refreshes anchor a
    caller,      \* caller[c]: see NoCaller
    events       \* the changes and failures so far

kcVars == <<style, time, published, changed, failed, cache, stamp, until, token, lock, caller, events>>

NotYet == 0 - TTL - Cooldown - Timeout - Life
Expiry == MaxNow - 1     \* of users' access tokens
Minting == {"mint", "wif"}
AnchorOf(k) == IF style = "teams" /\ k = (CHOOSE j \in Kids : TRUE) THEN 2 ELSE 1

\* A caller that came at `came` looks for `kid`, is at anchor `at`, and sent its
\* last request at `since`, which was answered at `heard` with `got`.
NoCaller == [pc |-> "idle", kid |-> "", came |-> NotYet, at |-> 1, since |-> NotYet, heard |-> NotYet,
             got |-> {}, err |-> FALSE]

KcInit ==
    /\ style \in Styles /\ time = 0 /\ published = {CHOOSE k \in Kids : TRUE}
    /\ changed = [k \in Kids |-> NotYet] /\ failed = NotYet
    /\ cache = [a \in {1, 2} |-> [keys |-> {}, at |-> NotYet]] /\ stamp = [k \in Kids |-> NotYet]
    /\ until = [k \in Kids |-> NotYet] /\ token = [exp |-> NotYet, refresh |-> NotYet]
    /\ lock = [a \in {1, 2} |-> NoOne] /\ caller = [c \in Callers |-> NoCaller]
    /\ events = 0

(***************************************************************************)
(* The parts of a lookup                                                   *)
(***************************************************************************)
Becomes(c, r) == caller' = [caller EXCEPT ![c] = r]
Over(c, v) == [NoCaller EXCEPT !.pc = v, !.kid = caller[c].kid]
Verdict(c, v) == Becomes(c, Over(c, v))
Fetching(c) == [caller[c] EXCEPT !.pc = "fetch", !.since = time]

\* Mutant: a cache that is never stale again.
StaleOnce(a) == cache[a].at = NotYet

\* cache_stale, and the age check of jwks_for.
Stale(a) == time - cache[a].at >= TTL

Fresh(k) == ~Stale(1) /\ k \in cache[1].keys
RateLimited(k) == time - stamp[k] < Cooldown

\* Mutant: no second look at the keys.
NotReread(k) == FALSE

\* lookup_key looks again once it has the lock.
HitUnderLock(k) == k \in cache[1].keys

\* One anchor of the Bot Framework has no such key: on to the next; without
\* one, the last error, or an unknown kid.
NextAnchor(c, err) ==
    IF caller[c].at = 1 THEN [Over(c, "lock") EXCEPT !.came = caller[c].came, !.at = 2, !.err = err]
    ELSE Over(c, IF err THEN "failed" ELSE "refused")

FromAnchor(c, keys, err) ==
    IF caller[c].kid \in keys THEN Over(c, "ok") ELSE NextAnchor(c, err)

(***************************************************************************)
(* Steps of a caller                                                       *)
(***************************************************************************)
\* The fast path, without the lock.
Lookup(c, k) ==
    /\ caller[c].pc = "idle"
    /\ LET r == [NoCaller EXCEPT !.kid = k] IN
       caller' = [caller EXCEPT ![c] =
         CASE style = "oidc" /\ k \in cache[1].keys -> [r EXCEPT !.pc = "ok"]
           [] style = "oidc" /\ k \notin cache[1].keys /\ RateLimited(k) -> [r EXCEPT !.pc = "refused"]
           [] style = "google" /\ Fresh(k) -> [r EXCEPT !.pc = "ok"]
           [] style = "access" /\ until[k] > time -> [r EXCEPT !.pc = "ok"]
           [] style = "access" /\ until[k] <= time -> [r EXCEPT !.pc = "fetch", !.came = time, !.since = time]
           [] OTHER -> [r EXCEPT !.pc = "lock", !.came = time]]
    /\ UNCHANGED <<style, time, published, changed, failed, cache, stamp, until, token, lock, events>>

\* The cache is looked at again under the lock; who still misses, fetches,
\* and OidcVerifier notes the attempt first.
Hit(c) ==
    LET k == caller[c].kid IN
    CASE style = "oidc" -> HitUnderLock(k) \/ RateLimited(k)
      [] style = "google" -> Fresh(k)
      [] style = "teams" -> ~Stale(caller[c].at)
      [] OTHER -> time < token.refresh
LockedHit(c) ==
    /\ caller[c].pc = "lock" /\ lock[caller[c].at] = NoOne /\ Hit(c)
    /\ Becomes(c, CASE style = "teams" -> FromAnchor(c, cache[caller[c].at].keys, caller[c].err)
                    [] style = "oidc" /\ ~HitUnderLock(caller[c].kid) -> Over(c, "refused")
                    [] OTHER -> Over(c, "ok"))
    /\ UNCHANGED <<style, time, published, changed, failed, cache, stamp, until, token, lock, events>>
LockedMiss(c) ==
    /\ caller[c].pc = "lock" /\ lock[caller[c].at] = NoOne /\ ~Hit(c)
    /\ lock' = [lock EXCEPT ![caller[c].at] = c] /\ Becomes(c, Fetching(c))
    /\ stamp' = IF style = "oidc" THEN [stamp EXCEPT ![caller[c].kid] = time] ELSE stamp
    /\ UNCHANGED <<style, time, published, changed, failed, cache, until, token, events>>

\* The other side answers with what it publishes at that moment.
Answered(c) ==
    /\ caller[c].pc = "fetch"
    /\ Becomes(c, [caller[c] EXCEPT !.pc = "got", !.heard = IF style \in Minting THEN time ELSE NotYet,
                                    !.got = {k \in published : AnchorOf(k) = caller[c].at}])
    /\ UNCHANGED <<style, time, published, changed, failed, cache, stamp, until, token, lock, events>>

Unlocked(c) == [a \in DOMAIN lock |-> IF lock[a] = c THEN NoOne ELSE lock[a]]

\* A transport error, a bad status, a body that does not parse: what was
\* cached stays.
FetchFailed(c) ==
    /\ caller[c].pc \in {"fetch", "second"} /\ events < MaxEvents
    /\ failed' = time /\ events' = events + 1 /\ lock' = Unlocked(c)
    /\ Becomes(c, CASE style = "teams" -> NextAnchor(c, TRUE)
                    [] style = "access" -> Over(c, "refused")
                    [] OTHER -> Over(c, "failed"))
    /\ UNCHANGED <<style, time, published, changed, cache, stamp, until, token>>

\* A client disconnects and its request is dropped at an await: the lock goes
\* back, what was fetched is lost, and a noted attempt stays noted.
HangUp(c) ==
    /\ caller[c].pc \in {"lock", "fetch", "got", "second"} /\ events < MaxEvents
    /\ events' = events + 1 /\ lock' = Unlocked(c) /\ Becomes(c, NoCaller)
    /\ failed' = IF style = "oidc" /\ caller[c].pc \in {"fetch", "got"} THEN time ELSE failed
    /\ UNCHANGED <<style, time, published, changed, cache, stamp, until, token>>

\* A key set replaces the cached one.
InstallKeys(c) ==
    /\ style \in {"oidc", "teams", "google"} /\ caller[c].pc = "got"
    /\ cache' = [cache EXCEPT ![caller[c].at] = 
                       [keys |-> caller[c].got, at |-> IF style = "oidc" THEN NotYet ELSE time]]
    /\ lock' = Unlocked(c)
    /\ IF style = "teams" THEN Becomes(c, FromAnchor(c, caller[c].got, caller[c].err))
       ELSE Verdict(c, IF caller[c].kid \in caller[c].got THEN "ok" ELSE "refused")
    /\ UNCHANGED <<style, time, published, changed, failed, stamp, until, token, events>>

\* Mutant: the whole life, without the lead.
RefreshAtExpiry(life) == time + Max({life, 1})

\* Counted from when the response is in.
RefreshAt(life) == time + Max({life - Lead, 1})

\* access_token: expires_in is a span, expireTime a date.
InstallToken(c) ==
    /\ style \in Minting /\ caller[c].pc = "got" /\ lock' = Unlocked(c) /\ Verdict(c, "ok")
    /\ LET exp == caller[c].heard + Life IN
       token' = [exp |-> exp, refresh |-> RefreshAt(IF style = "mint" THEN Life ELSE exp - time)]
    /\ UNCHANGED <<style, time, published, changed, failed, cache, stamp, until, events>>

\* tokeninfo accepted the token at `heard`; without a hosted domain userinfo
\* is asked too, which may fail or refuse it; only the time of the first
\* answer is remembered.
AskUserInfo(c) ==
    /\ style = "access" /\ caller[c].pc = "got" /\ caller[c].kid \in caller[c].got
    /\ time < Expiry /\ Becomes(c, [caller[c] EXCEPT !.pc = "second", !.since = time, !.heard = time])
    /\ UNCHANGED <<style, time, published, changed, failed, cache, stamp, until, token, lock, events>>
RefuseAccess(c) ==
    /\ style = "access"
    /\ \/ caller[c].pc = "got" /\ caller[c].kid \notin caller[c].got
       \/ caller[c].pc = "second" /\ caller[c].kid \notin published
       \/ caller[c].pc \in {"got", "second"} /\ time >= Expiry
    /\ Verdict(c, "refused")
    /\ UNCHANGED <<style, time, published, changed, failed, cache, stamp, until, token, lock, events>>

\* cache_put: expired entries go first, and a full cache keeps what it has.
Live == {k \in Kids : until[k] > time}
CacheAccess(c) ==
    /\ style = "access"
    /\ caller[c].pc = "second" \/ (caller[c].pc = "got" /\ caller[c].kid \in caller[c].got /\ time < Expiry)
    /\ LET read == IF caller[c].pc = "second" THEN caller[c].heard ELSE time IN
       until' = [k \in Kids |-> IF k = caller[c].kid /\ Cardinality(Live) < AccessCap
                                THEN time + Min({Expiry - read, TTL})
                                ELSE IF k \in Live THEN until[k] ELSE NotYet]
    /\ Verdict(c, "ok")
    /\ UNCHANGED <<style, time, published, changed, failed, cache, stamp, token, lock, events>>

Rest(c) ==
    /\ caller[c].pc \in {"ok", "refused", "failed"} /\ Becomes(c, NoCaller)
    /\ UNCHANGED <<style, time, published, changed, failed, cache, stamp, until, token, lock, events>>

(***************************************************************************)
(* The others                                                              *)
(***************************************************************************)
Publish(ks) ==
    /\ ks # published /\ events < MaxEvents /\ style \notin Minting
    /\ style = "access" => ks \subseteq published        \* a token is not given back
    /\ published' = ks /\ events' = events + 1
    /\ changed' = [k \in Kids |-> IF (k \in ks) = (k \in published) THEN changed[k] ELSE time]
    /\ UNCHANGED <<style, time, failed, cache, stamp, until, token, lock, caller>>

TimePasses ==
    /\ time < MaxNow /\ time' = time + 1
    /\ \A c \in Callers : caller[c].pc \in {"fetch", "got", "second"} => time < caller[c].since + Timeout
    /\ UNCHANGED <<style, published, changed, failed, cache, stamp, until, token, lock, caller, events>>

KcNext ==
    \/ \E c \in Callers : \/ \E k \in Kids : Lookup(c, k)
                          \/ LockedHit(c) \/ LockedMiss(c) \/ Answered(c) \/ FetchFailed(c)
                          \/ InstallKeys(c) \/ InstallToken(c) \/ AskUserInfo(c) \/ RefuseAccess(c)
                          \/ CacheAccess(c) \/ Rest(c) \/ HangUp(c)
    \/ \E ks \in SUBSET Kids : Publish(ks)
    \/ TimePasses

KcSpec == KcInit /\ [][KcNext]_kcVars

(***************************************************************************)
(* Properties                                                              *)
(***************************************************************************)
Turns(c, v) == caller[c].pc # v /\ caller'[c].pc = v
Leads(c, k) == caller[c].kid = k /\ caller[c].pc \in {"fetch", "got"}
Expired == style = "access" /\ time >= Expiry

\* A valid key is refused only shortly after it was published or a fetch
\* failed; by OidcVerifier also while the first request for it is fetching, and
\* shortly after a client hung up on that request (the attempt it noted keeps
\* others from fetching).
RefusalExplained ==
    [][\A c \in Callers : Turns(c, "refused") =>
         LET k == caller'[c].kid IN
         \/ k \notin published \/ Expired
         \/ (IF caller[c].pc = "idle" THEN time ELSE caller[c].came)
                < Max({changed[k], failed'}) + Max({TTL, Cooldown}) + Timeout
         \/ style = "oidc" /\ caller[c].pc = "idle" /\ \E l \in Callers : Leads(l, k)]_kcVars

\* A key or an access token that was withdrawn is accepted only for as long as
\* the cached copy lives and the requests took; of OidcVerifier's keys this
\* is not so.  Expiry counts at once, but for the time of one request.
WithdrawnBounded ==
    [][\A c \in Callers : Turns(c, "ok") =>
         LET k == caller'[c].kid IN
         /\ (style \in {"teams", "google", "access"} /\ k \notin published) =>
               time < changed[k] + TTL + (IF style = "access" THEN 2 ELSE 1) * Timeout
         /\ style = "access" => time < Expiry + Timeout]_kcVars

\* A token Triton hands out has not expired, however long it took to get it
\* and whoever waited meanwhile.
TokenFresh ==
    [][\A c \in Callers : (style \in Minting /\ Turns(c, "ok")) => time < token'.exp]_kcVars

=============================================================================
