-------------------------- MODULE KeyCaches_proofs --------------------------
(***************************************************************************)
(* What the key and token caches guarantee for any number of callers and   *)
(* keys, any lifetime, cooldown and timeout.                               *)
(***************************************************************************)
EXTENDS KeyCaches, TLAPS

(***************************************************************************)
(* The invariants.                                                         *)
(***************************************************************************)

CallerRecs ==
    [pc : {"idle", "ok", "refused", "failed", "lock", "fetch", "got", "second"},
     kid : Kids \cup {""}, came : Int, at : {1, 2}, since : Int, heard : Int,
     got : SUBSET Kids, err : BOOLEAN]

KcTypes ==
    /\ style \in {"oidc", "teams", "google", "access", "mint", "wif"} /\ time \in Nat
    /\ published \subseteq Kids /\ failed \in Int /\ failed <= time
    /\ changed \in [Kids -> Int] /\ \A k \in Kids : NotYet <= changed[k] /\ changed[k] <= time
    /\ stamp \in [Kids -> Int] /\ \A k \in Kids : stamp[k] <= time
    /\ cache \in [{1, 2} -> [keys : SUBSET Kids, at : Int]] /\ \A a \in {1, 2} : cache[a].at <= time
    /\ until \in [Kids -> Int] /\ token \in [exp : Int, refresh : Int]
    /\ lock \in [{1, 2} -> Callers \cup {NoOne}] /\ caller \in [Callers -> CallerRecs]

\* A set of keys that was right at some moment since t: where it differs from
\* what is published now, that has changed since.
RightSince(keys, a, t) ==
    \A k \in Kids : (AnchorOf(k) = a /\ ~(k \in keys <=> k \in published)) => t <= changed[k]

\* Of a caller: when it came, and when it sent the request it waits for.
TimesOK(r) ==
    /\ r.came <= time /\ r.since <= time
    /\ r.pc \in {"fetch", "got", "second"} => r.came <= r.since /\ time <= r.since + Timeout

\* Of a caller whose request was answered.
GotOK(r) ==
    /\ r.pc = "got" => /\ RightSince(r.got, r.at, r.since) /\ \A k \in r.got : AnchorOf(k) = r.at
                       /\ style \in Minting => r.since <= r.heard /\ r.heard <= time
    /\ r.pc = "second" => /\ style = "access" /\ r.heard = r.since /\ r.heard < Expiry
                          /\ r.kid \notin published => r.since <= changed[r.kid] + Timeout

\* Of a Bot Framework caller that is at the second anchor: the first did not
\* have its key when it came, unless the fetch failed.
SecondOK(r) ==
    (style = "teams" /\ r.pc \in {"lock", "fetch", "got"} /\ r.at = 2 /\ ~r.err)
    => (r.kid \in published /\ AnchorOf(r.kid) = 1 => r.came < changed[r.kid] + TTL + Timeout)

\* Of a caller of OidcVerifier that fetches: it has the lock, and nobody else
\* has noted an attempt since.
LeaderOK(c, r) ==
    style = "oidc" /\ r.pc \in {"fetch", "got"} => lock[1] = c /\ \A k \in Kids : stamp[k] <= r.since

CallerOK(c, r) ==
    /\ r \in CallerRecs /\ (r.pc # "idle" => r.kid \in Kids) /\ (style # "teams" => r.at = 1)
    /\ style = "access" => r.pc # "lock"
    /\ TimesOK(r) /\ GotOK(r) /\ SecondOK(r) /\ LeaderOK(c, r)

KcCallers == \A c \in Callers : CallerOK(c, caller[c])

\* A cached set was right Timeout before it was cached, or later.
KcCache ==
    style \in {"teams", "google"} =>
        \A a \in {1, 2} : /\ RightSince(cache[a].keys, a, cache[a].at - Timeout)
                          /\ \A k \in cache[a].keys : AnchorOf(k) = a

\* A cached answer of tokeninfo goes soon after its token.
KcUntil ==
    style = "access" =>
        \A k \in Kids : /\ until[k] <= Expiry + Timeout /\ until[k] <= time + TTL
                        /\ k \notin published => until[k] <= changed[k] + TTL + 2 * Timeout

\* Triton's token is replaced before it expires.
KcToken == token.refresh <= token.exp

\* OidcVerifier lacks a key that is published only if it was published after
\* the last attempt, a fetch failed since, or the attempt is under way.
KcStamp ==
    style = "oidc" =>
        \A k \in published \ cache[1].keys :
            stamp[k] <= changed[k] \/ stamp[k] <= failed \/ \E l \in Callers : Leads(l, k)

KcInv == KcTypes /\ KcCallers /\ KcCache /\ KcUntil /\ KcToken /\ KcStamp


(***************************************************************************)
(* Lemmas about a caller.                                                  *)
(***************************************************************************)

\* Lemma: the constants, as numbers.
LEMMA KcNumbers ==
    /\ NotYet \in Int /\ NotYet < 0 /\ Expiry \in Int /\ Expiry >= 0 - 1
    /\ TTL \in Nat /\ TTL >= 1 /\ Cooldown \in Nat /\ Timeout \in Nat /\ Lead \in Nat /\ Life \in Nat
BY KcConstants DEF NotYet, Expiry

\* Lemma: the greater of two numbers.
LEMMA MaxOfTwo == ASSUME NEW a \in Int, NEW b \in Int
                  PROVE  Max({a, b}) = IF a >= b THEN a ELSE b
<1> DEFINE m == IF a >= b THEN a ELSE b
<1>1. m \in {a, b} /\ \A y \in {a, b} : m >= y
  OBVIOUS
<1>2. \A x \in {a, b} : (\A y \in {a, b} : x >= y) => x = m
  OBVIOUS
<1> HIDE DEF m
<1>3. (CHOOSE x \in {a, b} : \A y \in {a, b} : x >= y) = m
  BY <1>1, <1>2
<1> QED BY <1>3 DEF Max, m

\* Lemma: and the smaller.
LEMMA MinOfTwo == ASSUME NEW a \in Int, NEW b \in Int
                  PROVE  Min({a, b}) = IF a <= b THEN a ELSE b
<1> DEFINE m == IF a <= b THEN a ELSE b
<1>1. m \in {a, b} /\ \A y \in {a, b} : m <= y
  OBVIOUS
<1>2. \A x \in {a, b} : (\A y \in {a, b} : x <= y) => x = m
  OBVIOUS
<1> HIDE DEF m
<1>3. (CHOOSE x \in {a, b} : \A y \in {a, b} : x <= y) = m
  BY <1>1, <1>2
<1> QED BY <1>3 DEF Min, m

\* Lemma: the record of a caller that starts again, or is done.
LEMMA NewRecord ==
    /\ NoCaller \in CallerRecs /\ NoCaller.pc = "idle" /\ NoCaller.kid = "" /\ NoCaller.came = NotYet
    /\ NoCaller.at = 1 /\ NoCaller.since = NotYet /\ NoCaller.got = {} /\ NoCaller.err = FALSE
BY KcNumbers DEF NoCaller, CallerRecs

\* Lemma: a caller that waits or is done, with the key it looks for.
LEMMA OverRecord ==
    ASSUME NEW c \in Callers, caller[c].kid \in Kids,
           NEW v \in {"idle", "ok", "refused", "failed", "lock", "fetch", "got", "second"}
    PROVE  /\ Over(c, v) \in CallerRecs /\ Over(c, v).pc = v /\ Over(c, v).kid = caller[c].kid
           /\ Over(c, v).came = NotYet /\ Over(c, v).at = 1 /\ Over(c, v).since = NotYet
           /\ Over(c, v).err = FALSE
<1> DEFINE kid == caller[c].kid
<1>1. Over(c, v) = [NoCaller EXCEPT !.pc = v, !.kid = kid]
  BY DEF Over
<1>2. kid \in Kids
  OBVIOUS
<1> HIDE DEF kid
<1>3. [NoCaller EXCEPT !.pc = v, !.kid = kid] \in CallerRecs
  BY <1>2, NewRecord DEF CallerRecs
<1>4. /\ Over(c, v).pc = v /\ Over(c, v).kid = kid
      /\ Over(c, v).came = NotYet /\ Over(c, v).at = 1 /\ Over(c, v).since = NotYet
      /\ Over(c, v).err = FALSE
  BY <1>1, NewRecord DEF CallerRecs
<1> QED BY <1>1, <1>3, <1>4 DEF kid

\* Lemma: a caller that is done is as it should be.
LEMMA OverOK ==
    ASSUME KcInv, NEW c \in Callers, caller[c].kid \in Kids, NEW v \in {"ok", "refused", "failed"}
    PROVE  CallerOK(c, Over(c, v))
<1> DEFINE r == Over(c, v)
<1>1. /\ r \in CallerRecs /\ r.pc = v /\ r.kid \in Kids /\ r.came = NotYet /\ r.at = 1
      /\ r.since = NotYet
  <2>1. v \in {"idle", "ok", "refused", "failed", "lock", "fetch", "got", "second"}
    OBVIOUS
  <2> QED BY <2>1, OverRecord
<1> HIDE DEF r
<1>2. TimesOK(r)
  BY <1>1, KcNumbers DEF KcInv, KcTypes, TimesOK
<1>3. GotOK(r) /\ SecondOK(r) /\ LeaderOK(c, r)
  BY <1>1 DEF GotOK, SecondOK, LeaderOK
<1> QED BY <1>1, <1>2, <1>3 DEF CallerOK, r

\* Lemma: so is one that starts again.
LEMMA IdleOK == ASSUME KcInv, NEW c \in Callers PROVE CallerOK(c, NoCaller)
<1>0. time \in Nat
  BY DEF KcInv, KcTypes
<1>1. TimesOK(NoCaller)
  <2>1. NoCaller.pc = "idle" /\ NoCaller.came = NotYet /\ NoCaller.since = NotYet
    BY NewRecord
  <2>2. NotYet <= time
    BY <1>0, KcNumbers
  <2> QED BY <2>1, <2>2 DEF TimesOK
<1>2. GotOK(NoCaller) /\ SecondOK(NoCaller) /\ LeaderOK(c, NoCaller)
  BY NewRecord DEF GotOK, SecondOK, LeaderOK
<1> QED BY <1>1, <1>2, NewRecord DEF CallerOK

\* Lemma: and one that goes on to the next anchor, or is done there.
LEMMA NextOK ==
    ASSUME KcInv, NEW c \in Callers, style = "teams", caller[c].kid \in Kids, NEW err \in BOOLEAN,
           caller[c].at = 1 /\ ~err /\ caller[c].kid \in published /\ AnchorOf(caller[c].kid) = 1 =>
              caller[c].came < changed[caller[c].kid] + TTL + Timeout
    PROVE  /\ CallerOK(c, NextAnchor(c, err)) /\ NextAnchor(c, err).kid = caller[c].kid
           /\ NextAnchor(c, err).pc \in {"lock", "failed", "refused"}
           /\ NextAnchor(c, err).pc = "refused" => caller[c].at # 1 /\ ~err
<1>1. CASE caller[c].at # 1
  <2>1. NextAnchor(c, err) = Over(c, IF err THEN "failed" ELSE "refused")
    BY <1>1 DEF NextAnchor
  <2> QED BY <1>1, <2>1, OverOK, OverRecord
<1>2. CASE caller[c].at = 1
  <2> DEFINE o == Over(c, "lock")
             came == caller[c].came
             r == [o EXCEPT !.came = came, !.at = 2, !.err = err]
  <2>1. NextAnchor(c, err) = r
    BY <1>2 DEF NextAnchor
  <2>2. o \in CallerRecs /\ o.pc = "lock" /\ o.kid = caller[c].kid /\ o.since = NotYet
    BY OverRecord
  <2>3. came \in Int /\ came <= time
    BY DEF KcInv, KcCallers, CallerOK, TimesOK, CallerRecs
  <2> HIDE DEF o, came
  <2>4. /\ r \in CallerRecs /\ r.pc = "lock" /\ r.kid = caller[c].kid /\ r.came = came /\ r.at = 2
        /\ r.since = NotYet /\ r.err = err
    BY <2>2, <2>3 DEF CallerRecs
  <2> HIDE DEF r
  <2>5. TimesOK(r)
    BY <2>3, <2>4, KcNumbers DEF KcInv, KcTypes, TimesOK
  <2>6. GotOK(r) /\ LeaderOK(c, r)
    BY <2>4 DEF GotOK, LeaderOK
  <2>7. SecondOK(r)
    BY <1>2, <2>4 DEF SecondOK, came
  <2> QED BY <2>1, <2>4, <2>5, <2>6, <2>7 DEF CallerOK
<1> QED BY <1>1, <1>2

\* Lemma: the other callers are not disturbed by one that moves on, and maybe
\* gives its lock back.
LEMMA OthersStay ==
    ASSUME KcInv, NEW c \in Callers, NEW r, caller' = [caller EXCEPT ![c] = r], CallerOK(c, r),
           r.pc \notin {"fetch", "got"} \/ lock' = lock,
           UNCHANGED <<style, time, published, changed, stamp>>, lock' = lock \/ lock' = Unlocked(c)
    PROVE  KcCallers' /\ lock' \in [{1, 2} -> Callers \cup {NoOne}]
<1>1. caller'[c] = r /\ \A d \in Callers \ {c} : caller'[d] = caller[d]
  BY DEF KcInv, KcTypes
<1>2. lock' \in [{1, 2} -> Callers \cup {NoOne}] /\ \A d \in Callers \ {c} : lock[1] = d => lock'[1] = d
  BY DEF KcInv, KcTypes, Unlocked
<1>3. ASSUME NEW d \in Callers, d # c PROVE CallerOK(d, caller[d])'
  <2>1. CallerOK(d, caller[d]) /\ caller'[d] = caller[d]
    BY <1>1, <1>3 DEF KcInv, KcCallers
  <2>2. LeaderOK(d, caller[d])'
    BY <1>2, <1>3, <2>1 DEF CallerOK, LeaderOK
  <2> QED BY <2>1, <2>2 DEF CallerOK, TimesOK, GotOK, SecondOK, RightSince, AnchorOf
<1>4. CallerOK(c, caller[c])'
  BY <1>1 DEF CallerOK, TimesOK, GotOK, SecondOK, LeaderOK, RightSince, AnchorOf
<1> QED BY <1>2, <1>3, <1>4 DEF KcCallers

\* Lemma: nothing is cached, noted or handed out by a caller that moves on, and
\* an attempt that is under way goes on.
LEMMA CallerMoves ==
    ASSUME KcInv, NEW c \in Callers, NEW r, caller' = [caller EXCEPT ![c] = r], CallerOK(c, r),
           UNCHANGED <<style, time, published, changed, failed, cache, stamp, until, token, lock, events>>,
           style = "oidc" /\ caller[c].pc \in {"fetch", "got"} =>
               r.pc \in {"fetch", "got"} /\ r.kid = caller[c].kid
    PROVE  KcInv'
<1>1. caller'[c] = r /\ \A d \in Callers \ {c} : caller'[d] = caller[d]
  BY DEF KcInv, KcTypes
<1>2. KcTypes'
  BY DEF KcInv, KcTypes, CallerOK
<1>3. KcCallers'
  BY OthersStay
<1>4. KcCache' /\ KcUntil' /\ KcToken'
  BY DEF KcInv, KcCache, KcUntil, KcToken, RightSince, AnchorOf
<1>5. KcStamp'
  BY <1>1 DEF KcInv, KcStamp, Leads
<1> QED BY <1>2, <1>3, <1>4, <1>5 DEF KcInv

(***************************************************************************)
(* The steps.                                                              *)
(***************************************************************************)

\* Lemma: what is known of a caller that is not idle.
LEMMA CallerHas ==
    ASSUME KcInv, NEW c \in Callers
    PROVE  /\ CallerOK(c, caller[c]) /\ caller[c] \in CallerRecs
           /\ caller[c].pc # "idle" => caller[c].kid \in Kids
           /\ style # "teams" => caller[c].at = 1
BY DEF KcInv, KcCallers, CallerOK

\* Lemma: the fast path of a lookup keeps the invariant.
LEMMA LookupKeeps ==
    ASSUME KcInv, NEW c \in Callers, NEW k \in Kids, Lookup(c, k) PROVE KcInv'
<1>0. time \in Nat /\ time \in Int /\ caller[c].pc = "idle"
  BY DEF KcInv, KcTypes, Lookup
<1>1. UNCHANGED <<style, time, published, changed, failed, cache, stamp, until, token, lock, events>>
  BY DEF Lookup
<1> DEFINE r == [NoCaller EXCEPT !.kid = k]
<1>2. /\ r \in CallerRecs /\ r.pc = "idle" /\ r.kid = k /\ r.came = NotYet
      /\ r.at = 1 /\ r.since = NotYet /\ r.got = {} /\ r.err = FALSE
  BY NewRecord DEF CallerRecs
<1> HIDE DEF r
<1>3. \/ \E v \in {"ok", "refused"} : caller' = [caller EXCEPT ![c] = [r EXCEPT !.pc = v]]
      \/ /\ caller' = [caller EXCEPT ![c] = [r EXCEPT !.pc = "lock", !.came = time]]
         /\ style # "access"
      \/ /\ caller' = [caller EXCEPT ![c] = [r EXCEPT !.pc = "fetch", !.came = time, !.since = time]]
         /\ style = "access"
  <2>1. CASE style = "oidc" /\ k \in cache[1].keys
    <3>1. caller' = [caller EXCEPT ![c] = [r EXCEPT !.pc = "ok"]]
      BY <2>1 DEF Lookup, r
    <3> QED BY <3>1
  <2>2. CASE style = "oidc" /\ k \notin cache[1].keys /\ RateLimited(k)
    <3>1. caller' = [caller EXCEPT ![c] = [r EXCEPT !.pc = "refused"]]
      BY <2>2 DEF Lookup, r
    <3> QED BY <3>1
  <2>3. CASE style = "google" /\ Fresh(k)
    <3>1. caller' = [caller EXCEPT ![c] = [r EXCEPT !.pc = "ok"]]
      BY <2>3 DEF Lookup, r
    <3> QED BY <3>1
  <2>6. CASE style = "access" /\ until[k] > time
    <3>0. ~(until[k] <= time)
      BY <1>0, <2>6 DEF KcInv, KcTypes
    <3>1. caller' = [caller EXCEPT ![c] = [r EXCEPT !.pc = "ok"]]
      BY <2>6, <3>0 DEF Lookup, r
    <3> QED BY <3>1
  <2>4. CASE style = "access" /\ until[k] <= time
    <3>0. ~(until[k] > time)
      BY <1>0, <2>4 DEF KcInv, KcTypes
    <3>1. caller' = [caller EXCEPT ![c] = [r EXCEPT !.pc = "fetch", !.came = time, !.since = time]]
      BY <2>4, <3>0 DEF Lookup, r
    <3> QED BY <2>4, <3>1
  <2>5. CASE /\ ~(style = "oidc" /\ k \in cache[1].keys)
             /\ ~(style = "oidc" /\ k \notin cache[1].keys /\ RateLimited(k))
             /\ ~(style = "google" /\ Fresh(k)) /\ ~(style = "access" /\ until[k] > time)
             /\ ~(style = "access" /\ until[k] <= time)
    <3>1. caller' = [caller EXCEPT ![c] = [r EXCEPT !.pc = "lock", !.came = time]]
      BY <2>5 DEF Lookup, r
    <3>2. style # "access"
      BY <1>0, <2>5 DEF KcInv, KcTypes
    <3> QED BY <3>1, <3>2
  <2> QED BY <2>1, <2>2, <2>3, <2>4, <2>5, <2>6
<1>4. ASSUME NEW v \in {"ok", "refused"}, caller' = [caller EXCEPT ![c] = [r EXCEPT !.pc = v]]
      PROVE  KcInv'
  <2> DEFINE q == [r EXCEPT !.pc = v]
  <2>1. q \in CallerRecs /\ q.pc = v /\ q.kid = k /\ q.came = NotYet /\ q.at = 1 /\ q.since = NotYet
    BY <1>2 DEF CallerRecs
  <2>2. caller' = [caller EXCEPT ![c] = q]
    BY <1>4
  <2> HIDE DEF q
  <2>3. CallerOK(c, q)
    BY <1>0, <2>1, KcNumbers DEF CallerOK, TimesOK, GotOK, SecondOK, LeaderOK
  <2> QED BY <1>0, <1>1, <2>2, <2>3, CallerMoves
<1>5. ASSUME caller' = [caller EXCEPT ![c] = [r EXCEPT !.pc = "lock", !.came = time]], style # "access"
      PROVE  KcInv'
  <2> DEFINE q == [r EXCEPT !.pc = "lock", !.came = time]
  <2>1. q \in CallerRecs /\ q.pc = "lock" /\ q.kid = k /\ q.came = time /\ q.at = 1 /\ q.since = NotYet
    BY <1>0, <1>2 DEF CallerRecs
  <2>2. caller' = [caller EXCEPT ![c] = q]
    BY <1>5
  <2> HIDE DEF q
  <2>3. CallerOK(c, q)
    BY <1>0, <1>5, <2>1, KcNumbers DEF CallerOK, TimesOK, GotOK, SecondOK, LeaderOK
  <2> QED BY <1>0, <1>1, <2>2, <2>3, CallerMoves
<1>6. ASSUME caller' = [caller EXCEPT ![c] = [r EXCEPT !.pc = "fetch", !.came = time, !.since = time]],
             style = "access" PROVE KcInv'
  <2> DEFINE q == [r EXCEPT !.pc = "fetch", !.came = time, !.since = time]
  <2>1. q \in CallerRecs /\ q.pc = "fetch" /\ q.kid = k /\ q.came = time /\ q.at = 1 /\ q.since = time
    BY <1>0, <1>2 DEF CallerRecs
  <2>2. caller' = [caller EXCEPT ![c] = q]
    BY <1>6
  <2> HIDE DEF q
  <2>3. CallerOK(c, q)
    BY <1>0, <1>6, <2>1, KcNumbers DEF CallerOK, TimesOK, GotOK, SecondOK, LeaderOK
  <2> QED BY <1>0, <1>1, <2>2, <2>3, CallerMoves
<1> QED BY <1>3, <1>4, <1>5, <1>6

\* Lemma: so does a hit under the lock.
LEMMA HitKeeps ==
    ASSUME KcInv, NEW c \in Callers, LockedHit(c) PROVE KcInv'
<1>1. /\ caller[c].pc = "lock" /\ Hit(c)
      /\ UNCHANGED <<style, time, published, changed, failed, cache, stamp, until, token, lock, events>>
  BY DEF LockedHit
<1>2. /\ caller[c] \in CallerRecs /\ caller[c].kid \in Kids /\ caller[c].err \in BOOLEAN
      /\ CallerOK(c, caller[c])
      /\ caller[c].at \in {1, 2} /\ caller[c].came \in Int
  BY <1>1, CallerHas DEF CallerRecs
<1>3. CASE style = "teams"
  <2> DEFINE keys == cache[caller[c].at].keys
  <2>1. caller' = [caller EXCEPT ![c] = FromAnchor(c, keys, caller[c].err)] /\ ~Stale(caller[c].at)
    BY <1>1, <1>3 DEF LockedHit, Becomes, Hit
  <2>2. CASE caller[c].kid \in keys
    <3>1. caller' = [caller EXCEPT ![c] = Over(c, "ok")]
      BY <2>1, <2>2 DEF FromAnchor
    <3> QED BY <1>1, <1>2, <3>1, OverOK, CallerMoves
  <2>3. CASE caller[c].kid \notin keys
    <3>1. caller' = [caller EXCEPT ![c] = NextAnchor(c, caller[c].err)]
      BY <2>1, <2>3 DEF FromAnchor
    <3>2. ASSUME caller[c].at = 1, caller[c].kid \in published, AnchorOf(caller[c].kid) = 1
          PROVE  caller[c].came < changed[caller[c].kid] + TTL + Timeout
      <4>1. cache[1].at - Timeout <= changed[caller[c].kid]
        BY <1>2, <1>3, <2>3, <3>2 DEF KcInv, KcCache, RightSince
      <4>2. time - cache[1].at < TTL
        BY <2>1, <3>2, KcNumbers DEF Stale, KcInv, KcTypes
      <4>3. caller[c].came <= time
        BY <1>2 DEF CallerOK, TimesOK
      <4>4. cache[1].at \in Int /\ changed[caller[c].kid] \in Int /\ time \in Int
        BY <1>2 DEF KcInv, KcTypes
      <4> QED BY <1>2, <4>1, <4>2, <4>3, <4>4, KcNumbers
    <3>3. CallerOK(c, NextAnchor(c, caller[c].err))
      BY <1>2, <1>3, <3>2, NextOK
    <3> QED BY <1>1, <1>3, <3>1, <3>3, CallerMoves
  <2> QED BY <2>2, <2>3
<1>4. CASE style # "teams"
  <2>1. \E v \in {"ok", "refused"} : caller' = [caller EXCEPT ![c] = Over(c, v)]
    BY <1>1, <1>4 DEF LockedHit, Becomes
  <2>2. PICK v \in {"ok", "refused"} : caller' = [caller EXCEPT ![c] = Over(c, v)]
    BY <2>1
  <2> QED BY <1>1, <1>2, <2>2, OverOK, CallerMoves
<1> QED BY <1>3, <1>4

\* Lemma: and a miss, which starts a fetch: with OidcVerifier nobody else
\* is fetching then.
LEMMA MissKeeps ==
    ASSUME KcInv, NEW c \in Callers, LockedMiss(c) PROVE KcInv'
<1>1. /\ caller[c].pc = "lock" /\ lock[caller[c].at] = NoOne /\ lock' = [lock EXCEPT ![caller[c].at] = c]
      /\ stamp' = (IF style = "oidc" THEN [stamp EXCEPT ![caller[c].kid] = time] ELSE stamp)
      /\ UNCHANGED <<style, time, published, changed, failed, cache, until, token, events>>
  BY DEF LockedMiss
<1>2. /\ caller[c] \in CallerRecs /\ caller[c].kid \in Kids /\ CallerOK(c, caller[c])
      /\ caller[c].at \in {1, 2} /\ caller[c].came \in Int /\ (style # "teams" => caller[c].at = 1)
  BY <1>1, CallerHas DEF CallerRecs
<1> DEFINE r == [caller[c] EXCEPT !.pc = "fetch", !.since = time]
<1>3. time \in Nat /\ time \in Int
  BY DEF KcInv, KcTypes
<1>4. caller' = [caller EXCEPT ![c] = r]
  BY DEF LockedMiss, Becomes, Fetching
<1>5. /\ r \in CallerRecs /\ r.pc = "fetch" /\ r.kid = caller[c].kid /\ r.came = caller[c].came
      /\ r.at = caller[c].at /\ r.since = time /\ r.err = caller[c].err
  BY <1>2, <1>3 DEF CallerRecs
<1> HIDE DEF r
<1>6. caller'[c] = r /\ \A d \in Callers \ {c} : caller'[d] = caller[d]
  BY <1>4 DEF KcInv, KcTypes
<1>7. KcTypes'
  BY <1>1, <1>2, <1>3, <1>4, <1>5 DEF KcInv, KcTypes
<1>8. ASSUME style = "oidc"
      PROVE  lock[1] = NoOne /\ lock'[1] = c /\ \A d \in Callers : caller[d].pc \notin {"fetch", "got"}
  BY <1>1, <1>2, <1>8, KcConstants DEF KcInv, KcTypes, KcCallers, CallerOK, LeaderOK
<1>9. KcCallers'
  <2> SUFFICES ASSUME NEW d \in Callers PROVE CallerOK(d, caller[d])'
    BY DEF KcCallers
  <2>1. CASE d = c
    <3>1. LeaderOK(c, caller[c])'
      BY <1>1, <1>2, <1>3, <1>5, <1>6, <1>8 DEF LeaderOK, KcInv, KcTypes
    <3>2. TimesOK(caller[c])'
      BY <1>1, <1>2, <1>3, <1>5, <1>6, KcNumbers DEF CallerOK, TimesOK
    <3>3. GotOK(caller[c])'
      BY <1>5, <1>6 DEF GotOK
    <3>4. SecondOK(caller[c])'
      BY <1>1, <1>2, <1>5, <1>6 DEF CallerOK, SecondOK, AnchorOf
    <3> QED BY <1>1, <1>2, <1>5, <1>6, <2>1, <3>1, <3>2, <3>3, <3>4 DEF CallerOK
  <2>2. CASE d # c
    <3>1. CallerOK(d, caller[d]) /\ caller'[d] = caller[d]
      BY <1>6, <2>2 DEF KcInv, KcCallers
    <3>2. LeaderOK(d, caller[d])'
      BY <1>1, <1>8, <3>1 DEF LeaderOK
    <3> QED BY <1>1, <3>1, <3>2 DEF CallerOK, TimesOK, GotOK, SecondOK, RightSince, AnchorOf
  <2> QED BY <2>1, <2>2
<1>10. KcCache' /\ KcUntil' /\ KcToken'
  BY <1>1 DEF KcInv, KcCache, KcUntil, KcToken, RightSince, AnchorOf
<1>11. KcStamp'
  <2> SUFFICES ASSUME style = "oidc", NEW k \in published \ cache[1].keys
               PROVE  stamp'[k] <= changed[k] \/ stamp'[k] <= failed \/ \E l \in Callers : Leads(l, k)'
    BY <1>1 DEF KcStamp
  <2>1. CASE k = caller[c].kid
    BY <1>5, <1>6, <2>1 DEF Leads
  <2>2. CASE k # caller[c].kid
    <3>1. stamp'[k] = stamp[k]
      BY <1>1, <1>2, <2>2 DEF KcInv, KcTypes
    <3>2. \A l \in Callers : ~Leads(l, k)
      BY <1>8 DEF Leads
    <3> QED BY <3>1, <3>2 DEF KcInv, KcStamp
  <2> QED BY <2>1, <2>2
<1> QED BY <1>7, <1>9, <1>10, <1>11 DEF KcInv

\* Lemma: the answer to a request keeps the invariant: it was right when
\* it was given.
LEMMA AnsweredKeeps ==
    ASSUME KcInv, NEW c \in Callers, Answered(c) PROVE KcInv'
<1>1. /\ caller[c].pc = "fetch"
      /\ UNCHANGED <<style, time, published, changed, failed, cache, stamp, until, token, lock, events>>
  BY DEF Answered
<1>2. /\ caller[c] \in CallerRecs /\ caller[c].kid \in Kids /\ CallerOK(c, caller[c])
      /\ (style # "teams" => caller[c].at = 1) /\ caller[c].since \in Int
  BY <1>1, CallerHas DEF CallerRecs
<1>3. time \in Int
  BY DEF KcInv, KcTypes
<1> DEFINE h == IF style \in Minting THEN time ELSE NotYet
           g == {k \in published : AnchorOf(k) = caller[c].at}
           r == [caller[c] EXCEPT !.pc = "got", !.heard = h, !.got = g]
<1>4. h \in Int /\ g \in SUBSET Kids
  BY <1>3, KcNumbers DEF KcInv, KcTypes
<1>5. caller' = [caller EXCEPT ![c] = r]
  BY DEF Answered, Becomes
<1>6. (style \in Minting => h = time) /\ RightSince(g, caller[c].at, caller[c].since)
      /\ \A k \in g : AnchorOf(k) = caller[c].at
  BY DEF RightSince
<1> HIDE DEF h, g
<1>7. /\ r \in CallerRecs /\ r.pc = "got" /\ r.kid = caller[c].kid /\ r.came = caller[c].came
      /\ r.at = caller[c].at /\ r.since = caller[c].since /\ r.err = caller[c].err
      /\ r.heard = h /\ r.got = g
  BY <1>2, <1>4 DEF CallerRecs
<1> HIDE DEF r
<1>8. TimesOK(r) /\ LeaderOK(c, r) /\ SecondOK(r)
  BY <1>1, <1>2, <1>7 DEF CallerOK, TimesOK, LeaderOK, SecondOK
<1>9. GotOK(r)
  BY <1>1, <1>2, <1>3, <1>6, <1>7 DEF GotOK, CallerOK, TimesOK
<1>10. CallerOK(c, r)
  BY <1>2, <1>7, <1>8, <1>9 DEF CallerOK
<1> QED BY <1>1, <1>5, <1>7, <1>10, CallerMoves

\* Lemma: so does a fetch that fails.
LEMMA FailKeeps ==
    ASSUME KcInv, NEW c \in Callers, FetchFailed(c) PROVE KcInv'
<1>1. /\ caller[c].pc \in {"fetch", "second"} /\ failed' = time /\ lock' = Unlocked(c)
      /\ UNCHANGED <<style, time, published, changed, cache, stamp, until, token>>
  BY DEF FetchFailed
<1>2. caller[c] \in CallerRecs /\ caller[c].kid \in Kids /\ CallerOK(c, caller[c])
  BY <1>1, CallerHas
<1>3. time \in Nat /\ time \in Int
  BY DEF KcInv, KcTypes
<1>4. \E r : CallerOK(c, r) /\ caller' = [caller EXCEPT ![c] = r] /\ r.pc \notin {"fetch", "got"}
  <2>1. CASE style = "teams"
    <3>1. caller' = [caller EXCEPT ![c] = NextAnchor(c, TRUE)]
      BY <2>1 DEF FetchFailed, Becomes
    <3>2. CallerOK(c, NextAnchor(c, TRUE))
      BY <1>2, <2>1, NextOK
    <3>3. NextAnchor(c, TRUE).pc \in {"lock", "failed", "refused"}
      BY <1>2, <2>1, NextOK
    <3> QED BY <3>1, <3>2, <3>3
  <2>2. CASE style # "teams"
    <3>1. \E v \in {"refused", "failed"} : caller' = [caller EXCEPT ![c] = Over(c, v)]
      BY <2>2 DEF FetchFailed, Becomes
    <3>2. PICK v \in {"refused", "failed"} : caller' = [caller EXCEPT ![c] = Over(c, v)]
      BY <3>1
    <3>3. CallerOK(c, Over(c, v)) /\ Over(c, v).pc = v
      BY <1>2, OverOK, OverRecord
    <3> QED BY <3>2, <3>3
  <2> QED BY <2>1, <2>2
<1>5. PICK r : CallerOK(c, r) /\ caller' = [caller EXCEPT ![c] = r] /\ r.pc \notin {"fetch", "got"}
  BY <1>4
<1>6. caller'[c] = r /\ \A d \in Callers \ {c} : caller'[d] = caller[d]
  BY <1>5 DEF KcInv, KcTypes
<1>7. KcCallers' /\ lock' \in [{1, 2} -> Callers \cup {NoOne}]
  BY <1>1, <1>5, OthersStay
<1>8. KcTypes'
  BY <1>1, <1>3, <1>5, <1>7 DEF KcInv, KcTypes, CallerOK
<1>9. KcCache' /\ KcUntil' /\ KcToken'
  BY <1>1 DEF KcInv, KcCache, KcUntil, KcToken, RightSince, AnchorOf
<1>10. KcStamp'
  BY <1>1 DEF KcInv, KcTypes, KcStamp
<1> QED BY <1>7, <1>8, <1>9, <1>10 DEF KcInv

\* Lemma: so does a client that hangs up: an attempt that it leaves noted is
\* one that was cut off.
LEMMA HangUpKeeps ==
    ASSUME KcInv, NEW c \in Callers, HangUp(c) PROVE KcInv'
<1>1. /\ caller' = [caller EXCEPT ![c] = NoCaller] /\ lock' = Unlocked(c)
      /\ failed' = (IF style = "oidc" /\ caller[c].pc \in {"fetch", "got"} THEN time ELSE failed)
      /\ UNCHANGED <<style, time, published, changed, cache, stamp, until, token>>
  BY DEF HangUp, Becomes
<1>2. NoCaller.pc = "idle" /\ CallerOK(c, NoCaller)
  BY IdleOK, NewRecord
<1>3. caller'[c] = NoCaller /\ \A d \in Callers \ {c} : caller'[d] = caller[d]
  BY <1>1 DEF KcInv, KcTypes
<1>4. KcCallers' /\ lock' \in [{1, 2} -> Callers \cup {NoOne}]
  BY <1>1, <1>2, OthersStay
<1>5. KcTypes'
  BY <1>1, <1>2, <1>4 DEF KcInv, KcTypes, CallerOK
<1>6. KcCache' /\ KcUntil' /\ KcToken'
  BY <1>1 DEF KcInv, KcCache, KcUntil, KcToken, RightSince, AnchorOf
<1>7. KcStamp'
  <2>1. CASE style = "oidc" /\ caller[c].pc \in {"fetch", "got"}
    BY <1>1, <2>1 DEF KcInv, KcTypes, KcStamp
  <2>2. CASE ~(style = "oidc" /\ caller[c].pc \in {"fetch", "got"})
    BY <1>1, <1>3, <2>2 DEF KcInv, KcStamp, Leads
  <2> QED BY <2>1, <2>2
<1> QED BY <1>4, <1>5, <1>6, <1>7 DEF KcInv

\* Lemma: so does a key set that replaces the cached one: it was right after
\* the request was sent, at most Timeout ago.
LEMMA InstallKeeps ==
    ASSUME KcInv, NEW c \in Callers, InstallKeys(c) PROVE KcInv'
<1>1. /\ caller[c].pc = "got" /\ style \in {"oidc", "teams", "google"} /\ lock' = Unlocked(c)
      /\ UNCHANGED <<style, time, published, changed, failed, stamp, until, token>>
  BY DEF InstallKeys
<1>2. /\ caller[c] \in CallerRecs /\ caller[c].kid \in Kids /\ CallerOK(c, caller[c])
      /\ caller[c].at \in {1, 2} /\ caller[c].since \in Int /\ caller[c].err \in BOOLEAN
      /\ caller[c].got \in SUBSET Kids /\ (style # "teams" => caller[c].at = 1) /\ caller[c].came \in Int
  BY <1>1, CallerHas DEF CallerRecs
<1>3. time \in Nat /\ time \in Int
  BY DEF KcInv, KcTypes
<1>4. /\ RightSince(caller[c].got, caller[c].at, caller[c].since)
      /\ \A k \in caller[c].got : AnchorOf(k) = caller[c].at
      /\ caller[c].came <= caller[c].since /\ time <= caller[c].since + Timeout /\ caller[c].since <= time
  BY <1>1, <1>2 DEF CallerOK, GotOK, TimesOK
<1>5. \E r : CallerOK(c, r) /\ caller' = [caller EXCEPT ![c] = r] /\ r.pc \notin {"fetch", "got"}
  <2>1. CASE style = "teams" /\ caller[c].kid \notin caller[c].got
    <3>1. caller' = [caller EXCEPT ![c] = NextAnchor(c, caller[c].err)]
      BY <2>1 DEF InstallKeys, Becomes, FromAnchor
    <3>2. ASSUME caller[c].at = 1, caller[c].kid \in published, AnchorOf(caller[c].kid) = 1
          PROVE  caller[c].came < changed[caller[c].kid] + TTL + Timeout
      <4>1. caller[c].since <= changed[caller[c].kid]
        BY <1>2, <1>4, <2>1, <3>2 DEF RightSince
      <4>2. changed[caller[c].kid] \in Int
        BY <1>2 DEF KcInv, KcTypes
      <4> QED BY <1>2, <1>4, <4>1, <4>2, KcNumbers
    <3>3. CallerOK(c, NextAnchor(c, caller[c].err))
      BY <1>2, <2>1, <3>2, NextOK
    <3>4. NextAnchor(c, caller[c].err).pc \in {"lock", "failed", "refused"}
      BY <1>2, <2>1, <3>2, NextOK
    <3> QED BY <3>1, <3>3, <3>4
  <2>2. CASE ~(style = "teams" /\ caller[c].kid \notin caller[c].got)
    <3>1. \E v \in {"ok", "refused"} : caller' = [caller EXCEPT ![c] = Over(c, v)]
      BY <2>2 DEF InstallKeys, Becomes, Verdict, FromAnchor
    <3>2. PICK v \in {"ok", "refused"} : caller' = [caller EXCEPT ![c] = Over(c, v)]
      BY <3>1
    <3>3. CallerOK(c, Over(c, v)) /\ Over(c, v).pc = v
      BY <1>2, OverOK, OverRecord
    <3> QED BY <3>2, <3>3
  <2> QED BY <2>1, <2>2
<1>6. PICK r : CallerOK(c, r) /\ caller' = [caller EXCEPT ![c] = r] /\ r.pc \notin {"fetch", "got"}
  BY <1>5
<1>7. caller'[c] = r /\ \A d \in Callers \ {c} : caller'[d] = caller[d]
  BY <1>6 DEF KcInv, KcTypes
<1>8. KcCallers' /\ lock' \in [{1, 2} -> Callers \cup {NoOne}]
  BY <1>1, <1>6, OthersStay
<1> DEFINE n == [keys |-> caller[c].got, at |-> IF style = "oidc" THEN NotYet ELSE time]
<1>9. cache' = [cache EXCEPT ![caller[c].at] = n]
  BY DEF InstallKeys
<1>10. /\ n \in [keys : SUBSET Kids, at : Int] /\ n.at <= time /\ n.keys = caller[c].got
       /\ (style # "oidc" => n.at = time)
  BY <1>2, <1>3, KcNumbers
<1> HIDE DEF n
<1>11. cache'[caller[c].at] = n /\ \A a \in {1, 2} : a # caller[c].at => cache'[a] = cache[a]
  BY <1>2, <1>9 DEF KcInv, KcTypes
<1>12. KcTypes'
  BY <1>1, <1>2, <1>3, <1>6, <1>8, <1>9, <1>10, <1>11 DEF KcInv, KcTypes, CallerOK
<1>13. KcCache'
  <2> SUFFICES ASSUME style \in {"teams", "google"}, NEW a \in {1, 2}
               PROVE  /\ RightSince(cache'[a].keys, a, cache'[a].at - Timeout)
                      /\ \A k \in cache'[a].keys : AnchorOf(k) = a
    BY <1>1 DEF KcCache, RightSince, AnchorOf
  <2>1. CASE a = caller[c].at
    <3>1. cache'[a].keys = caller[c].got /\ cache'[a].at = time
      BY <1>10, <1>11, <2>1
    <3>2. \A k \in Kids : caller[c].since <= changed[k] => time - Timeout <= changed[k]
      BY <1>2, <1>3, <1>4, KcNumbers DEF KcInv, KcTypes
    <3> QED BY <1>4, <2>1, <3>1, <3>2 DEF RightSince
  <2>2. CASE a # caller[c].at
    BY <1>11, <2>2 DEF KcInv, KcCache
  <2> QED BY <2>1, <2>2
<1>14. KcUntil' /\ KcToken'
  BY <1>1 DEF KcInv, KcUntil, KcToken
<1>15. KcStamp'
  <2> SUFFICES ASSUME style = "oidc", NEW k \in published \ cache'[1].keys
               PROVE  stamp[k] <= changed[k]
    BY <1>1 DEF KcStamp
  <2>1. k \in Kids /\ k \notin caller[c].got /\ AnchorOf(k) = 1 /\ caller[c].at = 1
    BY <1>2, <1>10, <1>11 DEF KcInv, KcTypes, AnchorOf
  <2>2. caller[c].since <= changed[k]
    BY <1>4, <2>1 DEF RightSince
  <2>3. stamp[k] <= caller[c].since
    BY <1>1, <1>2, <2>1 DEF CallerOK, LeaderOK
  <2>4. stamp[k] \in Int /\ changed[k] \in Int
    BY <2>1 DEF KcInv, KcTypes
  <2> QED BY <1>2, <2>2, <2>3, <2>4
<1> QED BY <1>8, <1>12, <1>13, <1>14, <1>15 DEF KcInv

\* Lemma: so does a token that replaces the last one, and it has not
\* expired.
LEMMA TokenKeeps ==
    ASSUME KcInv, NEW c \in Callers, InstallToken(c) PROVE KcInv' /\ time < token'.exp
<1>1. /\ caller[c].pc = "got" /\ style \in Minting /\ lock' = Unlocked(c)
      /\ caller' = [caller EXCEPT ![c] = Over(c, "ok")]
      /\ UNCHANGED <<style, time, published, changed, failed, cache, stamp, until>>
  BY DEF InstallToken, Verdict, Becomes
<1>2. /\ caller[c] \in CallerRecs /\ caller[c].kid \in Kids /\ CallerOK(c, caller[c])
      /\ caller[c].since \in Int /\ caller[c].heard \in Int
  BY <1>1, CallerHas DEF CallerRecs
<1>3. time \in Nat /\ time \in Int
  BY DEF KcInv, KcTypes
<1>4. time <= caller[c].since + Timeout /\ caller[c].since <= caller[c].heard /\ caller[c].heard <= time
  BY <1>1, <1>2 DEF CallerOK, GotOK, TimesOK
<1> DEFINE exp == caller[c].heard + Life
           life == IF style = "mint" THEN Life ELSE exp - time
<1>5. token' = [exp |-> exp, refresh |-> time + Max({life - Lead, 1})]
  BY DEF InstallToken, RefreshAt
<1>6. exp \in Int /\ life \in Int
  BY <1>2, <1>3, KcNumbers
<1>7. Max({life - Lead, 1}) = IF life - Lead >= 1 THEN life - Lead ELSE 1
  BY <1>6, KcNumbers, MaxOfTwo
<1>8. token'.exp = exp /\ token'.refresh \in Int /\ token'.refresh <= exp /\ time < exp
      /\ token' \in [exp : Int, refresh : Int]
  <2> DEFINE m == Max({life - Lead, 1})
  <2>1. m \in Int /\ time + m <= exp /\ time < exp
    BY <1>2, <1>3, <1>4, <1>6, <1>7, KcNumbers, KcConstants
  <2> HIDE DEF m, exp
  <2> QED BY <1>3, <1>5, <1>6, <2>1 DEF m
<1>9. CallerOK(c, Over(c, "ok")) /\ Over(c, "ok").pc = "ok"
  BY <1>2, OverOK, OverRecord
<1>10. KcCallers' /\ lock' \in [{1, 2} -> Callers \cup {NoOne}]
  BY <1>1, <1>9, OthersStay
<1>11. KcTypes'
  BY <1>1, <1>8, <1>9, <1>10 DEF KcInv, KcTypes, CallerOK
<1>12. KcCache' /\ KcUntil'
  BY <1>1 DEF KcInv, KcCache, KcUntil, RightSince, AnchorOf
<1>13. KcToken'
  BY <1>8 DEF KcToken
<1>14. KcStamp'
  BY <1>1 DEF KcStamp, Minting
<1> QED BY <1>8, <1>10, <1>11, <1>12, <1>13, <1>14 DEF KcInv

\* Lemma: asking userinfo keeps the invariant: tokeninfo was right at most
\* Timeout ago.
LEMMA AskKeeps ==
    ASSUME KcInv, NEW c \in Callers, AskUserInfo(c) PROVE KcInv'
<1>1. /\ caller[c].pc = "got" /\ style = "access" /\ caller[c].kid \in caller[c].got /\ time < Expiry
      /\ UNCHANGED <<style, time, published, changed, failed, cache, stamp, until, token, lock, events>>
  BY DEF AskUserInfo
<1>2. /\ caller[c] \in CallerRecs /\ caller[c].kid \in Kids /\ CallerOK(c, caller[c])
      /\ caller[c].at = 1 /\ caller[c].since \in Int /\ caller[c].came \in Int
  BY <1>1, CallerHas DEF CallerRecs
<1>3. time \in Nat /\ time \in Int
  BY DEF KcInv, KcTypes
<1> DEFINE r == [caller[c] EXCEPT !.pc = "second", !.since = time, !.heard = time]
<1>4. caller' = [caller EXCEPT ![c] = r]
  BY DEF AskUserInfo, Becomes
<1>5. /\ r \in CallerRecs /\ r.pc = "second" /\ r.kid = caller[c].kid /\ r.came = caller[c].came
      /\ r.at = caller[c].at /\ r.since = time /\ r.heard = time
  BY <1>2, <1>3 DEF CallerRecs
<1> HIDE DEF r
<1>6. time <= caller[c].since + Timeout /\ caller[c].came <= caller[c].since /\ caller[c].since <= time
  BY <1>1, <1>2 DEF CallerOK, TimesOK
<1>7. TimesOK(r)
  BY <1>2, <1>3, <1>5, <1>6, KcNumbers DEF TimesOK
<1>8. GotOK(r)
  <2>1. ASSUME r.kid \notin published PROVE time <= changed[r.kid] + Timeout
    <3>1. AnchorOf(r.kid) = 1
      BY <1>1 DEF AnchorOf
    <3>2. caller[c].since <= changed[r.kid]
      BY <1>1, <1>2, <1>5, <2>1, <3>1 DEF CallerOK, GotOK, RightSince
    <3>3. changed[r.kid] \in Int
      BY <1>2, <1>5 DEF KcInv, KcTypes
    <3> QED BY <1>2, <1>3, <1>6, <3>2, <3>3, KcNumbers
  <2> QED BY <1>1, <1>5, <2>1 DEF GotOK
<1>9. SecondOK(r) /\ LeaderOK(c, r)
  BY <1>5 DEF SecondOK, LeaderOK
<1>10. CallerOK(c, r)
  BY <1>2, <1>5, <1>7, <1>8, <1>9 DEF CallerOK
<1> QED BY <1>1, <1>4, <1>10, CallerMoves

\* Lemma: so does an access token that is refused, and a caller that is done.
LEMMA RefuseKeeps ==
    ASSUME KcInv, NEW c \in Callers, RefuseAccess(c) \/ Rest(c) PROVE KcInv'
<1>1. CASE RefuseAccess(c)
  <2>1. /\ caller[c].pc \in {"got", "second"} /\ style = "access"
        /\ caller' = [caller EXCEPT ![c] = Over(c, "refused")]
        /\ UNCHANGED <<style, time, published, changed, failed, cache, stamp, until, token, lock, events>>
    BY <1>1 DEF RefuseAccess, Verdict, Becomes
  <2>2. CallerOK(c, Over(c, "refused"))
    BY <2>1, CallerHas, OverOK
  <2> QED BY <2>1, <2>2, CallerMoves
<1>2. CASE Rest(c)
  <2>1. /\ caller[c].pc \notin {"fetch", "got"} /\ caller' = [caller EXCEPT ![c] = NoCaller]
        /\ UNCHANGED <<style, time, published, changed, failed, cache, stamp, until, token, lock, events>>
    BY <1>2 DEF Rest, Becomes
  <2> QED BY <2>1, IdleOK, CallerMoves
<1> QED BY <1>1, <1>2

\* Lemma: what is known of an access token that is about to be accepted.
LEMMA AccessHas ==
    ASSUME KcInv, NEW c \in Callers, CacheAccess(c)
    PROVE  /\ caller[c].kid \in Kids /\ time < Expiry + Timeout + 1
           /\ caller[c].pc = "got" => time < Expiry
           /\ caller[c].pc = "second" => caller[c].heard \in Int /\ caller[c].heard <= time
                                         /\ time <= caller[c].heard + Timeout /\ caller[c].heard < Expiry
           /\ caller[c].kid \notin published => time <= changed[caller[c].kid] + 2 * Timeout
<1>1. /\ style = "access" /\ caller[c].pc \in {"second", "got"}
      /\ caller[c].pc = "got" => caller[c].kid \in caller[c].got /\ time < Expiry
  BY DEF CacheAccess
<1>2. /\ caller[c] \in CallerRecs /\ caller[c].kid \in Kids /\ CallerOK(c, caller[c])
      /\ caller[c].at = 1 /\ caller[c].since \in Int /\ caller[c].heard \in Int
  BY <1>1, CallerHas DEF CallerRecs
<1>3. time \in Int /\ changed[caller[c].kid] \in Int
  BY <1>2 DEF KcInv, KcTypes
<1>4. CASE caller[c].pc = "got"
  <2>1. time <= caller[c].since + Timeout
    BY <1>2, <1>4 DEF CallerOK, TimesOK
  <2>2. caller[c].kid \notin published => caller[c].since <= changed[caller[c].kid]
    BY <1>1, <1>2, <1>4 DEF CallerOK, GotOK, RightSince, AnchorOf
  <2> QED BY <1>1, <1>2, <1>3, <1>4, <2>1, <2>2, KcNumbers
<1>5. CASE caller[c].pc = "second"
  <2>1. /\ time <= caller[c].since + Timeout /\ caller[c].since <= time
        /\ caller[c].heard = caller[c].since /\ caller[c].heard < Expiry
        /\ caller[c].kid \notin published => caller[c].since <= changed[caller[c].kid] + Timeout
    BY <1>2, <1>5 DEF CallerOK, TimesOK, GotOK
  <2> QED BY <1>1, <1>2, <1>3, <1>5, <2>1, KcNumbers
<1> QED BY <1>1, <1>4, <1>5

\* Lemma: caching an answer of tokeninfo keeps the invariant.
LEMMA CacheKeeps ==
    ASSUME KcInv, NEW c \in Callers, CacheAccess(c) PROVE KcInv'
<1>1. /\ style = "access" /\ caller[c].pc \in {"second", "got"}
      /\ caller' = [caller EXCEPT ![c] = Over(c, "ok")]
      /\ UNCHANGED <<style, time, published, changed, failed, cache, stamp, token, lock>>
  BY DEF CacheAccess, Verdict, Becomes
<1>2. CallerOK(c, Over(c, "ok")) /\ Over(c, "ok").pc = "ok"
  BY <1>1, CallerHas, OverOK, OverRecord
<1>3. time \in Int /\ changed \in [Kids -> Int] /\ until \in [Kids -> Int] /\ caller[c].kid \in Kids
  BY AccessHas DEF KcInv, KcTypes
<1>4. KcCallers'
  BY <1>1, <1>2, OthersStay
<1> DEFINE read == IF caller[c].pc = "second" THEN caller[c].heard ELSE time
           left == Min({Expiry - read, TTL})
<1>5. until' = [k \in Kids |-> IF k = caller[c].kid /\ Cardinality(Live) < AccessCap
                               THEN time + left
                               ELSE IF k \in Live THEN until[k] ELSE NotYet]
  BY DEF CacheAccess
<1>6. read \in Int /\ time <= read + Timeout
  BY <1>1, <1>3, AccessHas, KcNumbers
<1> HIDE DEF read
<1>7. left = IF Expiry - read <= TTL THEN Expiry - read ELSE TTL
  BY <1>6, KcNumbers, MinOfTwo
<1>8. left \in Int /\ time + left <= Expiry + Timeout /\ left <= TTL
  BY <1>3, <1>6, <1>7, KcNumbers
<1> HIDE DEF left
<1>9. /\ until' \in [Kids -> Int]
      /\ \A k \in Kids : \/ until'[k] = until[k] \/ until'[k] = NotYet
                         \/ k = caller[c].kid /\ until'[k] = time + left
  BY <1>3, <1>5, <1>8, KcNumbers
<1>10. KcTypes'
  BY <1>1, <1>2, <1>9 DEF KcInv, KcTypes, CallerOK
<1>11. KcUntil'
  <2> SUFFICES ASSUME NEW k \in Kids
               PROVE  /\ until'[k] <= Expiry + Timeout /\ until'[k] <= time + TTL
                      /\ k \notin published => until'[k] <= changed[k] + TTL + 2 * Timeout
    BY <1>1, <1>3 DEF KcUntil
  <2>0. changed[k] \in Int /\ NotYet <= changed[k] /\ time \in Nat
    BY DEF KcInv, KcTypes
  <2>1. CASE until'[k] = until[k]
    BY <1>1, <2>1 DEF KcInv, KcUntil
  <2>2. CASE until'[k] = NotYet
    BY <1>3, <2>0, <2>2, KcNumbers
  <2>3. CASE k = caller[c].kid /\ until'[k] = time + left
    <3>1. k \notin published => time <= changed[k] + 2 * Timeout
      BY <2>3, AccessHas
    <3> QED BY <1>3, <1>8, <2>0, <2>3, <3>1, KcNumbers
  <2> QED BY <1>9, <2>1, <2>2, <2>3
<1>12. KcCache' /\ KcToken'
  BY <1>1 DEF KcInv, KcCache, KcToken
<1>13. KcStamp'
  BY <1>1 DEF KcStamp
<1> QED BY <1>4, <1>10, <1>11, <1>12, <1>13 DEF KcInv

\* Lemma: keys that are published or withdrawn keep the invariant: what was
\* right before stays so, or has just changed.
LEMMA PublishKeeps ==
    ASSUME KcInv, NEW ks \in SUBSET Kids, Publish(ks) PROVE KcInv'
<1>1. /\ published' = ks
      /\ changed' = [k \in Kids |-> IF (k \in ks) = (k \in published) THEN changed[k] ELSE time]
      /\ UNCHANGED <<style, time, failed, cache, stamp, until, token, lock, caller>>
  BY DEF Publish
<1>2. time \in Nat /\ time \in Int /\ changed \in [Kids -> Int] /\ published \subseteq Kids
      /\ \A k \in Kids : NotYet <= changed[k] /\ changed[k] <= time
  BY DEF KcInv, KcTypes
<1>3. \A k \in Kids : changed'[k] \in Int /\ changed[k] <= changed'[k] /\ changed'[k] <= time
                      /\ (~(k \in ks <=> k \in published) => changed'[k] = time)
                      /\ ((k \in ks <=> k \in published) => changed'[k] = changed[k])
  BY <1>1, <1>2
<1>4. KcTypes'
  <2>1. changed' \in [Kids -> Int]
    BY <1>1, <1>2
  <2>2. \A k \in Kids : NotYet <= changed'[k] /\ changed'[k] <= time
    BY <1>2, <1>3, KcNumbers
  <2> QED BY <1>1, <2>1, <2>2 DEF KcInv, KcTypes, NotYet
<1>5. ASSUME NEW keys, NEW a, NEW t \in Int, t <= time, RightSince(keys, a, t)
      PROVE  RightSince(keys, a, t)'
  <2> SUFFICES ASSUME NEW k \in Kids, AnchorOf(k)' = a, ~(k \in keys <=> k \in ks) PROVE t <= changed'[k]
    BY <1>1 DEF RightSince
  <2>1. AnchorOf(k) = a
    BY <1>1 DEF AnchorOf
  <2>2. CASE k \in ks <=> k \in published
    BY <1>3, <1>5, <2>1, <2>2 DEF RightSince
  <2>3. CASE ~(k \in ks <=> k \in published)
    BY <1>3, <1>5, <2>3
  <2> QED BY <2>2, <2>3
<1>6. KcCallers'
  <2> SUFFICES ASSUME NEW d \in Callers PROVE CallerOK(d, caller[d])'
    BY DEF KcCallers
  <2>1. /\ CallerOK(d, caller[d]) /\ caller'[d] = caller[d] /\ caller[d] \in CallerRecs
        /\ caller[d].since \in Int /\ caller[d].came \in Int
        /\ caller[d].came <= time /\ caller[d].since <= time
    BY <1>1, CallerHas DEF CallerRecs, CallerOK, TimesOK
  <2> DEFINE r == caller[d]
  <2>2. GotOK(caller[d])'
    <3>1. ASSUME r.pc = "got"
          PROVE  /\ RightSince(r.got, r.at, r.since)' /\ \A k \in r.got : AnchorOf(k)' = r.at
                 /\ style \in Minting => r.since <= r.heard /\ r.heard <= time
      BY <1>1, <1>5, <2>1, <3>1 DEF CallerOK, GotOK, AnchorOf
    <3>2. ASSUME r.pc = "second"
          PROVE  /\ style = "access" /\ r.heard = r.since /\ r.heard < Expiry
                 /\ r.kid \notin ks => r.since <= changed'[r.kid] + Timeout
      <4>1. r.kid \in Kids /\ (r.kid \notin published => r.since <= changed[r.kid] + Timeout)
        BY <2>1, <3>2 DEF CallerOK, GotOK
      <4>2. r.kid \notin ks => r.since <= changed'[r.kid] + Timeout
        BY <1>2, <1>3, <2>1, <4>1, KcNumbers
      <4> QED BY <2>1, <3>2, <4>2 DEF CallerOK, GotOK
    <3> QED BY <1>1, <2>1, <3>1, <3>2 DEF GotOK, Expiry
  <2>3. SecondOK(caller[d])'
    <3> SUFFICES ASSUME style = "teams", r.pc \in {"lock", "fetch", "got"}, r.at = 2, ~r.err,
                        r.kid \in ks, AnchorOf(r.kid) = 1
                 PROVE  r.came < changed'[r.kid] + TTL + Timeout
      BY <1>1, <2>1 DEF SecondOK, AnchorOf
    <3>1. r.kid \in Kids
      BY <2>1 DEF CallerOK
    <3>2. CASE r.kid \in published
      <4>1. r.came < changed[r.kid] + TTL + Timeout
        BY <2>1, <3>2 DEF CallerOK, SecondOK
      <4> QED BY <1>2, <1>3, <2>1, <3>1, <4>1, KcNumbers
    <3>3. CASE r.kid \notin published
      BY <1>2, <1>3, <2>1, <3>1, <3>3, KcNumbers
    <3> QED BY <3>2, <3>3
  <2>4. TimesOK(caller[d])' /\ LeaderOK(d, caller[d])'
    BY <1>1, <2>1 DEF CallerOK, TimesOK, LeaderOK
  <2> QED BY <1>1, <2>1, <2>2, <2>3, <2>4 DEF CallerOK
<1>7. KcCache'
  <2> SUFFICES ASSUME style \in {"teams", "google"}, NEW a \in {1, 2}
               PROVE  /\ RightSince(cache[a].keys, a, cache[a].at - Timeout)'
                      /\ \A k \in cache[a].keys : AnchorOf(k)' = a
    BY <1>1 DEF KcCache, RightSince, AnchorOf
  <2>1. cache[a].at - Timeout \in Int /\ cache[a].at - Timeout <= time
    BY <1>2, KcNumbers DEF KcInv, KcTypes
  <2>2. RightSince(cache[a].keys, a, cache[a].at - Timeout) /\ \A k \in cache[a].keys : AnchorOf(k) = a
    BY DEF KcInv, KcCache
  <2> QED BY <1>1, <1>5, <2>1, <2>2 DEF AnchorOf, RightSince
<1>8. KcUntil'
  <2> SUFFICES ASSUME style = "access", NEW k \in Kids
               PROVE  /\ until[k] <= Expiry + Timeout /\ until[k] <= time + TTL
                      /\ k \notin ks => until[k] <= changed'[k] + TTL + 2 * Timeout
    BY <1>1 DEF KcUntil, Expiry
  <2>1. /\ until[k] <= Expiry + Timeout /\ until[k] <= time + TTL /\ until[k] \in Int
        /\ k \notin published => until[k] <= changed[k] + TTL + 2 * Timeout
    BY DEF KcInv, KcUntil, KcTypes
  <2> QED BY <1>2, <1>3, <2>1, KcNumbers
<1>9. KcToken'
  BY <1>1 DEF KcInv, KcToken
<1>10. KcStamp'
  <2> SUFFICES ASSUME style = "oidc", NEW k \in ks \ cache[1].keys
               PROVE  stamp[k] <= changed'[k] \/ stamp[k] <= failed \/ \E l \in Callers : Leads(l, k)
    BY <1>1 DEF KcStamp, Leads
  <2>1. stamp[k] \in Int /\ stamp[k] <= time /\ k \in Kids
    BY DEF KcInv, KcTypes
  <2>2. CASE k \in published
    BY <1>3, <2>1, <2>2 DEF KcInv, KcStamp
  <2>3. CASE k \notin published
    BY <1>3, <2>1, <2>3
  <2> QED BY <2>2, <2>3
<1> QED BY <1>4, <1>6, <1>7, <1>8, <1>9, <1>10 DEF KcInv

\* Lemma: so does the clock, which waits for a request that is due.
LEMMA TimeKeeps == ASSUME KcInv, TimePasses PROVE KcInv'
<1>1. /\ time' = time + 1
      /\ UNCHANGED <<style, published, changed, failed, cache, stamp, until, token, lock, caller>>
      /\ \A c \in Callers : caller[c].pc \in {"fetch", "got", "second"} => time < caller[c].since + Timeout
  BY DEF TimePasses
<1>2. time \in Nat /\ time \in Int
  BY DEF KcInv, KcTypes
<1>3. KcTypes'
  BY <1>1, <1>2, KcNumbers DEF KcInv, KcTypes, NotYet
<1>4. KcCallers'
  <2> SUFFICES ASSUME NEW d \in Callers PROVE CallerOK(d, caller[d])'
    BY DEF KcCallers
  <2>1. /\ CallerOK(d, caller[d]) /\ caller'[d] = caller[d] /\ caller[d] \in CallerRecs
        /\ caller[d].since \in Int /\ caller[d].came \in Int /\ caller[d].heard \in Int
    BY <1>1, CallerHas DEF CallerRecs
  <2>2. TimesOK(caller[d])'
    BY <1>1, <1>2, <2>1, KcNumbers DEF CallerOK, TimesOK
  <2>3. GotOK(caller[d])'
    BY <1>1, <1>2, <2>1 DEF CallerOK, GotOK, RightSince, AnchorOf, Expiry
  <2>4. SecondOK(caller[d])' /\ LeaderOK(d, caller[d])'
    BY <1>1, <2>1 DEF CallerOK, SecondOK, LeaderOK, AnchorOf
  <2> QED BY <1>1, <2>1, <2>2, <2>3, <2>4 DEF CallerOK
<1>5. KcCache' /\ KcToken' /\ KcStamp'
  BY <1>1 DEF KcInv, KcCache, KcToken, KcStamp, RightSince, AnchorOf, Leads
<1>6. KcUntil'
  BY <1>1, <1>2, KcNumbers DEF KcInv, KcUntil, KcTypes, Expiry
<1> QED BY <1>3, <1>4, <1>5, <1>6 DEF KcInv

\* Lemma: the invariant holds at first.
LEMMA KcStarts == KcInit => KcInv
<1> SUFFICES ASSUME KcInit PROVE KcInv
  OBVIOUS
<1>1. time = 0 /\ lock = [a \in {1, 2} |-> NoOne] /\ caller = [c \in Callers |-> NoCaller]
      /\ style \in Styles
  BY DEF KcInit
<1>2. style \in {"oidc", "teams", "google", "access", "mint", "wif"} /\ published \subseteq Kids
  BY KcConstants DEF KcInit
<1>3. KcTypes
  <2>1. changed \in [Kids -> Int] /\ \A k \in Kids : NotYet <= changed[k] /\ changed[k] <= time
    BY <1>1, KcNumbers DEF KcInit
  <2>2. stamp \in [Kids -> Int] /\ \A k \in Kids : stamp[k] <= time
    BY <1>1, KcNumbers DEF KcInit
  <2>3. cache \in [{1, 2} -> [keys : SUBSET Kids, at : Int]] /\ \A a \in {1, 2} : cache[a].at <= time
    BY <1>1, KcNumbers DEF KcInit
  <2>4. until \in [Kids -> Int] /\ token \in [exp : Int, refresh : Int] /\ failed \in Int /\ failed <= time
    BY <1>1, KcNumbers DEF KcInit
  <2> QED BY <1>1, <1>2, <2>1, <2>2, <2>3, <2>4, NewRecord DEF KcTypes
<1>4. KcCallers
  <2> SUFFICES ASSUME NEW c \in Callers PROVE CallerOK(c, NoCaller)
    BY <1>1 DEF KcCallers
  <2>1. TimesOK(NoCaller)
    <3>1. NotYet <= time
      BY <1>1, KcNumbers
    <3> QED BY <3>1, NewRecord DEF TimesOK
  <2>2. GotOK(NoCaller) /\ SecondOK(NoCaller) /\ LeaderOK(c, NoCaller)
    BY NewRecord DEF GotOK, SecondOK, LeaderOK
  <2> QED BY <2>1, <2>2, NewRecord DEF CallerOK
<1>5. KcCache
  <2> SUFFICES ASSUME NEW a \in {1, 2}
               PROVE  RightSince({}, a, NotYet - Timeout)
    BY DEF KcCache, KcInit
  <2> SUFFICES ASSUME NEW k \in Kids PROVE NotYet - Timeout <= changed[k]
    BY DEF RightSince
  <2>1. changed[k] = NotYet
    BY DEF KcInit
  <2> QED BY <2>1, KcNumbers
<1>6. KcUntil
  <2> SUFFICES ASSUME NEW k \in Kids
               PROVE  /\ until[k] <= Expiry + Timeout /\ until[k] <= time + TTL
                      /\ k \notin published => until[k] <= changed[k] + TTL + 2 * Timeout
    BY DEF KcUntil
  <2>1. until[k] = NotYet /\ changed[k] = NotYet
    BY DEF KcInit
  <2> QED BY <1>1, <2>1, KcNumbers
<1>7. KcToken
  BY KcNumbers DEF KcToken, KcInit
<1>8. KcStamp
  <2>1. \A k \in published : stamp[k] = NotYet /\ changed[k] = NotYet
    BY <1>2 DEF KcInit
  <2> QED BY <2>1, KcNumbers DEF KcStamp
<1> QED BY <1>3, <1>4, <1>5, <1>6, <1>7, <1>8 DEF KcInv

\* Lemma: and after every step.
LEMMA KcKeeps == KcInv /\ [KcNext]_kcVars => KcInv'
<1> SUFFICES ASSUME KcInv, [KcNext]_kcVars PROVE KcInv'
  OBVIOUS
<1>1. ASSUME NEW c \in Callers, NEW k \in Kids, Lookup(c, k) PROVE KcInv'
  BY <1>1, LookupKeeps
<1>2. ASSUME NEW c \in Callers, LockedHit(c) \/ LockedMiss(c) \/ Answered(c) \/ FetchFailed(c) PROVE KcInv'
  BY <1>2, HitKeeps, MissKeeps, AnsweredKeeps, FailKeeps
<1>3. ASSUME NEW c \in Callers, InstallKeys(c) \/ InstallToken(c) \/ AskUserInfo(c) PROVE KcInv'
  BY <1>3, InstallKeeps, TokenKeeps, AskKeeps
<1>4. ASSUME NEW c \in Callers, RefuseAccess(c) \/ CacheAccess(c) \/ Rest(c) \/ HangUp(c) PROVE KcInv'
  BY <1>4, RefuseKeeps, CacheKeeps, HangUpKeeps
<1>5. ASSUME NEW ks \in SUBSET Kids, Publish(ks) PROVE KcInv'
  BY <1>5, PublishKeeps
<1>6. CASE TimePasses
  BY <1>6, TimeKeeps
<1>7. CASE UNCHANGED kcVars
  <2>1. KcTypes' /\ KcCache' /\ KcUntil' /\ KcToken' /\ KcStamp'
    BY <1>7 DEF kcVars, KcInv, KcTypes, KcCache, KcUntil, KcToken, KcStamp, RightSince, AnchorOf, Leads
  <2>2. ASSUME NEW c \in Callers PROVE CallerOK(c, caller[c])'
    <3>1. CallerOK(c, caller[c]) /\ caller'[c] = caller[c]
      BY <1>7, CallerHas DEF kcVars
    <3> QED BY <1>7, <3>1 DEF kcVars, CallerOK, TimesOK, GotOK, SecondOK, LeaderOK, RightSince, AnchorOf
  <2> QED BY <2>1, <2>2 DEF KcInv, KcCallers
<1> QED BY <1>1, <1>2, <1>3, <1>4, <1>5, <1>6, <1>7 DEF KcNext

(***************************************************************************)
(* What a caller is told.                                                  *)
(***************************************************************************)

\* Lemma: a step of one caller leaves the others where they are.
LEMMA OneMoves ==
    ASSUME KcInv, NEW c \in Callers, NEW d \in Callers, d # c,
           \/ \E k \in Kids : Lookup(c, k)
           \/ LockedHit(c) \/ LockedMiss(c) \/ Answered(c) \/ FetchFailed(c)
           \/ InstallKeys(c) \/ InstallToken(c) \/ AskUserInfo(c) \/ RefuseAccess(c)
           \/ CacheAccess(c) \/ Rest(c) \/ HangUp(c)
    PROVE  caller'[d] = caller[d]
<1>1. \E r : caller' = [caller EXCEPT ![c] = r]
  BY DEF Lookup, LockedHit, LockedMiss, Answered, FetchFailed, InstallKeys, InstallToken, AskUserInfo,
         RefuseAccess, CacheAccess, Rest, HangUp, Verdict, Becomes
<1> QED BY <1>1 DEF KcInv, KcTypes

\* Lemma: what the fast path says, and why.
LEMMA LookupTells ==
    ASSUME KcInv, NEW c \in Callers, NEW k \in Kids, Lookup(c, k)
    PROVE  /\ caller[c].pc = "idle" /\ caller'[c].kid = k
           /\ caller'[c].pc = "ok" => \/ style = "oidc"
                                      \/ style = "google" /\ Fresh(k)
                                      \/ style = "access" /\ until[k] > time
           /\ caller'[c].pc = "refused" => style = "oidc" /\ k \notin cache[1].keys /\ RateLimited(k)
<1> DEFINE r == [NoCaller EXCEPT !.kid = k]
<1>0. caller[c].pc = "idle" /\ time \in Int
  BY DEF Lookup, KcInv, KcTypes
<1>1. r \in CallerRecs /\ r.pc = "idle" /\ r.kid = k
  BY NewRecord DEF CallerRecs
<1>2. ASSUME NEW q, caller' = [caller EXCEPT ![c] = q] PROVE caller'[c] = q
  BY <1>2 DEF KcInv, KcTypes
<1> HIDE DEF r
<1>3. CASE style = "oidc" /\ k \in cache[1].keys
  <2>1. caller' = [caller EXCEPT ![c] = [r EXCEPT !.pc = "ok"]]
    BY <1>3 DEF Lookup, r
  <2>2. caller'[c] = [r EXCEPT !.pc = "ok"]
    BY <1>2, <2>1
  <2> QED BY <1>0, <1>1, <1>3, <2>2 DEF CallerRecs
<1>4. CASE style = "oidc" /\ k \notin cache[1].keys /\ RateLimited(k)
  <2>1. caller' = [caller EXCEPT ![c] = [r EXCEPT !.pc = "refused"]]
    BY <1>4 DEF Lookup, r
  <2>2. caller'[c] = [r EXCEPT !.pc = "refused"]
    BY <1>2, <2>1
  <2> QED BY <1>0, <1>1, <1>4, <2>2 DEF CallerRecs
<1>5. CASE style = "google" /\ Fresh(k)
  <2>1. caller' = [caller EXCEPT ![c] = [r EXCEPT !.pc = "ok"]]
    BY <1>5 DEF Lookup, r
  <2>2. caller'[c] = [r EXCEPT !.pc = "ok"]
    BY <1>2, <2>1
  <2> QED BY <1>0, <1>1, <1>5, <2>2 DEF CallerRecs
<1>6. CASE style = "access" /\ until[k] > time
  <2>0. ~(until[k] <= time)
    BY <1>0, <1>6 DEF KcInv, KcTypes
  <2>1. caller' = [caller EXCEPT ![c] = [r EXCEPT !.pc = "ok"]]
    BY <1>6, <2>0 DEF Lookup, r
  <2>2. caller'[c] = [r EXCEPT !.pc = "ok"]
    BY <1>2, <2>1
  <2> QED BY <1>0, <1>1, <1>6, <2>2 DEF CallerRecs
<1>7. CASE style = "access" /\ until[k] <= time
  <2>0. ~(until[k] > time)
    BY <1>0, <1>7 DEF KcInv, KcTypes
  <2>1. caller' = [caller EXCEPT ![c] = [r EXCEPT !.pc = "fetch", !.came = time, !.since = time]]
    BY <1>7, <2>0 DEF Lookup, r
  <2>2. caller'[c] = [r EXCEPT !.pc = "fetch", !.came = time, !.since = time]
    BY <1>2, <2>1
  <2> QED BY <1>0, <1>1, <2>2 DEF CallerRecs
<1>8. CASE /\ ~(style = "oidc" /\ k \in cache[1].keys)
           /\ ~(style = "oidc" /\ k \notin cache[1].keys /\ RateLimited(k))
           /\ ~(style = "google" /\ Fresh(k)) /\ ~(style = "access" /\ until[k] > time)
           /\ ~(style = "access" /\ until[k] <= time)
  <2>1. caller' = [caller EXCEPT ![c] = [r EXCEPT !.pc = "lock", !.came = time]]
    BY <1>8 DEF Lookup, r
  <2>2. caller'[c] = [r EXCEPT !.pc = "lock", !.came = time]
    BY <1>2, <2>1
  <2> QED BY <1>0, <1>1, <2>2 DEF CallerRecs
<1> QED BY <1>3, <1>4, <1>5, <1>6, <1>7, <1>8

\* Lemma: what is said under the lock, and why.
LEMMA HitTells ==
    ASSUME KcInv, NEW c \in Callers, LockedHit(c)
    PROVE  /\ style # "access" /\ caller[c].pc = "lock" /\ caller'[c].kid = caller[c].kid
           /\ lock[caller[c].at] = NoOne
           /\ caller'[c].pc = "ok" => /\ style = "teams" => /\ ~Stale(caller[c].at)
                                                            /\ caller[c].kid \in cache[caller[c].at].keys
                                      /\ style = "google" => Fresh(caller[c].kid)
                                      /\ style \in Minting => time < token.refresh
           /\ caller'[c].pc = "refused" => /\ style \in {"oidc", "teams"}
                                           /\ style = "oidc" => /\ caller[c].kid \notin cache[1].keys
                                                                /\ RateLimited(caller[c].kid)
                                           /\ style = "teams" => /\ ~Stale(caller[c].at) /\ caller[c].at = 2
                                                                 /\ caller[c].kid \notin cache[caller[c].at].keys
                                                                 /\ ~caller[c].err
<1>1. /\ caller[c].pc = "lock" /\ Hit(c) /\ caller[c] \in CallerRecs /\ caller[c].kid \in Kids
      /\ lock[caller[c].at] = NoOne /\ caller[c].at \in {1, 2} /\ caller[c].err \in BOOLEAN
      /\ style # "access"
  BY CallerHas DEF LockedHit, CallerRecs, CallerOK
<1>2. ASSUME NEW q, caller' = [caller EXCEPT ![c] = q] PROVE caller'[c] = q
  BY <1>2 DEF KcInv, KcTypes
<1>3. CASE style = "teams"
  <2> DEFINE keys == cache[caller[c].at].keys
  <2>1. caller'[c] = FromAnchor(c, keys, caller[c].err) /\ ~Stale(caller[c].at)
    BY <1>1, <1>2, <1>3 DEF LockedHit, Becomes, Hit
  <2>2. CASE caller[c].kid \in keys
    BY <1>1, <1>3, <2>1, <2>2, OverRecord DEF FromAnchor, Minting
  <2>3. CASE caller[c].kid \notin keys
    <3>1. caller'[c] = NextAnchor(c, caller[c].err)
      BY <2>1, <2>3 DEF FromAnchor
    <3>2. CASE caller[c].at # 1
      <4> DEFINE v == IF caller[c].err THEN "failed" ELSE "refused"
      <4>1. caller'[c] = Over(c, v)
        BY <3>1, <3>2 DEF NextAnchor
      <4>0. v \in {"idle", "ok", "refused", "failed", "lock", "fetch", "got", "second"}
            /\ v # "ok" /\ (v = "refused" => ~caller[c].err)
        OBVIOUS
      <4> HIDE DEF v
      <4>2. caller'[c].kid = caller[c].kid /\ caller'[c].pc = v
        BY <1>1, <4>0, <4>1, OverRecord
      <4>3. caller[c].at = 2
        BY <1>1, <3>2
      <4> QED BY <1>1, <1>3, <2>1, <2>3, <4>0, <4>2, <4>3
    <3>3. CASE caller[c].at = 1
      <4> DEFINE o == Over(c, "lock")
      <4>1. caller'[c] = [o EXCEPT !.came = caller[c].came, !.at = 2, !.err = caller[c].err]
        BY <3>1, <3>3 DEF NextAnchor
      <4>2. o \in CallerRecs /\ o.pc = "lock" /\ o.kid = caller[c].kid
        BY <1>1, OverRecord
      <4> HIDE DEF o
      <4>3. caller'[c].pc = "lock" /\ caller'[c].kid = caller[c].kid
        BY <4>1, <4>2 DEF CallerRecs
      <4> QED BY <1>1, <4>3
    <3> QED BY <3>2, <3>3
  <2> QED BY <2>2, <2>3
<1>4. CASE style # "teams"
  <2>1. CASE style = "oidc" /\ ~HitUnderLock(caller[c].kid)
    <3>1. caller' = [caller EXCEPT ![c] = Over(c, "refused")] /\ RateLimited(caller[c].kid)
      BY <1>1, <2>1 DEF LockedHit, Becomes, Hit
    <3>2. caller'[c] = Over(c, "refused")
      BY <1>2, <3>1
    <3> QED BY <1>1, <2>1, <3>1, <3>2, OverRecord DEF HitUnderLock
  <2>2. CASE ~(style = "oidc" /\ ~HitUnderLock(caller[c].kid))
    <3>1. caller' = [caller EXCEPT ![c] = Over(c, "ok")]
      BY <1>4, <2>2 DEF LockedHit, Becomes
    <3>2. caller'[c] = Over(c, "ok")
      BY <1>2, <3>1
    <3>3. (style = "google" => Fresh(caller[c].kid)) /\ (style \in Minting => time < token.refresh)
      BY <1>1 DEF Hit, Minting
    <3> QED BY <1>1, <1>4, <3>2, <3>3, OverRecord
  <2> QED BY <2>1, <2>2
<1> QED BY <1>3, <1>4

\* Lemma: what is said after a fetch, and why.
LEMMA InstallTells ==
    ASSUME KcInv, NEW c \in Callers, InstallKeys(c)
    PROVE  /\ caller[c].pc = "got" /\ caller'[c].kid = caller[c].kid /\ style \in {"oidc", "teams", "google"}
           /\ caller'[c].pc = "ok" => caller[c].kid \in caller[c].got
           /\ caller'[c].pc = "refused" => /\ caller[c].kid \notin caller[c].got
                                           /\ style = "teams" => caller[c].at = 2 /\ ~caller[c].err
<1>1. /\ caller[c].pc = "got" /\ caller[c] \in CallerRecs /\ caller[c].kid \in Kids
      /\ caller[c].at \in {1, 2} /\ caller[c].err \in BOOLEAN /\ style \in {"oidc", "teams", "google"}
  BY CallerHas DEF InstallKeys, CallerRecs
<1>2. ASSUME NEW q, caller' = [caller EXCEPT ![c] = q] PROVE caller'[c] = q
  BY <1>2 DEF KcInv, KcTypes
<1>3. CASE caller[c].kid \in caller[c].got
  <2>1. caller' = [caller EXCEPT ![c] = Over(c, "ok")]
    BY <1>3 DEF InstallKeys, Becomes, Verdict, FromAnchor
  <2>2. caller'[c] = Over(c, "ok")
    BY <1>2, <2>1
  <2> QED BY <1>1, <1>3, <2>2, OverRecord
<1>4. CASE caller[c].kid \notin caller[c].got /\ style # "teams"
  <2>1. caller' = [caller EXCEPT ![c] = Over(c, "refused")]
    BY <1>4 DEF InstallKeys, Becomes, Verdict
  <2>2. caller'[c] = Over(c, "refused")
    BY <1>2, <2>1
  <2> QED BY <1>1, <1>4, <2>2, OverRecord
<1>5. CASE caller[c].kid \notin caller[c].got /\ style = "teams"
  <2>1. caller' = [caller EXCEPT ![c] = NextAnchor(c, caller[c].err)]
    BY <1>5 DEF InstallKeys, Becomes, FromAnchor
  <2>2. caller'[c] = NextAnchor(c, caller[c].err)
    BY <1>2, <2>1
  <2>3. CASE caller[c].at # 1
    <3> DEFINE v == IF caller[c].err THEN "failed" ELSE "refused"
    <3>1. caller'[c] = Over(c, v)
      BY <2>2, <2>3 DEF NextAnchor
    <3>2. v \in {"idle", "ok", "refused", "failed", "lock", "fetch", "got", "second"}
          /\ v # "ok" /\ (v = "refused" => ~caller[c].err)
      OBVIOUS
    <3> HIDE DEF v
    <3>3. caller'[c].kid = caller[c].kid /\ caller'[c].pc = v
      BY <1>1, <3>1, <3>2, OverRecord
    <3>4. caller[c].at = 2
      BY <1>1, <2>3
    <3> QED BY <1>1, <1>5, <3>2, <3>3, <3>4
  <2>4. CASE caller[c].at = 1
    <3> DEFINE o == Over(c, "lock")
    <3>1. caller'[c] = [o EXCEPT !.came = caller[c].came, !.at = 2, !.err = caller[c].err]
      BY <2>2, <2>4 DEF NextAnchor
    <3>2. o \in CallerRecs /\ o.pc = "lock" /\ o.kid = caller[c].kid
      BY <1>1, OverRecord
    <3> HIDE DEF o
    <3>3. caller'[c].pc = "lock" /\ caller'[c].kid = caller[c].kid
      BY <3>1, <3>2 DEF CallerRecs
    <3> QED BY <1>1, <3>3
  <2> QED BY <2>3, <2>4
<1> QED BY <1>3, <1>4, <1>5

\* Lemma: what is said when a fetch fails.
LEMMA FailTells ==
    ASSUME KcInv, NEW c \in Callers, FetchFailed(c)
    PROVE  /\ caller[c].pc \in {"fetch", "second"} /\ caller'[c].kid = caller[c].kid /\ failed' = time
           /\ caller'[c].pc # "ok" /\ (caller'[c].pc = "refused" => style = "access")
<1>1. /\ caller[c].pc \in {"fetch", "second"} /\ caller[c] \in CallerRecs /\ caller[c].kid \in Kids
      /\ failed' = time
  BY CallerHas DEF FetchFailed
<1>2. ASSUME NEW q, caller' = [caller EXCEPT ![c] = q] PROVE caller'[c] = q
  BY <1>2 DEF KcInv, KcTypes
<1>3. CASE style = "teams"
  <2>1. caller' = [caller EXCEPT ![c] = NextAnchor(c, TRUE)]
    BY <1>3 DEF FetchFailed, Becomes
  <2>2. /\ NextAnchor(c, TRUE).kid = caller[c].kid /\ NextAnchor(c, TRUE).pc # "refused"
        /\ NextAnchor(c, TRUE).pc \in {"lock", "failed", "refused"}
    BY <1>1, <1>3, NextOK
  <2>3. caller'[c] = NextAnchor(c, TRUE)
    BY <1>2, <2>1
  <2> QED BY <1>1, <2>2, <2>3
<1>4. CASE style = "access"
  <2>1. caller' = [caller EXCEPT ![c] = Over(c, "refused")]
    BY <1>4 DEF FetchFailed, Becomes
  <2>2. caller'[c] = Over(c, "refused")
    BY <1>2, <2>1
  <2> QED BY <1>1, <1>4, <2>2, OverRecord
<1>5. CASE style # "teams" /\ style # "access"
  <2>1. caller' = [caller EXCEPT ![c] = Over(c, "failed")]
    BY <1>5 DEF FetchFailed, Becomes
  <2>2. caller'[c] = Over(c, "failed")
    BY <1>2, <2>1
  <2> QED BY <1>1, <2>2, OverRecord
<1> QED BY <1>3, <1>4, <1>5

\* Lemma: the steps that say nothing, and those that say one thing only.
LEMMA OthersTell ==
    ASSUME KcInv, NEW c \in Callers
    PROVE  /\ LockedMiss(c) => caller'[c].pc = "fetch"
           /\ Answered(c) => caller'[c].pc = "got"
           /\ AskUserInfo(c) => caller'[c].pc = "second"
           /\ Rest(c) \/ HangUp(c) => caller'[c].pc = "idle"
           /\ RefuseAccess(c) => caller'[c].pc = "refused" /\ caller'[c].kid = caller[c].kid
           /\ CacheAccess(c) => caller'[c].pc = "ok" /\ caller'[c].kid = caller[c].kid
           /\ InstallToken(c) => caller'[c].pc = "ok" /\ caller'[c].kid = caller[c].kid
<1>0. caller[c] \in CallerRecs /\ (caller[c].pc # "idle" => caller[c].kid \in Kids) /\ time \in Int
  BY CallerHas DEF KcInv, KcTypes
<1>1. ASSUME NEW q, caller' = [caller EXCEPT ![c] = q] PROVE caller'[c] = q
  BY <1>1 DEF KcInv, KcTypes
<1>2. ASSUME LockedMiss(c) PROVE caller'[c].pc = "fetch"
  <2>1. caller'[c] = [caller[c] EXCEPT !.pc = "fetch", !.since = time]
    BY <1>1, <1>2 DEF LockedMiss, Becomes, Fetching
  <2> QED BY <1>0, <2>1 DEF CallerRecs
<1>3. ASSUME Answered(c) PROVE caller'[c].pc = "got"
  <2>1. \E h, g : caller'[c] = [caller[c] EXCEPT !.pc = "got", !.heard = h, !.got = g]
    BY <1>1, <1>3 DEF Answered, Becomes
  <2> QED BY <1>0, <2>1 DEF CallerRecs
<1>4. ASSUME AskUserInfo(c) PROVE caller'[c].pc = "second"
  <2>1. caller'[c] = [caller[c] EXCEPT !.pc = "second", !.since = time, !.heard = time]
    BY <1>1, <1>4 DEF AskUserInfo, Becomes
  <2> QED BY <1>0, <2>1 DEF CallerRecs
<1>5. ASSUME Rest(c) \/ HangUp(c) PROVE caller'[c].pc = "idle"
  BY <1>1, <1>5, NewRecord DEF Rest, HangUp, Becomes
<1>6. ASSUME RefuseAccess(c) PROVE caller'[c].pc = "refused" /\ caller'[c].kid = caller[c].kid
  <2>1. caller'[c] = Over(c, "refused") /\ caller[c].pc # "idle"
    BY <1>1, <1>6 DEF RefuseAccess, Verdict, Becomes
  <2> QED BY <1>0, <2>1, OverRecord
<1>7. ASSUME CacheAccess(c) \/ InstallToken(c) PROVE caller'[c].pc = "ok" /\ caller'[c].kid = caller[c].kid
  <2>1. caller'[c] = Over(c, "ok") /\ caller[c].pc # "idle"
    BY <1>1, <1>7 DEF CacheAccess, InstallToken, Verdict, Becomes
  <2> QED BY <1>0, <2>1, OverRecord
<1> QED BY <1>2, <1>3, <1>4, <1>5, <1>6, <1>7

\* Lemma: a caller is told something new by a step of its own.
LEMMA OwnStep ==
    ASSUME KcInv, [KcNext]_kcVars, NEW c \in Callers, caller'[c].pc # caller[c].pc
    PROVE  \/ \E k \in Kids : Lookup(c, k)
           \/ LockedHit(c) \/ LockedMiss(c) \/ Answered(c) \/ FetchFailed(c)
           \/ InstallKeys(c) \/ InstallToken(c) \/ AskUserInfo(c) \/ RefuseAccess(c)
           \/ CacheAccess(c) \/ Rest(c) \/ HangUp(c)
<1>1. ~(TimePasses \/ \E ks \in SUBSET Kids : Publish(ks)) /\ ~UNCHANGED kcVars
  BY DEF TimePasses, Publish, kcVars
<1>2. PICK d \in Callers : \/ \E k \in Kids : Lookup(d, k)
                           \/ LockedHit(d) \/ LockedMiss(d) \/ Answered(d) \/ FetchFailed(d)
                           \/ InstallKeys(d) \/ InstallToken(d) \/ AskUserInfo(d) \/ RefuseAccess(d)
                           \/ CacheAccess(d) \/ Rest(d) \/ HangUp(d)
  BY <1>1 DEF KcNext
<1>3. d = c
  BY <1>2, OneMoves
<1> QED BY <1>2, <1>3

(***************************************************************************)
(* The theorems.                                                           *)
(***************************************************************************)

\* Lemma: a token is handed out before it expires.
LEMMA TokenStep ==
    ASSUME KcInv, [KcNext]_kcVars, NEW c \in Callers, style \in Minting, Turns(c, "ok")
    PROVE  time < token'.exp
<1>0. /\ caller'[c].pc = "ok" /\ caller[c].pc # "ok" /\ style \notin {"oidc", "teams", "google", "access"}
      /\ time \in Int /\ token.exp \in Int /\ token.refresh \in Int
  BY DEF Turns, Minting, KcInv, KcTypes
<1>1. \/ \E k \in Kids : Lookup(c, k)
      \/ LockedHit(c) \/ LockedMiss(c) \/ Answered(c) \/ FetchFailed(c)
      \/ InstallKeys(c) \/ InstallToken(c) \/ AskUserInfo(c) \/ RefuseAccess(c)
      \/ CacheAccess(c) \/ Rest(c) \/ HangUp(c)
  BY <1>0, OwnStep
<1>2. ASSUME NEW k \in Kids, Lookup(c, k) PROVE FALSE
  BY <1>0, <1>2, LookupTells
<1>3. ASSUME LockedHit(c) PROVE time < token'.exp
  <2>1. time < token.refresh /\ token' = token
    BY <1>0, <1>3, HitTells DEF LockedHit
  <2> QED BY <1>0, <2>1 DEF KcInv, KcToken
<1>4. ~LockedMiss(c) /\ ~Answered(c) /\ ~AskUserInfo(c) /\ ~RefuseAccess(c) /\ ~Rest(c) /\ ~HangUp(c)
  BY <1>0, OthersTell
<1>5. ~FetchFailed(c) /\ ~InstallKeys(c) /\ ~CacheAccess(c)
  BY <1>0, FailTells DEF InstallKeys, CacheAccess
<1> QED BY <1>1, <1>2, <1>3, <1>4, <1>5, TokenKeeps

\* Lemma: what is cached and not stale was right TTL and Timeout ago, or later.
LEMMA CachedRight ==
    ASSUME KcInv, NEW a \in {1, 2}, NEW k \in Kids, style \in {"teams", "google"}, ~Stale(a),
           AnchorOf(k) = a, ~(k \in cache[a].keys <=> k \in published)
    PROVE  time < changed[k] + TTL + Timeout
<1>1. cache[a].at - Timeout <= changed[k]
  BY DEF KcInv, KcCache, RightSince
<1>2. time \in Int /\ cache[a].at \in Int /\ changed[k] \in Int
  BY DEF KcInv, KcTypes
<1>3. time - cache[a].at < TTL
  BY <1>2, KcNumbers DEF Stale
<1> QED BY <1>1, <1>2, <1>3, KcNumbers

\* Lemma: what was fetched was right when the request was sent, or later.
LEMMA FetchedRight ==
    ASSUME KcInv, NEW c \in Callers, caller[c].pc = "got", AnchorOf(caller[c].kid) = caller[c].at,
           ~(caller[c].kid \in caller[c].got <=> caller[c].kid \in published)
    PROVE  /\ caller[c].came <= changed[caller[c].kid] /\ time < changed[caller[c].kid] + TTL + Timeout
<1>1. /\ CallerOK(c, caller[c]) /\ caller[c].kid \in Kids /\ caller[c].since \in Int /\ caller[c].came \in Int
  BY CallerHas DEF CallerRecs
<1>2. caller[c].since <= changed[caller[c].kid]
  BY <1>1 DEF CallerOK, GotOK, RightSince
<1>3. caller[c].came <= caller[c].since /\ time <= caller[c].since + Timeout
  BY <1>1 DEF CallerOK, TimesOK
<1>4. time \in Int /\ changed[caller[c].kid] \in Int
  BY <1>1 DEF KcInv, KcTypes
<1> QED BY <1>1, <1>2, <1>3, <1>4, KcNumbers

\* Lemma: a withdrawn key is accepted only within the bound.
LEMMA WithdrawnStep ==
    ASSUME KcInv, [KcNext]_kcVars, NEW c \in Callers, Turns(c, "ok"), NEW k, k = caller'[c].kid
    PROVE  /\ (style \in {"teams", "google", "access"} /\ k \notin published) =>
                 time < changed[k] + TTL + (IF style = "access" THEN 2 ELSE 1) * Timeout
           /\ style = "access" => time < Expiry + Timeout
<1>0. /\ caller'[c].pc = "ok" /\ caller[c].pc # "ok" /\ time \in Int
      /\ changed \in [Kids -> Int] /\ until \in [Kids -> Int]
  BY DEF Turns, KcInv, KcTypes
<1>1. \/ \E j \in Kids : Lookup(c, j)
      \/ LockedHit(c) \/ LockedMiss(c) \/ Answered(c) \/ FetchFailed(c)
      \/ InstallKeys(c) \/ InstallToken(c) \/ AskUserInfo(c) \/ RefuseAccess(c)
      \/ CacheAccess(c) \/ Rest(c) \/ HangUp(c)
  BY <1>0, OwnStep
<1>2. ASSUME NEW j \in Kids, Lookup(c, j)
      PROVE  /\ (style \in {"teams", "google", "access"} /\ k \notin published) =>
                   time < changed[k] + TTL + (IF style = "access" THEN 2 ELSE 1) * Timeout
             /\ style = "access" => time < Expiry + Timeout
  <2>1. k = j /\ (style = "oidc" \/ (style = "google" /\ Fresh(k)) \/ (style = "access" /\ until[k] > time))
    BY <1>0, <1>2, LookupTells
  <2>2. CASE style = "oidc"
    BY <2>2
  <2>3. CASE style = "google" /\ Fresh(k)
    <3>1. ~Stale(1) /\ k \in cache[1].keys /\ AnchorOf(k) = 1
      BY <2>3 DEF Fresh, AnchorOf
    <3>2. k \notin published => time < changed[k] + TTL + Timeout
      BY <2>1, <2>3, <3>1, CachedRight
    <3> QED BY <1>0, <2>1, <2>3, <3>2, KcNumbers
  <2>4. CASE style = "access" /\ until[k] > time
    <3>1. until[k] <= Expiry + Timeout /\ (k \notin published => until[k] <= changed[k] + TTL + 2 * Timeout)
      BY <2>1, <2>4 DEF KcInv, KcUntil
    <3> QED BY <1>0, <2>1, <2>4, <3>1, KcNumbers
  <2> QED BY <2>1, <2>2, <2>3, <2>4
<1>3. ASSUME LockedHit(c)
      PROVE  /\ style # "access"
             /\ (style \in {"teams", "google"} /\ k \notin published) => time < changed[k] + TTL + Timeout
  <2>1. /\ k = caller[c].kid /\ k \in Kids /\ caller[c].at \in {1, 2} /\ style # "access"
        /\ style = "teams" => ~Stale(caller[c].at) /\ k \in cache[caller[c].at].keys
        /\ style = "google" => Fresh(k)
    BY <1>0, <1>3, HitTells, CallerHas DEF CallerRecs
  <2>2. ASSUME style = "teams", k \notin published PROVE time < changed[k] + TTL + Timeout
    <3>1. AnchorOf(k) = caller[c].at
      BY <2>1, <2>2 DEF KcInv, KcCache
    <3> QED BY <2>1, <2>2, <3>1, CachedRight
  <2>3. ASSUME style = "google", k \notin published PROVE time < changed[k] + TTL + Timeout
    <3>1. ~Stale(1) /\ k \in cache[1].keys /\ AnchorOf(k) = 1
      BY <2>1, <2>3 DEF Fresh, AnchorOf
    <3> QED BY <2>1, <2>3, <3>1, CachedRight
  <2> QED BY <2>1, <2>2, <2>3
<1>4. ASSUME InstallKeys(c)
      PROVE  /\ style # "access"
             /\ (style \in {"teams", "google"} /\ k \notin published) => time < changed[k] + TTL + Timeout
  <2>1. k = caller[c].kid /\ k \in caller[c].got /\ caller[c].pc = "got" /\ style # "access"
    BY <1>0, <1>4, InstallTells
  <2>2. AnchorOf(k) = caller[c].at
    BY <2>1, CallerHas DEF CallerOK, GotOK
  <2> QED BY <2>1, <2>2, FetchedRight
<1>5. ASSUME CacheAccess(c)
      PROVE  /\ style = "access" /\ time < Expiry + Timeout
             /\ k \notin published => time < changed[k] + TTL + 2 * Timeout
  <2>1. k = caller[c].kid /\ style = "access" /\ caller[c].pc \in {"second", "got"}
    BY <1>5, OthersTell DEF CacheAccess
  <2>2. /\ k \in Kids /\ (caller[c].pc = "got" => time < Expiry)
        /\ caller[c].pc = "second" => /\ caller[c].heard \in Int /\ time <= caller[c].heard + Timeout
                                      /\ caller[c].heard < Expiry
        /\ k \notin published => time <= changed[k] + 2 * Timeout
    BY <1>5, <2>1, AccessHas
  <2> QED BY <1>0, <2>1, <2>2, KcNumbers
<1>6. /\ ~LockedMiss(c) /\ ~Answered(c) /\ ~AskUserInfo(c) /\ ~RefuseAccess(c)
      /\ ~Rest(c) /\ ~HangUp(c) /\ ~FetchFailed(c)
  BY <1>0, OthersTell, FailTells
<1>7. ASSUME InstallToken(c) PROVE style \notin {"teams", "google", "access"}
  BY <1>7 DEF InstallToken, Minting
<1>8. 1 * Timeout = Timeout
  BY KcNumbers
<1> QED BY <1>1, <1>2, <1>3, <1>4, <1>5, <1>6, <1>7, <1>8

\* Lemma: a published key that is refused was published lately, or a fetch
\* failed lately, or OidcVerifier is fetching it.
LEMMA RefusalStep ==
    ASSUME KcInv, [KcNext]_kcVars, NEW c \in Callers, Turns(c, "refused"), NEW k, k = caller'[c].kid,
           k \in published, ~Expired
    PROVE  \/ (IF caller[c].pc = "idle" THEN time ELSE caller[c].came)
                  < Max({changed[k], failed'}) + Max({TTL, Cooldown}) + Timeout
           \/ style = "oidc" /\ caller[c].pc = "idle" /\ \E l \in Callers : Leads(l, k)
<1> DEFINE came == IF caller[c].pc = "idle" THEN time ELSE caller[c].came
           bound == Max({changed[k], failed'}) + Max({TTL, Cooldown}) + Timeout
<1>0. /\ caller'[c].pc = "refused" /\ caller[c].pc # "refused" /\ time \in Int /\ k \in Kids /\ failed \in Int
      /\ changed[k] \in Int /\ stamp[k] \in Int /\ caller[c].came \in Int /\ caller[c].came <= time
      /\ CallerOK(c, caller[c]) /\ failed' \in Int
  <2>1. failed' \in Int
    BY KcKeeps DEF KcInv, KcTypes
  <2>2. CallerOK(c, caller[c]) /\ caller[c].came \in Int /\ caller[c].came <= time
    BY CallerHas DEF CallerOK, TimesOK, CallerRecs
  <2>3. time \in Int /\ k \in Kids /\ failed \in Int /\ changed[k] \in Int /\ stamp[k] \in Int
    BY DEF KcInv, KcTypes
  <2> QED BY <2>1, <2>2, <2>3 DEF Turns
<1>1. /\ bound \in Int
      /\ \A t \in Int : t < changed[k] + TTL + Timeout => t < bound
      /\ \A t \in Int : t < failed' + TTL + Timeout => t < bound
      /\ \A t \in Int : t < changed[k] + Cooldown => t < bound
      /\ \A t \in Int : t < failed' + Cooldown => t < bound
  <2>1. Max({changed[k], failed'}) = IF changed[k] >= failed' THEN changed[k] ELSE failed'
    BY <1>0, MaxOfTwo
  <2>2. Max({TTL, Cooldown}) = IF TTL >= Cooldown THEN TTL ELSE Cooldown
    BY KcNumbers, MaxOfTwo
  <2> DEFINE m == Max({changed[k], failed'})
             n == Max({TTL, Cooldown})
  <2>3. /\ m \in Int /\ changed[k] <= m /\ failed' <= m /\ n \in Int /\ TTL <= n /\ Cooldown <= n
    BY <1>0, <2>1, <2>2, KcNumbers
  <2>4. bound = m + n + Timeout
    OBVIOUS
  <2> HIDE DEF m, n, bound
  <2> QED BY <1>0, <2>3, <2>4, KcNumbers
<1>2. /\ came \in Int /\ came <= time /\ caller[c].came <= time
      /\ caller[c].pc # "idle" => came = caller[c].came
  BY <1>0
<1> HIDE DEF came, bound
<1> SUFFICES came < bound \/ (style = "oidc" /\ caller[c].pc = "idle" /\ \E l \in Callers : Leads(l, k))
  BY DEF came, bound
<1>3. \/ \E j \in Kids : Lookup(c, j)
      \/ LockedHit(c) \/ LockedMiss(c) \/ Answered(c) \/ FetchFailed(c)
      \/ InstallKeys(c) \/ InstallToken(c) \/ AskUserInfo(c) \/ RefuseAccess(c)
      \/ CacheAccess(c) \/ Rest(c) \/ HangUp(c)
  BY <1>0, OwnStep
<1>4. ASSUME k \notin cache[1].keys, RateLimited(k), style = "oidc", failed' = failed
      PROVE  came < bound \/ \E l \in Callers : Leads(l, k)
  <2>1. time - stamp[k] < Cooldown
    BY <1>4 DEF RateLimited
  <2>2. stamp[k] <= changed[k] \/ stamp[k] <= failed \/ \E l \in Callers : Leads(l, k)
    BY <1>4 DEF KcInv, KcStamp
  <2>3. CASE stamp[k] <= changed[k]
    <3>1. came < changed[k] + Cooldown
      BY <1>0, <1>2, <2>1, <2>3, KcNumbers
    <3> QED BY <1>1, <1>2, <3>1
  <2>4. CASE stamp[k] <= failed
    <3>1. came < failed' + Cooldown
      BY <1>0, <1>2, <1>4, <2>1, <2>4, KcNumbers
    <3> QED BY <1>1, <1>2, <3>1
  <2> QED BY <2>2, <2>3, <2>4
<1>5. ASSUME NEW j \in Kids, Lookup(c, j)
      PROVE  came < bound \/ (style = "oidc" /\ caller[c].pc = "idle" /\ \E l \in Callers : Leads(l, k))
  <2>1. k = j /\ style = "oidc" /\ k \notin cache[1].keys /\ RateLimited(k) /\ caller[c].pc = "idle"
    BY <1>0, <1>5, LookupTells
  <2>2. failed' = failed
    BY <1>5 DEF Lookup
  <2> QED BY <1>4, <2>1, <2>2
<1>6. ASSUME style = "teams", caller[c].at = 2, caller[c].pc \in {"lock", "got"}, ~caller[c].err,
             k = caller[c].kid, AnchorOf(k) # 2
      PROVE  came < bound
  <2>1. AnchorOf(k) = 1
    BY <1>6 DEF AnchorOf
  <2>2. caller[c].came < changed[k] + TTL + Timeout
    BY <1>0, <1>6, <2>1 DEF CallerOK, SecondOK
  <2> QED BY <1>1, <1>2, <1>6, <2>2
<1>7. ASSUME LockedHit(c) PROVE came < bound
  <2>1. /\ k = caller[c].kid /\ caller[c].pc = "lock" /\ lock[caller[c].at] = NoOne /\ failed' = failed
        /\ caller[c].at \in {1, 2} /\ style \in {"oidc", "teams"} /\ (style # "teams" => caller[c].at = 1)
    BY <1>0, <1>7, HitTells, CallerHas DEF LockedHit, CallerRecs
  <2>2. CASE style = "oidc"
    <3>1. k \notin cache[1].keys /\ RateLimited(k)
      BY <1>0, <1>7, <2>1, <2>2, HitTells
    <3>2. ~\E l \in Callers : Leads(l, k)
      <4> SUFFICES ASSUME NEW l \in Callers, Leads(l, k) PROVE FALSE
        OBVIOUS
      <4>1. lock[1] = l
        BY <2>2, CallerHas DEF Leads, CallerOK, LeaderOK
      <4> QED BY <2>1, <2>2, <4>1, KcConstants
    <3> QED BY <1>4, <2>1, <2>2, <3>1, <3>2
  <2>3. CASE style = "teams"
    <3>1. ~Stale(2) /\ caller[c].at = 2 /\ k \notin cache[2].keys /\ ~caller[c].err
      BY <1>0, <1>7, <2>1, <2>3, HitTells
    <3>2. CASE AnchorOf(k) = 2
      <4>1. time < changed[k] + TTL + Timeout
        BY <1>0, <2>3, <3>1, <3>2, CachedRight
      <4>2. came < changed[k] + TTL + Timeout
        BY <1>0, <1>2, <4>1, KcNumbers
      <4> QED BY <1>1, <1>2, <4>2
    <3> QED BY <1>6, <2>1, <2>3, <3>1, <3>2
  <2> QED BY <2>1, <2>2, <2>3
<1>8. ASSUME FetchFailed(c) PROVE came < bound
  <2>1. failed' = time
    BY <1>8 DEF FetchFailed
  <2>2. came < failed' + TTL + Timeout
    BY <1>0, <1>2, <2>1, KcNumbers
  <2> QED BY <1>1, <1>2, <2>2
<1>9. ASSUME caller[c].pc = "got", k = caller[c].kid, k \notin caller[c].got, AnchorOf(k) = caller[c].at
      PROVE  came < bound
  <2>1. caller[c].came <= changed[k]
    BY <1>9, FetchedRight
  <2>2. came < changed[k] + TTL + Timeout
    BY <1>0, <1>2, <1>9, <2>1, KcNumbers
  <2> QED BY <1>1, <1>2, <2>2
<1>10. ASSUME InstallKeys(c) PROVE came < bound
  <2>1. /\ k = caller[c].kid /\ caller[c].pc = "got" /\ k \notin caller[c].got
        /\ style = "teams" => caller[c].at = 2 /\ ~caller[c].err
        /\ style # "teams" => caller[c].at = 1
    BY <1>0, <1>10, InstallTells, CallerHas
  <2>2. AnchorOf(k) # caller[c].at => style = "teams" /\ AnchorOf(k) # 2
    BY <2>1 DEF AnchorOf
  <2> QED BY <1>6, <1>9, <2>1, <2>2
<1>11. ASSUME RefuseAccess(c) PROVE came < bound
  <2>1. k = caller[c].kid /\ style = "access" /\ caller[c].at = 1
    BY <1>11, OthersTell, CallerHas DEF RefuseAccess
  <2>2. caller[c].pc = "got" /\ k \notin caller[c].got
    BY <1>11, <2>1 DEF RefuseAccess, Expired
  <2>3. AnchorOf(k) = caller[c].at
    BY <2>1 DEF AnchorOf
  <2> QED BY <1>9, <2>1, <2>2, <2>3
<1>12. ~LockedMiss(c) /\ ~Answered(c) /\ ~AskUserInfo(c) /\ ~InstallToken(c) /\ ~CacheAccess(c) /\ ~Rest(c)
       /\ ~HangUp(c)
  BY <1>0, OthersTell
<1> QED BY <1>3, <1>5, <1>7, <1>8, <1>10, <1>11, <1>12

\* A token Triton hands out has not expired, whoever waited for the lock
\* meanwhile and however long the other side took (access_token).
THEOREM TokensAreFresh == KcSpec => TokenFresh
<1>1. KcInv /\ [KcNext]_kcVars =>
          [\A c \in Callers : (style \in Minting /\ Turns(c, "ok")) => time < token'.exp]_kcVars
  BY TokenStep
<1> QED BY <1>1, KcStarts, KcKeeps, PTL DEF KcSpec, TokenFresh

\* A withdrawn key or access token is accepted no longer than its cached copy
\* lives and the requests took, for any number of callers (verify).
THEOREM WithdrawnKeysGo == KcSpec => WithdrawnBounded
<1>1. KcInv /\ [KcNext]_kcVars =>
          [\A c \in Callers : Turns(c, "ok") =>
             LET k == caller'[c].kid IN
             /\ (style \in {"teams", "google", "access"} /\ k \notin published) =>
                   time < changed[k] + TTL + (IF style = "access" THEN 2 ELSE 1) * Timeout
             /\ style = "access" => time < Expiry + Timeout]_kcVars
  BY WithdrawnStep
<1> QED BY <1>1, KcStarts, KcKeeps, PTL DEF KcSpec, WithdrawnBounded

\* A valid key is refused only shortly after it was published or a fetch
\* failed, or by OidcVerifier while the first request for it fetches or shortly
\* after a client hung up on that request (lookup_key).
THEOREM RefusalsHaveReasons == KcSpec => RefusalExplained
<1>1. KcInv /\ [KcNext]_kcVars =>
          [\A c \in Callers : Turns(c, "refused") =>
             LET k == caller'[c].kid IN
             \/ k \notin published \/ Expired
             \/ (IF caller[c].pc = "idle" THEN time ELSE caller[c].came)
                    < Max({changed[k], failed'}) + Max({TTL, Cooldown}) + Timeout
             \/ style = "oidc" /\ caller[c].pc = "idle" /\ \E l \in Callers : Leads(l, k)]_kcVars
  BY RefusalStep
<1> QED BY <1>1, KcStarts, KcKeeps, PTL DEF KcSpec, RefusalExplained
=============================================================================
