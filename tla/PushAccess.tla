----------------------------- MODULE PushAccess -----------------------------
(***************************************************************************)
(* The access tokens, the pairing codes of the browser deck and the push   *)
(* API's channels (web/server/push-controller.ts, push-routes.ts,          *)
(* push-auth.ts, push-rate-limit.ts, virtual-deck/deck-auth.ts,            *)
(* pairing-codes.ts, shared/push-channels.ts).                             *)
(*                                                                         *)
(* Hashing a secret and reading a body are awaited: what a handler read    *)
(* before the await is in its job, what it reads after is the state then.  *)
(* A bucket holds whole tokens and gains one a second.                     *)
(***************************************************************************)
EXTENDS Integers, FiniteSets

CONSTANTS
  PushChannelNames,  \* channels clients push to
  PushTexts,         \* texts pushed
  TokensMax,         \* ACCESS_TOKENS_MAX
  DecksMax,          \* DECK_DEVICES_MAX
  ChannelsMax,       \* PUSH_CHANNELS_MAX
  PairingMaxFails,   \* PAIRING_MAX_FAILS
  OwnCapacity,       \* TOKEN_CAPACITY
  GlobalCapacity,    \* GLOBAL_CAPACITY
  FailCapacity,      \* FAIL_CAPACITY
  MaxJobs,           \* bound: handlers in flight
  MaxSecrets,        \* bound: secrets generated
  MaxPairings,       \* bound: pairing codes created
  MaxSeconds,        \* bound: seconds that pass
  MaxRequests        \* bound: requests of clients

ASSUME PushAssumption ==
  /\ {TokensMax, DecksMax, ChannelsMax, PairingMaxFails, OwnCapacity, GlobalCapacity, FailCapacity}
       \subseteq Nat \ {0}

VARIABLES
  acc,    \* the records in settings, the ids revoked, the next id and secret
  jobs,   \* handlers waiting for a hash or a body
  lim,    \* buckets: per token, of all tokens, of failed attempts; seconds and grants so far
  code,   \* the pending pairing, its wrong guesses; which pairings gave a token
  store,  \* channel values, and what the docks and the web UI last saw of them
  asked   \* bound: requests so far

pushVars == <<acc, jobs, lim, code, store, asked>>

NoCode == [n |-> 0, over |-> FALSE]

PushInit ==
  /\ acc = [recs |-> {}, revoked |-> {}, next |-> 1]
  /\ jobs = {}
  /\ lim = [own |-> << >>, global |-> GlobalCapacity, failed |-> FailCapacity, seconds |-> 0,
            grants |-> 0]
  /\ code = [cur |-> NoCode, fails |-> 0, made |-> 0, dead |-> {}, paired |-> {}]
  /\ store = [values |-> << >>, repaint |-> FALSE, broadcast |-> FALSE, painted |-> << >>,
              ui |-> << >>, disposed |-> FALSE]
  /\ asked = 0

Records(scope) == {r \in acc.recs : r.scope = scope}
CanStart == Cardinality(jobs) < MaxJobs /\ acc.next <= MaxSecrets
Started(j) == jobs' = jobs \cup {j}
Ended(j) == jobs' = jobs \ {j}
Without(f, k) == [i \in DOMAIN f \ {k} |-> f[i]]
With(f, k, v) == [i \in DOMAIN f \cup {k} |-> IF i = k THEN v ELSE f[i]]

-----------------------------------------------------------------------------
(* Token administration.                                                   *)

\* createToken() until the hash is awaited: id and secret are drawn, the count was checked
CreateToken(scope, pairing) ==
  /\ CanStart
  /\ Cardinality(acc.recs) < TokensMax
  /\ Started([k |-> "create", id |-> acc.next, secret |-> acc.next, scope |-> scope,
              pairing |-> pairing])
  /\ acc' = [acc EXCEPT !.next = @ + 1]

AdminCreates ==
  /\ CreateToken("push", 0)
  /\ UNCHANGED <<lim, code, store, asked>>

\* ... and after it: the record joins the records there are now
TokenCreated(j) ==
  /\ j.k = "create" /\ Ended(j)
  /\ acc' = [acc EXCEPT !.recs = @ \cup {[id |-> j.id, scope |-> j.scope, secret |-> j.secret]}]
  /\ code' = IF j.pairing = 0 THEN code ELSE [code EXCEPT !.paired = @ \cup {<<j.pairing, j.id>>}]
  /\ UNCHANGED <<lim, store, asked>>

RotateToken(r) ==
  /\ CanStart
  /\ Started([k |-> "rotate", old |-> r, secret |-> acc.next])
  /\ acc' = [acc EXCEPT !.next = @ + 1]
  /\ UNCHANGED <<lim, code, store, asked>>

\* Mutant: the record is written back whether or not it is still there
TokenRotatedBlindly(j) ==
  /\ j.k = "rotate" /\ Ended(j)
  /\ acc' = [acc EXCEPT !.recs = {r \in @ : r.id # j.old.id} \cup {[j.old EXCEPT !.secret = j.secret]}]
  /\ UNCHANGED <<lim, code, store, asked>>

\* the record of that id, if it is still there, takes the new secret
TokenRotated(j) ==
  /\ j.k = "rotate" /\ Ended(j)
  /\ acc' = [acc EXCEPT !.recs = {IF r.id = j.old.id THEN [j.old EXCEPT !.secret = j.secret] ELSE r : r \in @}]
  /\ UNCHANGED <<lim, code, store, asked>>

RevokeToken(r) ==
  /\ acc' = [acc EXCEPT !.recs = @ \ {r}, !.revoked = @ \cup {r.id}]
  /\ UNCHANGED <<jobs, lim, code, store, asked>>

-----------------------------------------------------------------------------
(* Pairing a browser deck.                                                 *)

\* createPairing(): replaces a pending one
CreatePairing ==
  /\ code.made < MaxPairings
  /\ code' = [code EXCEPT !.cur = [n |-> code.made + 1, over |-> FALSE], !.fails = 0, !.made = @ + 1,
                          !.dead = @ \cup ({code.cur.n} \ {0})]
  /\ UNCHANGED <<acc, jobs, lim, store, asked>>

CancelPairing ==
  /\ code.cur # NoCode
  /\ code' = [code EXCEPT !.cur = NoCode, !.dead = @ \cup {code.cur.n}]
  /\ UNCHANGED <<acc, jobs, lim, store, asked>>

\* PAIRING_TTL_MS passes: noticed when the code is next looked at
PairingExpires ==
  /\ code.cur.n # 0 /\ ~code.cur.over
  /\ code' = [code EXCEPT !.cur.over = TRUE, !.dead = @ \cup {code.cur.n}]
  /\ UNCHANGED <<acc, jobs, lim, store, asked>>

FailedAttempt == lim' = [lim EXCEPT !.failed = IF @ > 0 THEN @ - 1 ELSE 0]

\* pair(): the throttle, the device limit, consume(), then createToken()
Pair(right) ==
  /\ asked < MaxRequests /\ asked' = asked + 1
  /\ lim.failed > 0
  /\ Cardinality(Records("deck")) < DecksMax
  /\ UNCHANGED store
  /\ \/ /\ code.cur.n = 0 \/ code.cur.over                        \* 'none', 'expired'
        /\ code' = [code EXCEPT !.cur = NoCode]
        /\ FailedAttempt
        /\ UNCHANGED <<acc, jobs>>
     \/ /\ code.cur.n # 0 /\ ~code.cur.over /\ ~right             \* 'invalid'
        /\ code' = [code EXCEPT !.fails = @ + 1,
                                !.cur = IF code.fails + 1 >= PairingMaxFails THEN NoCode ELSE @,
                                !.dead = IF code.fails + 1 >= PairingMaxFails
                                           THEN @ \cup {code.cur.n} ELSE @]
        /\ FailedAttempt
        /\ UNCHANGED <<acc, jobs>>
     \/ /\ code.cur.n # 0 /\ ~code.cur.over /\ right              \* 'ok'
        /\ code' = [code EXCEPT !.cur = NoCode]
        /\ UNCHANGED lim
        /\ \/ CreateToken("deck", code.cur.n)
           \/ Cardinality(acc.recs) >= TokensMax /\ UNCHANGED <<acc, jobs>>

-----------------------------------------------------------------------------
(* The push API.                                                           *)

\* authenticatePush() until the hash is awaited: the records of that moment are searched
PushRequest(secret, op) ==
  /\ asked < MaxRequests /\ asked' = asked + 1
  /\ Cardinality(jobs) < MaxJobs
  /\ lim.failed > 0
  /\ Started([k |-> "auth", n |-> asked, found |-> {r \in acc.recs : r.secret = secret}, op |-> op])
  /\ UNCHANGED <<acc, lim, code, store>>

\* takePush(): the token's own bucket pays even when the shared one refuses
TakePush(id) ==
  LET own == IF id \in DOMAIN lim.own THEN lim.own[id] ELSE OwnCapacity
  IN  IF own = 0 THEN [lim EXCEPT !.own = With(@, id, 0)]
      ELSE IF lim.global = 0 THEN [lim EXCEPT !.own = With(@, id, own - 1)]
      ELSE [lim EXCEPT !.own = With(@, id, own - 1), !.global = @ - 1, !.grants = @ + 1]

\* scheduleChanged(): both timers, unless they run
Scheduled(s) == IF s.disposed THEN s ELSE [s EXCEPT !.repaint = TRUE, !.broadcast = TRUE]

\* clear(): drop the channel
StoreCleared(s, c) ==
  IF c \in DOMAIN s.values THEN Scheduled([s EXCEPT !.values = Without(@, c)]) ELSE s

\* after the hash: refused, rate limited, a DELETE, or on to the body
Authenticated(j) ==
  /\ j.k = "auth"
  /\ UNCHANGED <<acc, code, asked>>
  /\ \/ j.found = {} /\ FailedAttempt /\ Ended(j) /\ UNCHANGED store
     \/ \E r \in j.found : r.scope # "push" /\ Ended(j) /\ UNCHANGED <<lim, store>>
     \/ \E r \in j.found :
          /\ r.scope = "push"
          /\ lim' = TakePush(r.id)
          /\ \/ /\ lim'.grants = lim.grants                       \* 429
                /\ Ended(j) /\ UNCHANGED store
             \/ /\ lim'.grants # lim.grants /\ j.op.v = 0         \* DELETE
                /\ Ended(j) /\ store' = StoreCleared(store, j.op.c)
             \/ /\ lim'.grants # lim.grants /\ j.op.v # 0
                /\ jobs' = (jobs \ {j}) \cup {[k |-> "body", n |-> j.n, op |-> j.op]}
                /\ UNCHANGED store

\* set(): at capacity an expired channel makes room, else 'full'
StoreSet(c, v, lasts) ==
  LET put(s) == Scheduled([s EXCEPT !.values = With(@, c, [v |-> v, lasts |-> lasts, over |-> FALSE])])
      expired == {x \in DOMAIN store.values : store.values[x].over}
  IN  IF c \in DOMAIN store.values \/ Cardinality(DOMAIN store.values) < ChannelsMax
        THEN store' = put(store)
        ELSE IF expired = {} THEN UNCHANGED store
        ELSE \E x \in expired : store' = put([store EXCEPT !.values = Without(@, x)])

\* the body is read: invalid, or stored
BodyRead(j) ==
  /\ j.k = "body" /\ Ended(j)
  /\ \/ UNCHANGED store
     \/ \E lasts \in BOOLEAN : StoreSet(j.op.c, j.op.v, lasts)
  /\ UNCHANGED <<acc, lim, code, asked>>

ChannelExpires(c) ==
  /\ ~store.values[c].lasts /\ ~store.values[c].over
  /\ store' = [store EXCEPT !.values[c].over = TRUE]
  /\ UNCHANGED <<acc, jobs, lim, code, asked>>

\* 'pushChanged': the docks' widgets read the store now
RepaintTimer ==
  /\ store.repaint
  /\ store' = [store EXCEPT !.repaint = FALSE, !.painted = store.values]
  /\ UNCHANGED <<acc, jobs, lim, code, asked>>

BroadcastTimer ==
  /\ store.broadcast
  /\ store' = [store EXCEPT !.broadcast = FALSE, !.ui = store.values]
  /\ UNCHANGED <<acc, jobs, lim, code, asked>>

DisposePush ==
  /\ ~store.disposed
  /\ store' = [store EXCEPT !.disposed = TRUE, !.repaint = FALSE, !.broadcast = FALSE]
  /\ UNCHANGED <<acc, jobs, lim, code, asked>>

\* a second passes: every bucket gains
SecondPasses ==
  /\ lim.seconds < MaxSeconds
  /\ LET more(n, cap) == IF n < cap THEN n + 1 ELSE n
     IN  lim' = [lim EXCEPT !.own = [i \in DOMAIN @ |-> more(@[i], OwnCapacity)],
                            !.global = more(@, GlobalCapacity), !.failed = more(@, FailCapacity),
                            !.seconds = @ + 1]
  /\ UNCHANGED <<acc, jobs, code, store, asked>>

PushNext ==
  \/ AdminCreates
  \/ \E j \in jobs : TokenCreated(j) \/ TokenRotated(j) \/ Authenticated(j) \/ BodyRead(j)
  \/ \E r \in acc.recs : RotateToken(r) \/ RevokeToken(r)
  \/ CreatePairing \/ CancelPairing \/ PairingExpires
  \/ \E right \in BOOLEAN : Pair(right)
  \/ \E s \in {0} \cup {r.secret : r \in acc.recs}, c \in PushChannelNames, v \in PushTexts \cup {0} :
       PushRequest(s, [c |-> c, v |-> v])
  \/ \E c \in DOMAIN store.values : ChannelExpires(c)
  \/ RepaintTimer \/ BroadcastTimer \/ DisposePush \/ SecondPasses

PushSpec == PushInit /\ [][PushNext]_pushVars

-----------------------------------------------------------------------------
(* Properties.                                                             *)

\* A revoked token never comes back, whatever creation or rotation was waiting for its hash;
\* ids and secrets stay distinct.
RevokedStaysRevoked ==
  /\ \A r \in acc.recs : r.id \notin acc.revoked
  /\ \A r, s \in acc.recs : r.id = s.id \/ r.secret = s.secret => r = s

\* A pairing gives at most one token, and one that was replaced, cancelled, guessed at too
\* often or out of time gives none.
PairingsAreOneTime ==
  /\ \A p, q \in code.paired : p[1] = q[1] => p = q
  /\ \A p \in code.paired : p[1] \notin code.dead
  /\ \A j \in jobs : j.k = "create" => j.pairing \notin code.dead

\* The pushes admitted never exceed the shared capacity and what it regained; the store stays
\* within its limit; once the timers have fired the docks and the web UI know the store's texts.
PushesAreAccounted ==
  LET texts(f) == [c \in DOMAIN f |-> f[c].v]
  IN  /\ lim.grants + lim.global <= GlobalCapacity + lim.seconds
      /\ Cardinality(DOMAIN store.values) <= ChannelsMax
      /\ ~store.disposed =>
           /\ ~store.repaint => texts(store.painted) = texts(store.values)
           /\ ~store.broadcast => texts(store.ui) = texts(store.values)

\* Tokens, pairings and channels stay consistent over everything that is awaited.
AccessIsConsistent == RevokedStaysRevoked /\ PairingsAreOneTime /\ PushesAreAccounted
=============================================================================
