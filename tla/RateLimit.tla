----------------------------- MODULE RateLimit -----------------------------
(***************************************************************************)
(* The fixed-window rate limiter of core/rate_limit.py: which budget a     *)
(* request is charged to, the counter in process memory and the one in     *)
(* Redis, and what the middleware answers.                                 *)
(*                                                                         *)
(* The clock advances in units of which Second make a second, so that a    *)
(* window can begin and end between two seconds.  A Redis server counts    *)
(* the time of a key to live in the same units and answers TTL in the      *)
(* nearest number of seconds.                                              *)
(***************************************************************************)
EXTENDS Integers, FiniteSets, Sequences

CONSTANTS
    Routes,       \* routes that are called, of those Classify knows
    Users,        \* user ids
    Hosts,        \* socket peer addresses
    Limit,        \* requests a budget admits in a window, by class
    WindowSeconds,\* WINDOW_SECONDS
    Second,       \* clock units in a second
    MaxClock,     \* bound: clock units of a behaviour
    MaxHits       \* bound: hits of one key

Classes == {"auth", "ai", "heavy", "default"}

ASSUME TimeAssumption ==
    /\ WindowSeconds \in Nat \ {0}
    /\ Second \in Nat \ {0}
    /\ MaxClock \in Nat
    /\ MaxHits \in Nat
ASSUME LimitAssumption == Limit \in [Classes -> Nat \ {0}]

Window == WindowSeconds * Second

VARIABLES
    backend,    \* settings.rate_limit_backend
    clock,      \* now
    windows,    \* the counters, by key
    admitted,   \* history: the instants at which each key was admitted
    answer      \* the middleware's last decision

vars == <<backend, clock, windows, admitted, answer>>

-----------------------------------------------------------------------------
(* Budgets                                                                 *)

\* classify: the class of a route, or "exempt".  OPTIONS, the probes and the
\* documentation are never counted; a GET of a listed path is not listed.
Classify(route) ==
    CASE route \in {"OPTIONS", "health", "ready", "metrics", "docs"} -> "exempt"
      [] route \in {"POST login", "POST register", "POST waitlist"}  -> "auth"
      [] route \in {"ai", "ai chat"}                                 -> "ai"
      [] route \in {"POST upload", "POST github", "POST documentation",
                    "POST export", "POST analysis start"}            -> "heavy"
      [] OTHER                                                       -> "default"

\* resolve_rate_key: the user of a token that decodes, else the peer.
RateKey(route, caller) == <<Classify(route), caller>>

Callers == Users \cup Hosts

ASSUME CallerAssumption == Callers # {}

Keys == Classes \X Callers

-----------------------------------------------------------------------------
(* The store                                                               *)

\* ends is the instant the window is over.  A key without an expiry, which
\* Redis may be left with, has ends = -1.
Entry == [count : Nat, ends : Int]

Absent == [count |-> 0, ends |-> 0]

Over(w) == w.ends >= 0 /\ clock >= w.ends

Ceil(units) == (units + Second - 1) \div Second

Nearest(units) == (units + Second \div 2) \div Second

AtLeastOne(n) == IF n < 1 THEN 1 ELSE n

\* The window goes on until it has been quiet.
MemoryHitSlides(w) ==
    LET n == IF Over(w) THEN 0 ELSE w.count
        e == [count |-> n + 1, ends |-> clock + Window]
    IN  [entry |-> e, retry |-> AtLeastOne(Ceil(e.ends - clock))]

\* The remaining time is cut down to whole seconds.
MemoryHitFloors(w) ==
    LET e == IF w.count = 0 \/ Over(w)
             THEN [count |-> 1, ends |-> clock + Window]
             ELSE [w EXCEPT !.count = @ + 1]
    IN  [entry |-> e, retry |-> AtLeastOne((e.ends - clock) \div Second)]

\* MemoryRateLimitStore.hit, under its lock.
MemoryHit(w) ==
    LET e == IF w.count = 0 \/ Over(w)
             THEN [count |-> 1, ends |-> clock + Window]
             ELSE [w EXCEPT !.count = @ + 1]
    IN  [entry |-> e, retry |-> AtLeastOne(Ceil(e.ends - clock))]

\* A key that has no expiry stays without one.
RedisHitNeverRearms(w) ==
    LET e == IF w.count = 0 \/ Over(w)
             THEN [count |-> 1, ends |-> clock + Window]
             ELSE [count |-> w.count + 1, ends |-> w.ends]
    IN  [entry |-> e, retry |-> AtLeastOne(Nearest(e.ends - clock))]

\* _WINDOW_SCRIPT, one atomic round trip: an expired key counts from one.
RedisHit(w) ==
    LET e == IF w.count = 0 \/ Over(w)
             THEN [count |-> 1, ends |-> clock + Window]
             ELSE [count |-> w.count + 1,
                   ends |-> IF w.ends < 0 THEN clock + Window ELSE w.ends]
    IN  [entry |-> e, retry |-> AtLeastOne(Nearest(e.ends - clock))]

Hit(w) == IF backend = "redis" THEN RedisHit(w) ELSE MemoryHit(w)

-----------------------------------------------------------------------------
(* The middleware                                                          *)

NoAnswer == [kind |-> "none", key |-> <<"default", CHOOSE c \in Callers : TRUE>>,
             at |-> 0, retry |-> 0]

\* A budget of one more.
ExceedsLate(count, class) == count > Limit[class] + 1

Exceeds(count, class) == count > Limit[class]

Init ==
    /\ backend \in {"memory", "redis"}
    /\ clock = 0
    /\ windows = [k \in Keys |-> Absent]
    /\ admitted = [k \in Keys |-> <<>>]
    /\ answer = NoAnswer

\* dispatch, for a counted request.
Dispatch(route, caller) ==
    LET k == RateKey(route, caller)
        h == Hit(windows[k])
        refused == Exceeds(h.entry.count, k[1])
    IN  /\ Classify(route) # "exempt"
        /\ windows[k].count < MaxHits
        /\ windows' = [windows EXCEPT ![k] = h.entry]
        /\ admitted' = IF refused THEN admitted
                       ELSE [admitted EXCEPT ![k] = Append(@, clock)]
        /\ answer' = [kind |-> IF refused THEN "429" ELSE "next", key |-> k,
                      at |-> clock, retry |-> h.retry]
        /\ UNCHANGED <<backend, clock>>

\* StoreUnavailableError: the request is let through unchecked.
FailOpen(route, caller) ==
    /\ backend = "redis"
    /\ Classify(route) # "exempt"
    /\ answer' = [kind |-> "unchecked", key |-> RateKey(route, caller),
                  at |-> clock, retry |-> 0]
    /\ UNCHANGED <<backend, clock, windows, admitted>>

\* Exempt requests, and all of them when the limiter is switched off.
Exempt(route, caller) ==
    /\ Classify(route) = "exempt"
    /\ answer' = [NoAnswer EXCEPT !.kind = "exempt", !.at = clock]
    /\ UNCHANGED <<backend, clock, windows, admitted>>

\* A key of the Redis server loses its expiry.
LoseExpiry(k) ==
    /\ backend = "redis"
    /\ windows[k].count > 0
    /\ ~Over(windows[k])
    /\ windows[k].ends >= 0
    /\ windows' = [windows EXCEPT ![k].ends = -1]
    /\ UNCHANGED <<backend, clock, admitted, answer>>

Tick ==
    /\ clock < MaxClock
    /\ clock' = clock + 1
    /\ UNCHANGED <<backend, windows, admitted, answer>>

Next ==
    \/ \E r \in Routes, c \in Callers : Dispatch(r, c) \/ FailOpen(r, c) \/ Exempt(r, c)
    \/ \E k \in Keys : LoseExpiry(k)
    \/ Tick

Spec == Init /\ [][Next]_vars

-----------------------------------------------------------------------------
(* Properties                                                              *)

Answer == [kind : {"none", "next", "429", "unchecked", "exempt"}, key : Keys,
           at : 0..MaxClock, retry : Nat]

\* Types of the store, of the history and of the answer; in particular the
\* middleware never sends a negative Retry-After, whatever TTL answers for a
\* key that has no expiry.
TypeOK ==
    /\ backend \in {"memory", "redis"}
    /\ clock \in 0..MaxClock
    /\ windows \in [Keys -> Entry]
    /\ admitted \in [Keys -> Seq(0..MaxClock)]
    /\ answer \in Answer

\* Requests of key k that were admitted at one of the given instants.
Admissions(k, instants) ==
    Cardinality({i \in DOMAIN admitted[k] : admitted[k][i] \in instants})

\* Over any span as long as a window a key is admitted at most twice its
\* budget, also across the boundary of two windows, on both stores.
WindowBudget ==
    \A k \in Keys, t \in 0..clock :
        Admissions(k, (t - Window + 1)..t) <= 2 * Limit[k[1]]

\* Nobody is refused who has not had the whole budget within the last window,
\* whatever they call of other classes (the store in memory).
NoFalseRefusal ==
    backend = "memory" /\ answer.kind = "429" =>
        Admissions(answer.key, (answer.at - Window + 1)..answer.at)
            >= Limit[answer.key[1]]

\* A refused caller that waits as long as Retry-After says and sends nothing
\* else is admitted (the store in memory).
RetryAfterEnough ==
    /\ backend = "memory"
    /\ answer.kind = "429"
    /\ clock >= answer.at + answer.retry * Second
    => Over(windows[answer.key])

\* After every counted request the key has a window that ends, and soon: a
\* key that lost its expiry does not refuse its caller for ever.
WindowAlwaysEnds ==
    [][\A r \in Routes, c \in Callers :
        Dispatch(r, c) =>
            LET w == windows'[RateKey(r, c)]
            IN  clock < w.ends /\ w.ends <= clock + Window]_vars
=============================================================================
