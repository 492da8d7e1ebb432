----------------------------- MODULE TokenManager -----------------------------
(***************************************************************************)
(* The DDAE client's bearer token (internal/ddae): concurrent callers get  *)
(* a token by generation, share one renewal under way, and repeat a safe   *)
(* GET with bounded retries.  A caller is one goroutine of a collector or  *)
(* a pipeline; a call is one Ping, Clusters, AlertDetail...                *)
(*                                                                         *)
(* The token of generation g is represented by g.  The mutex of the        *)
(* manager covers no wait, so a critical section is one step.  The server  *)
(* rejects a token exactly if it has revoked it.                           *)
(***************************************************************************)
EXTENDS Integers, FiniteSets

CONSTANTS
  Callers,
  NoCaller,
  RetryMax,   \* HTTP retries of a request
  MaxUpsets   \* bound: tokens that are revoked or become due for renewal

ASSUME CallersAssumption == NoCaller \notin Callers
ASSUME RetryAssumption == RetryMax \in Nat
ASSUME UpsetsAssumption == MaxUpsets \in Nat

VARIABLES
  generation,  \* of the stored token, 0: none
  refresh,     \* the renewal under way: its leader and attempt
  calls,       \* what every caller is doing
  revoked,     \* generations the server rejects
  due          \* generations whose refreshAt has passed

vars == <<generation, refresh, calls, revoked, due>>

NoRefresh == [leader |-> NoCaller, attempt |-> 0, waiting |-> FALSE]

\* gets and posts count the requests that did not end the call or the renewal.
NoCall ==
  [pc |-> "idle", lease |-> 0, rejected |-> 0, attempt |-> 0, renewed |-> FALSE,
   expired |-> FALSE, result |-> -1, gets |-> 0, posts |-> 0]

CallIs(c, call) == calls' = [calls EXCEPT ![c] = call]

CallEnds(c) == CallIs(c, NoCall)

TokenInit ==
  /\ generation = 0
  /\ refresh = NoRefresh
  /\ calls = [c \in Callers |-> NoCall]
  /\ revoked = {} /\ due = {}

-------------------------------------------------------------------------------
(* The server, the clock and the callers' contexts *)

Upset ==
  \E g \in 1..generation :
    /\ Cardinality(revoked) + Cardinality(due) < MaxUpsets
    /\ \/ g \notin revoked /\ revoked' = revoked \cup {g} /\ UNCHANGED due
       \/ g \notin due /\ due' = due \cup {g} /\ UNCHANGED revoked
    /\ UNCHANGED <<generation, refresh, calls>>

\* The context of the caller's cycle ends.
ContextEnds(c) ==
  /\ calls[c].pc # "idle" /\ ~calls[c].expired
  /\ CallIs(c, [calls[c] EXCEPT !.expired = TRUE])
  /\ UNCHANGED <<generation, refresh, revoked, due>>

-------------------------------------------------------------------------------
(* A call: getJSONRawPath *)

CallStarts(c) ==
  /\ calls[c].pc = "idle"
  /\ CallIs(c, [NoCall EXCEPT !.pc = "token"])
  /\ UNCHANGED <<generation, refresh, revoked, due>>

\* Call c goes on with the GET, holding the token of generation g.
Leased(c, g) ==
  [calls[c] EXCEPT !.pc = "get", !.lease = g, !.renewed = calls[c].rejected # 0]

GetOK(c) ==
  /\ calls[c].pc = "get" /\ ~calls[c].expired /\ calls[c].lease \notin revoked
  /\ CallEnds(c)
  /\ UNCHANGED <<generation, refresh, revoked, due>>

\* Call c asks for a token that is newer than the one it held.
Rejected(c) ==
  [calls[c] EXCEPT !.pc = "token", !.rejected = calls[c].lease, !.gets = @ + 1]

\* Variant: a renewal does not remember that it is the only one.
GetRejectedAgain(c) ==
  /\ calls[c].pc = "get" /\ ~calls[c].expired /\ calls[c].lease \in revoked
  /\ CallIs(c, Rejected(c))
  /\ UNCHANGED <<generation, refresh, revoked, due>>

\* 401: the token is renewed once and the attempt does not count; the second
\* 401 ends the call.
GetRejected(c) ==
  /\ calls[c].pc = "get" /\ ~calls[c].expired /\ calls[c].lease \in revoked
  /\ IF calls[c].renewed
     THEN CallEnds(c)
     ELSE CallIs(c, Rejected(c))
  /\ UNCHANGED <<generation, refresh, revoked, due>>

\* A timeout, a transport failure, 429, 502, 503 or 504 is repeated after a
\* pause; anything else ends the call.
GetFails(c, retryable) ==
  /\ calls[c].pc = "get"
  /\ IF retryable /\ calls[c].attempt < RetryMax
     THEN CallIs(c, [calls[c] EXCEPT !.pc = "pause", !.gets = @ + 1])
     ELSE CallEnds(c)
  /\ UNCHANGED <<generation, refresh, revoked, due>>

\* waitBackoff
Pause(c) ==
  /\ calls[c].pc = "pause"
  /\ IF calls[c].expired
     THEN CallEnds(c)
     ELSE CallIs(c, [calls[c] EXCEPT !.pc = "get", !.attempt = @ + 1])
  /\ UNCHANGED <<generation, refresh, revoked, due>>

-------------------------------------------------------------------------------
(* The token: get *)

Usable == generation # 0 /\ generation \notin due

\* Variant: the generation that was rejected is not looked at.
ServesAnyway(rejected) == Usable

\* Variant: a caller that was rejected always renews.
ServesFirst(rejected) == Usable /\ rejected = 0

\* The stored token serves a caller unless it is the one, or older than the one,
\* that the caller saw rejected.
Serves(rejected) == Usable /\ (rejected = 0 \/ generation > rejected)

Lease(c) ==
  /\ calls[c].pc = "token" /\ Serves(calls[c].rejected)
  /\ CallIs(c, Leased(c, generation))
  /\ UNCHANGED <<generation, refresh, revoked, due>>

Join(c) ==
  /\ calls[c].pc = "token" /\ ~Serves(calls[c].rejected)
  /\ refresh.leader # NoCaller
  /\ CallIs(c, [calls[c] EXCEPT !.pc = "follow", !.result = -1])
  /\ UNCHANGED <<generation, refresh, revoked, due>>

Lead(c) ==
  /\ calls[c].pc = "token" /\ ~Serves(calls[c].rejected)
  /\ refresh.leader = NoCaller
  /\ refresh' = [leader |-> c, attempt |-> 0, waiting |-> FALSE]
  /\ calls' = [calls EXCEPT ![c].pc = "lead"]
  /\ UNCHANGED <<generation, revoked, due>>

\* Those who wait for the renewal under way.
Followers == {c \in Callers : calls[c].pc = "follow" /\ calls[c].result = -1}

\* Variant: after an error nobody is told.
FinishQuietly(c, g) ==
  /\ refresh' = NoRefresh
  /\ calls' = [d \in Callers |->
       IF d = c THEN IF g = 0 THEN NoCall ELSE Leased(c, g)
       ELSE IF d \in Followers /\ g # 0 THEN [calls[d] EXCEPT !.result = g]
       ELSE calls[d]]

\* The renewal is over: its result, the new generation or 0 for an error, is
\* there for every caller that waits for it, and the leader goes on.
Finish(c, g) ==
  /\ refresh' = NoRefresh
  /\ calls' = [d \in Callers |->
       IF d = c THEN IF g = 0 THEN NoCall ELSE Leased(c, g)
       ELSE IF d \in Followers THEN [calls[d] EXCEPT !.result = g]
       ELSE calls[d]]

\* The token POST succeeds; the token is stored with the next generation.
Renewed(c) ==
  /\ refresh.leader = c /\ ~refresh.waiting /\ ~calls[c].expired
  /\ generation' = generation + 1
  /\ Finish(c, generation + 1)
  /\ UNCHANGED <<revoked, due>>

\* A timeout, a transport failure, 429 or 5xx is repeated after a pause; 400, 401,
\* 403 and an unreadable body end the renewal.
RenewalFails(c, retryable) ==
  /\ refresh.leader = c /\ ~refresh.waiting
  /\ IF retryable /\ refresh.attempt < RetryMax
     THEN /\ refresh' = [refresh EXCEPT !.waiting = TRUE]
          /\ calls' = [calls EXCEPT ![c].posts = @ + 1]
     ELSE Finish(c, 0)
  /\ UNCHANGED <<generation, revoked, due>>

RenewalPause(c) ==
  /\ refresh.leader = c /\ refresh.waiting
  /\ IF calls[c].expired
     THEN Finish(c, 0)
     ELSE /\ refresh' = [refresh EXCEPT !.waiting = FALSE, !.attempt = @ + 1]
          /\ UNCHANGED calls
  /\ UNCHANGED <<generation, revoked, due>>

\* A follower takes the leader's result, an error included, or gives up when its
\* own context ends.
Follow(c) ==
  /\ calls[c].pc = "follow" /\ calls[c].result # -1
  /\ CallIs(c, IF calls[c].result = 0 THEN NoCall ELSE Leased(c, calls[c].result))
  /\ UNCHANGED <<generation, refresh, revoked, due>>

FollowTimeout(c) ==
  /\ calls[c].pc = "follow" /\ calls[c].expired
  /\ CallEnds(c)
  /\ UNCHANGED <<generation, refresh, revoked, due>>

Program(c) ==
  \/ CallStarts(c) \/ GetOK(c) \/ GetRejected(c) \/ Pause(c)
  \/ Lease(c) \/ Join(c) \/ Lead(c) \/ Renewed(c) \/ RenewalPause(c)
  \/ Follow(c) \/ FollowTimeout(c)
  \/ \E retryable \in BOOLEAN : GetFails(c, retryable) \/ RenewalFails(c, retryable)

Next == Upset \/ \E c \in Callers : Program(c) \/ ContextEnds(c)

\* Goroutines are scheduled and requests end, by the answer or by their timeout.
\* No context has to end.
Spec == TokenInit /\ [][Next]_vars /\ \A c \in Callers : WF_vars(Program(c))

-------------------------------------------------------------------------------
(* Properties *)

Call ==
  [pc : {"idle", "token", "lead", "follow", "get", "pause"},
   lease : Nat, rejected : Nat, attempt : 0..RetryMax, renewed : BOOLEAN,
   expired : BOOLEAN, result : Nat \cup {-1}, gets : Nat, posts : Nat]

\* Every variable has its type, and exactly the leader is inside a renewal.
TypeOK ==
  /\ generation \in Nat
  /\ revoked \subseteq 1..generation /\ due \subseteq 1..generation
  /\ refresh \in [leader : Callers \cup {NoCaller}, attempt : 0..RetryMax,
                   waiting : BOOLEAN]
  /\ calls \in [Callers -> Call]
  /\ \A c \in Callers : calls[c].pc = "lead" <=> refresh.leader = c

\* Only a token that was revoked or due is ever replaced: whatever callers see
\* rejected at the same time, or late, costs one renewal (REQ-DDAE-3-008).
NoNeedlessRenewal == \A g \in 1..(generation - 1) : g \in revoked \cup due

\* A call never repeats its request with the token it saw rejected, or with an
\* older one.
RetriesWithNewerToken ==
  \A c \in Callers :
    (calls[c].pc \in {"get", "pause"} /\ calls[c].rejected # 0)
      => calls[c].lease > calls[c].rejected

\* A call sends a bounded number of requests: failures and rejections do not
\* start each other's budget again.
BoundedRequests ==
  \A c \in Callers :
    /\ calls[c].gets <= RetryMax + 1
    /\ calls[c].posts <= 2 * RetryMax

\* Every call ends, also when no context ever does: nobody waits for a renewal
\* that nobody runs.
EveryCallEnds == \A c \in Callers : (calls[c].pc # "idle") ~> (calls[c].pc = "idle")
===============================================================================
