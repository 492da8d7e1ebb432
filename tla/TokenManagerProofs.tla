--------------------------- MODULE TokenManagerProofs ---------------------------
(***************************************************************************)
(* Theorems about the bearer token, for every set of callers, every number *)
(* of retries and every order of renewals, rejections and expirations.     *)
(*                                                                         *)
(* The inductive invariant says when a renewal may be under way, what a    *)
(* caller that saw a rejection knows about the stored generation, and how  *)
(* the requests of a call are charged to its attempts and its one          *)
(* rejection.                                                              *)
(***************************************************************************)
EXTENDS TokenManager, TLAPS

\* A renewal runs only while the stored token is of no use.
RenewalJustified ==
  refresh.leader # NoCaller => generation = 0 \/ generation \in revoked \cup due

\* What a call holds was stored, and what it saw rejected was revoked.
HoldsStored(call) ==
  /\ call.lease <= generation
  /\ call.rejected # 0 => call.rejected \in revoked

\* After a rejection a call goes on with a newer token only, and remembers that
\* it has had one.
GoesOnNewer(call) ==
  /\ call.pc \in {"get", "pause"} => call.lease > call.rejected
  /\ call.pc \in {"get", "pause"} => (call.renewed <=> call.rejected # 0)
  /\ call.pc = "follow" /\ call.result \notin {-1, 0} =>
       call.result > call.rejected /\ call.result <= generation

\* Every GET is charged to an attempt, the pause or the rejection.
GetsCharged(call) ==
  /\ call.gets <= call.attempt + (IF call.rejected # 0 THEN 1 ELSE 0)
                               + (IF call.pc = "pause" THEN 1 ELSE 0)
  /\ call.pc = "pause" => call.attempt < RetryMax

\* The token POSTs of a renewal led before the rejection, and of one led since.
PostsCharged(call) ==
  LET before == IF call.rejected # 0 THEN RetryMax ELSE 0
  IN  /\ call.pc \in {"idle", "token", "follow"} => call.posts <= before
      /\ call.pc \in {"get", "pause"} => call.posts <= before + RetryMax
      /\ call.pc = "lead" =>
           call.posts <= before + refresh.attempt + (IF refresh.waiting THEN 1 ELSE 0)

RetryLeft == refresh.waiting => refresh.attempt < RetryMax

CallOK(call) ==
  HoldsStored(call) /\ GoesOnNewer(call) /\ GetsCharged(call) /\ PostsCharged(call)

IInv ==
  /\ TypeOK
  /\ RenewalJustified
  /\ NoNeedlessRenewal
  /\ RetryLeft
  /\ \A c \in Callers : CallOK(calls[c])

-------------------------------------------------------------------------------
(* Lemmas about one state *)

\* A call that has not started meets every condition.
LEMMA NoCallOK ==
  ASSUME TypeOK
  PROVE  NoCall \in Call /\ CallOK(NoCall)
BY RetryAssumption
DEF TypeOK, NoCall, Call, CallOK, HoldsStored, GoesOnNewer, GetsCharged, PostsCharged

\* The stored token serves a caller unless it is of no use: then the caller may
\* start a renewal.
LEMMA NotServed ==
  ASSUME TypeOK, NEW c \in Callers, CallOK(calls[c]), ~Serves(calls[c].rejected)
  PROVE  generation = 0 \/ generation \in revoked \cup due
<1>1. CASE ~Usable
  BY <1>1 DEF Usable
<1>2. CASE Usable
  <2>1. calls[c].rejected # 0 /\ ~(generation > calls[c].rejected)
    BY <1>2 DEF Serves
  <2>2. calls[c].rejected \in revoked
    BY <2>1 DEF CallOK, HoldsStored
  <2>3. calls[c].rejected = generation
    BY <2>1, <2>2 DEF TypeOK, Call
  <2> QED
    BY <2>2, <2>3
<1> QED
  BY <1>1, <1>2

\* The bounds on requests follow from how they are charged.
LEMMA BoundedByCharges == IInv => BoundedRequests
<1> SUFFICES ASSUME IInv, NEW c \in Callers
    PROVE  calls[c].gets <= RetryMax + 1 /\ calls[c].posts <= 2 * RetryMax
  BY DEF BoundedRequests
<1>1. calls[c] \in Call /\ CallOK(calls[c]) /\ RetryLeft
      /\ refresh.attempt \in 0..RetryMax
  BY DEF IInv, TypeOK
<1>2. calls[c].gets <= RetryMax + 1
  BY <1>1, RetryAssumption DEF Call, CallOK, GetsCharged
<1>3. calls[c].posts <= 2 * RetryMax
  BY <1>1, RetryAssumption DEF Call, CallOK, PostsCharged, RetryLeft
<1> QED
  BY <1>2, <1>3

-------------------------------------------------------------------------------
(* Lemmas about one step *)

\* The records a call becomes are calls.
LEMMA CallUpdates ==
  ASSUME NEW call \in Call, NEW n \in Nat, NEW a \in 0..RetryMax
  PROVE  /\ [call EXCEPT !.pc = "token", !.rejected = call.lease, !.gets = n] \in Call
         /\ [call EXCEPT !.pc = "pause", !.gets = n] \in Call
         /\ [call EXCEPT !.pc = "get", !.attempt = a] \in Call
BY RetryAssumption DEF Call

\* CallOK is a statement about a record and the variables it mentions.
LEMMA CallOKStays ==
  ASSUME NEW call \in Call, CallOK(call), RetryLeft,
         generation \in Nat, generation' \in Nat, generation <= generation',
         revoked \subseteq revoked',
         call.pc = "lead" => refresh' = refresh
  PROVE  CallOK(call)'
BY DEF CallOK, HoldsStored, GoesOnNewer, GetsCharged, PostsCharged, Call

\* A step of one caller that touches nothing but its call keeps the invariant if
\* the new record is in order.
LEMMA OneCallMoves ==
  ASSUME IInv, NEW c \in Callers, NEW call \in Call,
         CallOK(call), call.pc = "lead" <=> calls[c].pc = "lead",
         calls' = [calls EXCEPT ![c] = call],
         UNCHANGED <<generation, refresh, revoked, due>>
  PROVE  IInv'
<1>1. TypeOK'
  BY DEF IInv, TypeOK
<1>2. \A d \in Callers : calls'[d] = IF d = c THEN call ELSE calls[d]
  BY DEF IInv, TypeOK
<1>3. \A d \in Callers : calls[d] \in Call /\ CallOK(calls[d])
  BY DEF IInv, TypeOK
<1>4. ASSUME NEW d \in Callers PROVE CallOK(calls[d])'
  <2>1. CASE d = c
    <3>1. CallOK(call)'
      BY CallOKStays DEF IInv, TypeOK
    <3> QED
      BY <1>2, <2>1, <3>1 DEF CallOK, HoldsStored, GoesOnNewer, GetsCharged, PostsCharged
  <2>2. CASE d # c
    <3>1. calls'[d] = calls[d]
      BY <1>2, <2>2
    <3> QED
      BY <1>3, <3>1 DEF CallOK, HoldsStored, GoesOnNewer, GetsCharged, PostsCharged
  <2> QED
    BY <2>1, <2>2
<1> QED
  BY <1>1, <1>4 DEF IInv, RenewalJustified, NoNeedlessRenewal, RetryLeft

\* The steps of a call that are not part of a renewal.
LEMMA CallSteps ==
  ASSUME IInv, NEW c \in Callers,
         \/ CallStarts(c) \/ ContextEnds(c) \/ GetOK(c) \/ GetRejected(c)
         \/ \E retryable \in BOOLEAN : GetFails(c, retryable)
         \/ Pause(c) \/ Lease(c) \/ Join(c) \/ Follow(c) \/ FollowTimeout(c)
  PROVE  IInv'
<1> PICK call \in Call : call = calls[c]
  BY DEF IInv, TypeOK
<1>0. CallOK(call) /\ calls[c] = call
      /\ generation \in Nat /\ revoked \subseteq 1..generation
  BY DEF IInv, TypeOK
<1>1. NoCall \in Call /\ CallOK(NoCall) /\ NoCall.pc = "idle"
  BY NoCallOK DEF IInv, NoCall
<1>2. ASSUME calls' = [calls EXCEPT ![c] = NoCall], calls[c].pc # "lead",
             UNCHANGED <<generation, refresh, revoked, due>>
      PROVE  IInv'
  BY <1>1, <1>2, OneCallMoves
<1>3. CASE CallStarts(c)
  <2> DEFINE new == [NoCall EXCEPT !.pc = "token"]
  <2>1. new \in Call /\ CallOK(new) /\ new.pc = "token"
    BY <1>0, <1>1 DEF NoCall, CallOK, HoldsStored, GoesOnNewer, GetsCharged, PostsCharged, Call
  <2> QED
    BY <1>3, <2>1, OneCallMoves DEF CallStarts, CallIs
<1>4. CASE ContextEnds(c)
  <2> DEFINE new == [call EXCEPT !.expired = TRUE]
  <2>1. new \in Call /\ CallOK(new) /\ new.pc = call.pc
    BY <1>0 DEF CallOK, HoldsStored, GoesOnNewer, GetsCharged, PostsCharged, Call
  <2> QED
    BY <1>4, <2>1, <1>0, OneCallMoves DEF ContextEnds, CallIs
<1>5. CASE GetOK(c) \/ FollowTimeout(c)
  BY <1>2, <1>5 DEF GetOK, FollowTimeout, CallEnds, CallIs
<1>6. CASE GetRejected(c)
  <2>1. CASE calls[c].renewed
    BY <1>2, <1>6, <2>1 DEF GetRejected, CallEnds, CallIs
  <2>2. CASE ~calls[c].renewed
    <3> DEFINE new == [call EXCEPT !.pc = "token", !.rejected = call.lease, !.gets = @ + 1]
    <3>1. call.pc = "get" /\ call.lease \in revoked /\ call.rejected = 0
      BY <1>0, <1>6, <2>2 DEF GetRejected, CallOK, GoesOnNewer
    <3>2. new \in Call
      <4>1. call.gets + 1 \in Nat /\ 0 \in 0..RetryMax
        BY RetryAssumption DEF Call
      <4> QED
        BY <4>1, CallUpdates
    <3>3. CallOK(new)
      BY <1>0, <3>1, RetryAssumption
      DEF CallOK, HoldsStored, GoesOnNewer, GetsCharged, PostsCharged, Call
    <3> QED
      BY <1>6, <2>2, <3>1, <3>2, <3>3, <1>0, OneCallMoves DEF Call, GetRejected, CallIs, Rejected
  <2> QED
    BY <2>1, <2>2
<1>7. ASSUME NEW retryable \in BOOLEAN, GetFails(c, retryable) PROVE IInv'
  <2>1. CASE retryable /\ calls[c].attempt < RetryMax
    <3> DEFINE new == [call EXCEPT !.pc = "pause", !.gets = @ + 1]
    <3>1. call.pc = "get" /\ call.attempt < RetryMax
      BY <1>0, <1>7, <2>1 DEF GetFails
    <3>2. new \in Call
      <4>1. call.gets + 1 \in Nat /\ 0 \in 0..RetryMax
        BY RetryAssumption DEF Call
      <4> QED
        BY <4>1, CallUpdates
    <3>3. CallOK(new)
      BY <1>0, <3>1, RetryAssumption
      DEF CallOK, HoldsStored, GoesOnNewer, GetsCharged, PostsCharged, Call
    <3> QED
      BY <1>0, <1>7, <2>1, <3>1, <3>2, <3>3, OneCallMoves DEF Call, GetFails, CallIs
  <2>2. CASE ~(retryable /\ calls[c].attempt < RetryMax)
    BY <1>2, <1>7, <2>2 DEF GetFails, CallEnds, CallIs
  <2> QED
    BY <2>1, <2>2
<1>8. CASE Pause(c)
  <2>1. CASE calls[c].expired
    BY <1>2, <1>8, <2>1 DEF Pause, CallEnds, CallIs
  <2>2. CASE ~calls[c].expired
    <3> DEFINE new == [call EXCEPT !.pc = "get", !.attempt = @ + 1]
    <3>1. call.pc = "pause" /\ call.attempt < RetryMax
      BY <1>0, <1>8 DEF Pause, CallOK, GetsCharged
    <3>2. new \in Call
      <4>1. call.attempt + 1 \in 0..RetryMax /\ 0 \in Nat
        BY <3>1, RetryAssumption DEF Call
      <4> QED
        BY <4>1, CallUpdates
    <3>3. CallOK(new)
      BY <1>0, <3>1, RetryAssumption
      DEF CallOK, HoldsStored, GoesOnNewer, GetsCharged, PostsCharged, Call
    <3> QED
      BY <1>8, <2>2, <3>1, <3>2, <3>3, <1>0, OneCallMoves DEF Call, Pause, CallIs
  <2> QED
    BY <2>1, <2>2
<1>9. ASSUME NEW g \in Nat, g # 0, g <= generation, g > call.rejected,
             call.pc \in {"token", "follow"},
             calls' = [calls EXCEPT ![c] = Leased(c, g)],
             UNCHANGED <<generation, refresh, revoked, due>>
      PROVE  IInv'
  <2> DEFINE renewed == call.rejected # 0
             new == [call EXCEPT !.pc = "get", !.lease = g, !.renewed = renewed]
  <2>1. renewed \in BOOLEAN
    OBVIOUS
  <2>2. new = Leased(c, g)
    BY <1>0 DEF Leased
  <2> HIDE DEF renewed
  <2>3. new \in Call /\ new.pc = "get"
    BY <2>1 DEF Call
  <2>4. new.rejected = call.rejected /\ new.lease = g /\ new.gets = call.gets
        /\ new.posts = call.posts /\ new.attempt = call.attempt
        /\ new.result = call.result /\ (new.renewed <=> renewed)
    BY <2>1 DEF Call
  <2> HIDE DEF new
  <2>5. CallOK(new)
    BY <1>0, <1>9, <2>3, <2>4, RetryAssumption
    DEF CallOK, HoldsStored, GoesOnNewer, GetsCharged, PostsCharged, Call, renewed
  <2> QED
    BY <1>0, <1>9, <2>2, <2>3, <2>5, OneCallMoves
<1>10. CASE Lease(c)
  <2>1. generation # 0 /\ generation > call.rejected /\ call.pc = "token"
    BY <1>0, <1>10 DEF Lease, Serves, Usable, Call
  <2>2. calls' = [calls EXCEPT ![c] = Leased(c, generation)]
        /\ UNCHANGED <<generation, refresh, revoked, due>>
    BY <1>10 DEF Lease, CallIs
  <2>3. generation \in Nat /\ generation <= generation
    BY <1>0
  <2> QED
    BY <1>9, <2>1, <2>2, <2>3
<1>11. CASE Join(c)
  <2> DEFINE new == [call EXCEPT !.pc = "follow", !.result = -1]
  <2>1. new \in Call /\ new.pc = "follow" /\ CallOK(new)
    BY <1>0, <1>11 DEF Join, CallOK, HoldsStored, GoesOnNewer, GetsCharged, PostsCharged, Call
  <2> QED
    BY <1>11, <2>1, <1>0, OneCallMoves DEF Join, CallIs
<1>12. CASE Follow(c)
  <2>1. CASE calls[c].result = 0
    BY <1>2, <1>12, <2>1 DEF Follow, CallIs
  <2>2. CASE calls[c].result # 0
    <3>1. call.result \in Nat /\ call.result <= generation
          /\ call.result > call.rejected
      BY <1>0, <1>12, <2>2 DEF Follow, Call, CallOK, GoesOnNewer
    <3> QED
      BY <1>0, <1>9, <1>12, <2>2, <3>1 DEF Follow, CallIs
  <2> QED
    BY <2>1, <2>2
<1> QED
  BY <1>3, <1>4, <1>5, <1>6, <1>7, <1>8, <1>10, <1>11, <1>12

\* A step of the caller that leads a renewal, or begins to, keeps the invariant
\* if its record is in order and the stored token is of no use.
LEMMA LeaderMoves ==
  ASSUME IInv, NEW c \in Callers, NEW call \in Call,
         call.pc = "lead", CallOK(call)',
         refresh.leader \in {c, NoCaller}, refresh'.leader = c,
         refresh' \in [leader : Callers \cup {NoCaller}, attempt : 0..RetryMax,
                       waiting : BOOLEAN],
         RetryLeft',
         generation = 0 \/ generation \in revoked \cup due,
         calls' = [calls EXCEPT ![c] = call],
         UNCHANGED <<generation, revoked, due>>
  PROVE  IInv'
<1>1. \A d \in Callers : calls'[d] = IF d = c THEN call ELSE calls[d]
  BY DEF IInv, TypeOK
<1>2. \A d \in Callers \ {c} : calls[d] \in Call /\ calls[d].pc # "lead" /\ CallOK(calls[d])
  BY CallersAssumption DEF IInv, TypeOK
<1>3. TypeOK'
  BY <1>1, <1>2 DEF IInv, TypeOK
<1>4. ASSUME NEW d \in Callers PROVE CallOK(calls[d])'
  <2>1. CASE d = c
    <3>1. calls'[d] = call
      BY <1>1, <2>1
    <3> QED
      BY <3>1 DEF CallOK, HoldsStored, GoesOnNewer, GetsCharged, PostsCharged
  <2>2. CASE d # c
    <3>1. calls'[d] = calls[d]
      BY <1>1, <2>2
    <3> QED
      BY <1>2, <2>2, <3>1 DEF CallOK, HoldsStored, GoesOnNewer, GetsCharged, PostsCharged
  <2> QED
    BY <2>1, <2>2
<1> QED
  BY <1>3, <1>4 DEF IInv, RenewalJustified, NoNeedlessRenewal

\* When a renewal ends, the leader and every caller that waits for it go on with
\* the new token or end with its error.
LEMMA FinishKeeps ==
  ASSUME IInv, NEW c \in Callers, NEW g \in Nat,
         refresh.leader = c, Finish(c, g),
         \/ g = 0 /\ generation' = generation
         \/ g = generation + 1 /\ generation' = generation + 1,
         UNCHANGED <<revoked, due>>
  PROVE  IInv'
<1>0. /\ generation \in Nat /\ generation' \in Nat /\ generation <= generation'
      /\ g <= generation'
      /\ \A d \in Callers : calls[d] \in Call /\ CallOK(calls[d])
      /\ \A d \in Callers : calls[d].pc = "lead" <=> d = c
      /\ revoked \subseteq 1..generation
  BY DEF IInv, TypeOK
<1>1. refresh' = NoRefresh
  BY DEF Finish
<1>2. ASSUME NEW d \in Callers
      PROVE  (calls[d] \in Call /\ CallOK(calls[d]) /\ calls[d].pc # "lead")'
  <2> PICK call \in Call : call = calls[d]
    BY <1>0
  <2>1. CallOK(call) /\ calls[d] = call /\ (call.pc = "lead" <=> d = c)
    BY <1>0
  <2>2. CASE d = c /\ g = 0
    <3>1. calls'[d] = NoCall
      BY <2>2 DEF Finish
    <3>2. NoCall \in Call /\ CallOK(NoCall) /\ NoCall.pc = "idle"
      BY NoCallOK DEF IInv, NoCall
    <3>3. CallOK(NoCall)'
      BY <1>0, <3>2, CallOKStays DEF IInv
    <3> QED
      BY <3>1, <3>2, <3>3 DEF CallOK, HoldsStored, GoesOnNewer, GetsCharged, PostsCharged
  <2>3. CASE d = c /\ g # 0
    <3> DEFINE renewed == call.rejected # 0
               new == [call EXCEPT !.pc = "get", !.lease = g, !.renewed = renewed]
    <3>1. calls'[d] = new
      BY <2>1, <2>3 DEF Finish, Leased
    <3>2. renewed \in BOOLEAN
      OBVIOUS
    <3> HIDE DEF renewed
    <3>3. new \in Call /\ new.pc = "get"
      BY <3>2 DEF Call
    <3>4. new.rejected = call.rejected /\ new.lease = g /\ new.gets = call.gets
          /\ new.posts = call.posts /\ new.attempt = call.attempt
          /\ new.result = call.result /\ (new.renewed <=> renewed)
      BY <3>2 DEF Call
    <3> HIDE DEF new
    <3>5. g > call.rejected
      BY <1>0, <2>1, <2>3 DEF CallOK, HoldsStored, Call
    <3>6. call.posts <= (IF call.rejected # 0 THEN RetryMax ELSE 0) + RetryMax
      BY <2>1, <2>3, RetryAssumption DEF IInv, TypeOK, RetryLeft, CallOK, PostsCharged, Call
    <3>7. call.gets <= call.attempt + (IF call.rejected # 0 THEN 1 ELSE 0)
      BY <2>1, <2>3 DEF CallOK, GetsCharged, Call
    <3>8. call.rejected # 0 => call.rejected \in revoked
      BY <2>1 DEF CallOK, HoldsStored
    <3>9. CallOK(new)'
      BY <1>0, <3>3, <3>4, <3>5, <3>6, <3>7, <3>8, RetryAssumption
      DEF CallOK, HoldsStored, GoesOnNewer, GetsCharged, PostsCharged, Call, renewed
    <3> QED
      BY <3>1, <3>3, <3>9 DEF CallOK, HoldsStored, GoesOnNewer, GetsCharged, PostsCharged
  <2>4. CASE d # c /\ d \in Followers
    <3> DEFINE new == [call EXCEPT !.result = g]
    <3>1. calls'[d] = new
      BY <2>1, <2>4 DEF Finish
    <3>2. new \in Call /\ new.pc = "follow"
      BY <2>1, <2>4 DEF Call, Followers
    <3>3. CallOK(new)'
      BY <1>0, <2>1, <3>2, RetryAssumption DEF CallOK, HoldsStored, GoesOnNewer, GetsCharged, PostsCharged, Call
    <3> QED
      BY <3>1, <3>2, <3>3 DEF CallOK, HoldsStored, GoesOnNewer, GetsCharged, PostsCharged
  <2>5. CASE d # c /\ d \notin Followers
    <3>1. calls'[d] = call
      BY <2>1, <2>5 DEF Finish
    <3>2. CallOK(call)'
      BY <1>0, <2>1, <2>5, CallOKStays DEF IInv
    <3> QED
      BY <2>1, <2>5, <3>1, <3>2 DEF CallOK, HoldsStored, GoesOnNewer, GetsCharged, PostsCharged
  <2> QED
    BY <2>2, <2>3, <2>4, <2>5
<1>3. TypeOK'
  <2>1. calls' \in [Callers -> Call]
    BY <1>2 DEF Finish
  <2>2. refresh' \in [leader : Callers \cup {NoCaller}, attempt : 0..RetryMax,
                      waiting : BOOLEAN]
        /\ refresh'.leader = NoCaller
    BY <1>1, RetryAssumption DEF NoRefresh
  <2> QED
    BY <1>0, <1>2, <2>1, <2>2, CallersAssumption DEF IInv, TypeOK
<1>4. NoNeedlessRenewal'
  <2>1. generation = 0 \/ generation \in revoked \cup due
    BY CallersAssumption DEF IInv, RenewalJustified
  <2>2. ASSUME NEW x \in 1..(generation' - 1)
        PROVE  x \in 1..(generation - 1) \/ (x = generation /\ generation # 0)
    <3>1. PICK old \in Nat, new \in Nat : old = generation /\ new = generation'
      BY <1>0
    <3>2. new = old \/ new = old + 1
      BY <3>1
    <3>3. x \in 1..(new - 1)
      BY <3>1
    <3>4. x \in 1..(old - 1) \/ (x = old /\ old # 0)
      BY <3>2, <3>3
    <3> QED
      BY <3>1, <3>4
  <2> QED
    BY <2>1, <2>2 DEF IInv, NoNeedlessRenewal
<1>5. RenewalJustified' /\ RetryLeft'
  BY <1>1 DEF RenewalJustified, RetryLeft, NoRefresh
<1> QED
  BY <1>2, <1>3, <1>4, <1>5 DEF IInv

\* The steps of a renewal.
LEMMA RenewalSteps ==
  ASSUME IInv, NEW c \in Callers,
         \/ Lead(c) \/ Renewed(c) \/ RenewalPause(c)
         \/ \E retryable \in BOOLEAN : RenewalFails(c, retryable)
  PROVE  IInv'
<1> PICK call \in Call : call = calls[c]
  BY DEF IInv, TypeOK
<1>0. /\ CallOK(call) /\ calls[c] = call /\ generation \in Nat
      /\ refresh \in [leader : Callers \cup {NoCaller}, attempt : 0..RetryMax,
                      waiting : BOOLEAN]
      /\ RetryLeft
      /\ call.pc = "lead" <=> refresh.leader = c
  BY DEF IInv, TypeOK
<1>1. refresh.leader = c => generation = 0 \/ generation \in revoked \cup due
  BY CallersAssumption DEF IInv, RenewalJustified
<1>2. CASE Lead(c)
  <2> DEFINE new == [call EXCEPT !.pc = "lead"]
  <2>1. new \in Call /\ new.pc = "lead"
    BY DEF Call
  <2>2. CallOK(new)'
    BY <1>0, <1>2, RetryAssumption DEF Lead, CallOK, HoldsStored, GoesOnNewer, GetsCharged, PostsCharged, Call
  <2>3. generation = 0 \/ generation \in revoked \cup due
    BY <1>0, <1>2, NotServed DEF Lead, IInv
  <2>4. RetryLeft'
        /\ refresh' \in [leader : Callers \cup {NoCaller}, attempt : 0..RetryMax,
                         waiting : BOOLEAN]
        /\ refresh'.leader = c
    BY <1>2, RetryAssumption DEF Lead, RetryLeft
  <2>5. calls' = [calls EXCEPT ![c] = new]
    BY <1>0, <1>2 DEF Lead
  <2> HIDE DEF new
  <2> QED
    BY <1>2, <2>1, <2>2, <2>3, <2>4, <2>5, LeaderMoves DEF Lead
<1>3. CASE Renewed(c)
  BY <1>0, <1>3, FinishKeeps DEF Renewed
<1>4. ASSUME NEW retryable \in BOOLEAN, RenewalFails(c, retryable) PROVE IInv'
  <2>1. CASE retryable /\ refresh.attempt < RetryMax
    <3> DEFINE n == call.posts + 1
               new == [call EXCEPT !.posts = n]
    <3>1. n \in Nat
      BY DEF Call
    <3>2. calls' = [calls EXCEPT ![c] = new]
      BY <1>0, <1>4, <2>1 DEF RenewalFails
    <3> HIDE DEF n
    <3>3. new \in Call /\ new.pc = call.pc
      BY <3>1 DEF Call
    <3>4. CallOK(new)'
      BY <1>0, <1>4, <2>1, <3>1, RetryAssumption
      DEF RenewalFails, CallOK, HoldsStored, GoesOnNewer, GetsCharged, PostsCharged, Call, n
    <3>5. RetryLeft'
          /\ refresh' \in [leader : Callers \cup {NoCaller}, attempt : 0..RetryMax,
                           waiting : BOOLEAN]
          /\ refresh'.leader = c
      BY <1>0, <1>4, <2>1 DEF RenewalFails, RetryLeft
    <3> HIDE DEF new
    <3> QED
      BY <1>0, <1>1, <1>4, <3>2, <3>3, <3>4, <3>5, LeaderMoves DEF RenewalFails
  <2>2. CASE ~(retryable /\ refresh.attempt < RetryMax)
    BY <1>0, <1>4, <2>2, FinishKeeps DEF RenewalFails
  <2> QED
    BY <2>1, <2>2
<1>5. CASE RenewalPause(c)
  <2>1. CASE calls[c].expired
    BY <1>0, <1>5, <2>1, FinishKeeps DEF RenewalPause
  <2>2. CASE ~calls[c].expired
    <3>1. calls' = [calls EXCEPT ![c] = call]
      BY <1>0, <1>5, <2>2 DEF RenewalPause, IInv, TypeOK
    <3> DEFINE n == refresh.attempt + 1
    <3>2. n \in 0..RetryMax /\ refresh.leader = c /\ refresh.waiting
      BY <1>0, <1>5, RetryAssumption DEF RenewalPause, RetryLeft
    <3>3. refresh' = [refresh EXCEPT !.waiting = FALSE, !.attempt = n]
      BY <1>5, <2>2 DEF RenewalPause
    <3>4. call.posts <= (IF call.rejected # 0 THEN RetryMax ELSE 0) + n
      BY <1>0, <3>2, RetryAssumption DEF CallOK, PostsCharged, Call
    <3> HIDE DEF n
    <3>5. /\ refresh' \in [leader : Callers \cup {NoCaller}, attempt : 0..RetryMax,
                            waiting : BOOLEAN]
          /\ refresh'.leader = c /\ refresh'.attempt = n /\ ~refresh'.waiting
      BY <1>0, <3>2, <3>3
    <3>6. CallOK(call)'
      BY <1>0, <1>5, <3>4, <3>5, RetryAssumption
      DEF RenewalPause, CallOK, HoldsStored, GoesOnNewer, GetsCharged, PostsCharged, Call
    <3>7. RetryLeft'
      BY <3>5 DEF RetryLeft
    <3> QED
      BY <1>0, <1>1, <1>5, <3>1, <3>2, <3>5, <3>6, <3>7, LeaderMoves DEF RenewalPause
  <2> QED
    BY <2>1, <2>2
<1> QED
  BY <1>2, <1>3, <1>4, <1>5

-------------------------------------------------------------------------------
(* The invariant *)

\* No call has started and there is no token.
LEMMA Initially == TokenInit => IInv
<1> SUFFICES ASSUME TokenInit PROVE IInv
  OBVIOUS
<1>1. TypeOK
  BY CallersAssumption, RetryAssumption DEF TokenInit, TypeOK, NoRefresh, NoCall, Call
<1>2. \A c \in Callers : CallOK(calls[c])
  <2>1. \A c \in Callers : calls[c] = NoCall
    BY DEF TokenInit
  <2> QED
    BY <1>1, <2>1, NoCallOK
<1>3. RenewalJustified /\ NoNeedlessRenewal /\ RetryLeft
  BY DEF TokenInit, RenewalJustified, NoNeedlessRenewal, RetryLeft, NoRefresh
<1> QED
  BY <1>1, <1>2, <1>3 DEF IInv

\* A token that is revoked or becomes due disturbs nobody.
LEMMA UpsetKeeps ==
  ASSUME IInv, Upset
  PROVE  IInv'
<1>1. /\ revoked \subseteq revoked' /\ due \subseteq due'
      /\ revoked' \subseteq 1..generation /\ due' \subseteq 1..generation
      /\ UNCHANGED <<generation, refresh, calls>>
  BY DEF Upset, IInv, TypeOK
<1>2. TypeOK'
  BY <1>1 DEF IInv, TypeOK
<1>3. ASSUME NEW c \in Callers PROVE CallOK(calls[c])'
  BY <1>1 DEF IInv, CallOK, HoldsStored, GoesOnNewer, GetsCharged, PostsCharged
<1>4. (RenewalJustified /\ NoNeedlessRenewal /\ RetryLeft)'
  BY <1>1 DEF IInv, RenewalJustified, NoNeedlessRenewal, RetryLeft
<1> QED
  BY <1>2, <1>3, <1>4 DEF IInv

\* Nothing changes.
LEMMA Stuttering ==
  ASSUME IInv, UNCHANGED vars
  PROVE  IInv'
<1>1. (TypeOK /\ RenewalJustified /\ NoNeedlessRenewal /\ RetryLeft)'
  BY DEF vars, IInv, TypeOK, RenewalJustified, NoNeedlessRenewal, RetryLeft
<1>2. ASSUME NEW c \in Callers PROVE CallOK(calls[c])'
  BY DEF vars, IInv, CallOK, HoldsStored, GoesOnNewer, GetsCharged, PostsCharged
<1> QED
  BY <1>1, <1>2 DEF IInv

\* Every step of a caller, the server or the clock keeps the invariant.
LEMMA Invariance == Spec => []IInv
<1>1. IInv /\ [Next]_vars => IInv'
  <2> SUFFICES ASSUME IInv, [Next]_vars PROVE IInv'
    OBVIOUS
  <2>1. CASE Upset
    BY <2>1, UpsetKeeps
  <2>2. ASSUME NEW c \in Callers, Program(c) \/ ContextEnds(c) PROVE IInv'
    BY <2>2, CallSteps, RenewalSteps DEF Program
  <2>3. CASE UNCHANGED vars
    BY <2>3, Stuttering
  <2> QED
    BY <2>1, <2>2, <2>3 DEF Next
<1> QED
  BY <1>1, Initially, PTL DEF Spec

-------------------------------------------------------------------------------
(* Theorems *)

\* Types hold, and exactly the leader is inside a renewal.
THEOREM TokenTypeCorrect == Spec => []TypeOK
<1>1. IInv => TypeOK
  BY DEF IInv
<1> QED
  BY <1>1, Invariance, PTL

\* Any number of callers that see the same token rejected, at once or late, cost
\* one renewal.
THEOREM RenewalsAreNeeded == Spec => []NoNeedlessRenewal
<1>1. IInv => NoNeedlessRenewal
  BY DEF IInv
<1> QED
  BY <1>1, Invariance, PTL

\* A request that was rejected is repeated with a newer token or not at all.
THEOREM RetriesAreNewer == Spec => []RetriesWithNewerToken
<1>1. IInv => RetriesWithNewerToken
  BY DEF IInv, RetriesWithNewerToken, CallOK, GoesOnNewer
<1> QED
  BY <1>1, Invariance, PTL

\* The requests of a call are bounded by its retries and its one rejection.
THEOREM RequestsAreBounded == Spec => []BoundedRequests
  BY BoundedByCharges, Invariance, PTL
===============================================================================
