---------------------------- MODULE LifecycleProofs ----------------------------
(***************************************************************************)
(* Theorems about the life of the process and about the logins of its      *)
(* query calls, for every set of callers and every configuration.          *)
(*                                                                         *)
(* The two arguments are independent.  The logins: every login that        *)
(* completes stands on a session of its own, and a call may only add one   *)
(* after it was rejected with a session at least as new as that of the     *)
(* last login.  The resources: New opens them in one order, what a failing *)
(* stage closes covers all that stages before it may have opened, and Run  *)
(* closes nothing before it has seen every worker return.                  *)
(***************************************************************************)
EXTENDS Lifecycle, FiniteSetTheorems, TLAPS

-------------------------------------------------------------------------------
(* The session *)

Calls ==
  [pc : {"idle", "read", "send", "get", "pause", "lock", "login", "landing"},
   read : Nat, cookie : Nat, attempt : Nat, relogged : BOOLEAN, ended : BOOLEAN]

LoggingIn(r) == r.pc \in {"login", "landing"}

SessionTypeOK ==
  /\ generation \in Nat /\ opened \in Nat /\ session = opened
  /\ dead \subseteq 1..opened
  /\ calls \in [Callers -> Calls]

\* One call logs in at a time.
LoginExclusive == \A c \in Callers : LoggingIn(calls[c]) <=> holder = c

\* A call asks for a login after its cookie was rejected, logs in if it knows of the
\* last login, and the jar has a newer cookie when the login ends.
CallOK(r) ==
  /\ r.read <= generation /\ r.cookie <= opened
  /\ r.pc \in {"lock", "login", "landing"} => r.cookie = 0 \/ r.cookie \in dead
  /\ LoggingIn(r) => r.read = generation
  /\ r.pc = "landing" => r.cookie < opened

\* Session m is that of the last completed login: all the logins before it have lost
\* theirs.
LastLogin(m) ==
  generation > 0 => m > 0 /\ generation <= 1 + Cardinality(dead \cap (1..(m - 1)))

\* A call that knows of the last login sent its request with m or a newer session.
SentSince(r, m) ==
  r.pc \in {"get", "lock", "login", "landing"} /\ r.read = generation => r.cookie >= m

SessionInv ==
  /\ SessionTypeOK /\ LoginExclusive
  /\ \A c \in Callers : CallOK(calls[c])
  /\ \E m \in 0..opened : LastLogin(m) /\ \A c \in Callers : SentSince(calls[c], m)

-------------------------------------------------------------------------------
(* The process *)

Phases == {"new", "failed", "run", "shutdown", "wait", "close", "returned"}

\* The stages New has been through.
DoneStages ==
  {k \in 1..(app.next - 1) : Stages[k].for \cap options.parts # {}}

\* What is still open while Run closes one resource after the other.
StillOpen == {CloseOrder[i] : i \in app.next..Len(CloseOrder)}

ProcessInv ==
  /\ options \in Configurations
  /\ app \in [pc : Phases, next : Nat, err : BOOLEAN]
  /\ app.pc = "new" =>
       /\ app.next \in 1..(Len(Stages) + 1)
       /\ open = {Stages[k].name : k \in DoneStages} \ {"registry"}
       /\ running = {}
  /\ app.pc = "failed" => open = {} /\ running = {}
  /\ app.pc = "close" =>
       app.next \in 1..(Len(CloseOrder) + 1) /\ open \subseteq StillOpen /\ running = {}
  /\ app.pc = "returned" /\ ~app.err => open = {} /\ running = {}
  /\ open \subseteq {CloseOrder[i] : i \in 1..Len(CloseOrder)}
  /\ \A w \in running : Uses(w) \subseteq open
  /\ \A c \in Callers : calls[c].pc # "idle" => "query" \in running

IInv == SessionInv /\ ProcessInv

-------------------------------------------------------------------------------
(* The logins are needed *)

\* A step of one call that opens, ends and counts no session.
LEMMA CallMoves ==
  ASSUME SessionInv, NEW c \in Callers,
         UNCHANGED <<generation, session, opened, dead>>,
         calls' \in [Callers -> Calls],
         \A d \in Callers \ {c} : calls'[d] = calls[d] /\ (holder' = d <=> holder = d),
         LoggingIn(calls'[c]) <=> holder' = c,
         CallOK(calls'[c]),
         \A m \in 0..opened : SentSince(calls[c], m) => SentSince(calls'[c], m)
  PROVE  SessionInv'
<1>1. SessionTypeOK'
  BY DEF SessionInv, SessionTypeOK
<1>2. LoginExclusive'
  BY DEF SessionInv, LoginExclusive, LoggingIn
<1>3. (\A d \in Callers : CallOK(calls[d]))'
  BY DEF SessionInv, CallOK, LoggingIn
<1>4. PICK m \in 0..opened : LastLogin(m) /\ \A d \in Callers : SentSince(calls[d], m)
  BY DEF SessionInv
<1>5. LastLogin(m)' /\ m \in 0..opened'
  BY <1>4 DEF LastLogin
<1>6. \A d \in Callers : SentSince(calls[d], m)'
  BY <1>4 DEF SentSince
<1> QED
  BY <1>1, <1>2, <1>3, <1>5, <1>6 DEF SessionInv

\* The steps of a call in which no login ends.
LEMMA CallStep ==
  ASSUME SessionInv, NEW c \in Callers,
         \/ CallStarts(c) \/ Send(c) \/ GetOK(c) \/ GetRejected(c) \/ Pause(c)
         \/ LoginFails(c) \/ Locked(c) \/ ContextEnds(c)
         \/ \E retryable \in BOOLEAN : GetFails(c, retryable)
  PROVE  SessionInv'
<1> DEFINE r == calls'[c]
<1>1. /\ calls \in [Callers -> Calls] /\ generation \in Nat /\ opened \in Nat
      /\ session = opened /\ dead \subseteq 1..opened
      /\ calls[c] \in Calls /\ CallOK(calls[c])
      /\ LoggingIn(calls[c]) <=> holder = c
      /\ NoCaller # c
  BY CallersAssumption DEF SessionInv, SessionTypeOK, LoginExclusive
<1>2. NoCall \in Calls
  BY DEF NoCall, Calls
<1>3. CASE CallStarts(c)
  <2>1. calls' = [calls EXCEPT ![c] = [NoCall EXCEPT !.pc = "read"]]
        /\ UNCHANGED <<generation, holder, session, opened, dead>>
        /\ calls[c].pc = "idle"
    BY <1>3 DEF CallStarts
  <2>2. r = [NoCall EXCEPT !.pc = "read"] /\ r \in Calls
    BY <1>1, <1>2, <2>1 DEF NoCall, Calls
  <2>3. ~LoggingIn(r) /\ CallOK(r) /\ \A m \in 0..opened : SentSince(r, m)
    BY <1>1, <2>1, <2>2 DEF LoggingIn, CallOK, SentSince, NoCall
  <2> QED
    BY <1>1, <2>1, <2>2, <2>3, CallMoves DEF LoggingIn
<1>4. CASE Send(c)
  <2>1. /\ calls' = [calls EXCEPT ![c].pc = "get", ![c].cookie = session]
        /\ UNCHANGED <<generation, holder, session, opened, dead>>
        /\ calls[c].pc = "send"
    BY <1>4 DEF Send
  <2>2. r \in Calls /\ calls' \in [Callers -> Calls]
        /\ \A d \in Callers \ {c} : calls'[d] = calls[d]
    BY <1>1, <1>2, <2>1 DEF Calls
  <2>3. CallOK(r) /\ (LoggingIn(r) <=> holder = c)
        /\ \A m \in 0..opened : SentSince(calls[c], m) => SentSince(r, m)
    BY <1>1, <2>1 DEF LoggingIn, CallOK, SentSince, Calls, NoCall
  <2> QED
    BY <1>1, <2>1, <2>2, <2>3, CallMoves
<1>5. CASE GetOK(c)
  <2>1. /\ calls' = [calls EXCEPT ![c] = NoCall]
        /\ UNCHANGED <<generation, holder, session, opened, dead>>
        /\ calls[c].pc = "get"
    BY <1>5 DEF GetOK, Ends
  <2>2. r \in Calls /\ calls' \in [Callers -> Calls]
        /\ \A d \in Callers \ {c} : calls'[d] = calls[d]
    BY <1>1, <1>2, <2>1 DEF Calls
  <2>3. CallOK(r) /\ (LoggingIn(r) <=> holder = c)
        /\ \A m \in 0..opened : SentSince(calls[c], m) => SentSince(r, m)
    BY <1>1, <2>1 DEF LoggingIn, CallOK, SentSince, Calls, NoCall
  <2> QED
    BY <1>1, <2>1, <2>2, <2>3, CallMoves
<1>6. CASE GetRejected(c)
  <2>1. /\ \/ calls' = [calls EXCEPT ![c] = NoCall]
           \/ calls' = [calls EXCEPT ![c].pc = "lock"]
        /\ UNCHANGED <<generation, holder, session, opened, dead>>
        /\ calls[c].pc = "get" /\ ~Alive(calls[c].cookie)
    BY <1>6 DEF GetRejected, Ends, Goes
  <2>2. r \in Calls /\ calls' \in [Callers -> Calls]
        /\ \A d \in Callers \ {c} : calls'[d] = calls[d]
    BY <1>1, <1>2, <2>1 DEF Calls
  <2>3. CallOK(r) /\ (LoggingIn(r) <=> holder = c)
        /\ \A m \in 0..opened : SentSince(calls[c], m) => SentSince(r, m)
    BY <1>1, <2>1 DEF LoggingIn, CallOK, SentSince, Calls, NoCall, Alive
  <2> QED
    BY <1>1, <2>1, <2>2, <2>3, CallMoves
<1>7. CASE Pause(c)
  <2>1. /\ \/ calls' = [calls EXCEPT ![c] = NoCall]
           \/ calls' = [calls EXCEPT ![c].pc = "read", ![c].attempt = @ + 1]
        /\ UNCHANGED <<generation, holder, session, opened, dead>>
        /\ calls[c].pc = "pause"
    BY <1>7 DEF Pause, Ends
  <2>2. r \in Calls /\ calls' \in [Callers -> Calls]
        /\ \A d \in Callers \ {c} : calls'[d] = calls[d]
    BY <1>1, <1>2, <2>1 DEF Calls
  <2>3. CallOK(r) /\ (LoggingIn(r) <=> holder = c)
        /\ \A m \in 0..opened : SentSince(calls[c], m) => SentSince(r, m)
    BY <1>1, <2>1 DEF LoggingIn, CallOK, SentSince, Calls, NoCall
  <2> QED
    BY <1>1, <2>1, <2>2, <2>3, CallMoves
<1>8. CASE \E retryable \in BOOLEAN : GetFails(c, retryable)
  <2>1. /\ \/ calls' = [calls EXCEPT ![c] = NoCall]
           \/ calls' = [calls EXCEPT ![c].pc = "pause"]
        /\ UNCHANGED <<generation, holder, session, opened, dead>>
        /\ calls[c].pc = "get"
    BY <1>8 DEF GetFails, Ends, Goes
  <2>2. r \in Calls /\ calls' \in [Callers -> Calls]
        /\ \A d \in Callers \ {c} : calls'[d] = calls[d]
    BY <1>1, <1>2, <2>1 DEF Calls
  <2>3. CallOK(r) /\ (LoggingIn(r) <=> holder = c)
        /\ \A m \in 0..opened : SentSince(calls[c], m) => SentSince(r, m)
    BY <1>1, <2>1 DEF LoggingIn, CallOK, SentSince, Calls, NoCall
  <2> QED
    BY <1>1, <2>1, <2>2, <2>3, CallMoves
<1>9. CASE ReadGeneration(c)
  <2>1. /\ calls' = [calls EXCEPT ![c].pc = "send", ![c].read = generation]
        /\ UNCHANGED <<generation, holder, session, opened, dead>>
        /\ calls[c].pc = "read"
    BY <1>9 DEF ReadGeneration
  <2>2. r \in Calls /\ calls' \in [Callers -> Calls]
        /\ \A d \in Callers \ {c} : calls'[d] = calls[d]
    BY <1>1, <1>2, <2>1 DEF Calls
  <2>3. CallOK(r) /\ (LoggingIn(r) <=> holder = c)
        /\ \A m \in 0..opened : SentSince(calls[c], m) => SentSince(r, m)
    BY <1>1, <2>1 DEF LoggingIn, CallOK, SentSince, Calls, NoCall
  <2> QED
    BY <1>1, <2>1, <2>2, <2>3, CallMoves
<1>10. CASE ContextEnds(c)
  <2>1. /\ calls' = [calls EXCEPT ![c].ended = TRUE]
        /\ UNCHANGED <<generation, holder, session, opened, dead>>
        /\ TRUE
    BY <1>10 DEF ContextEnds
  <2>2. r \in Calls /\ calls' \in [Callers -> Calls]
        /\ \A d \in Callers \ {c} : calls'[d] = calls[d]
    BY <1>1, <1>2, <2>1 DEF Calls
  <2>3. CallOK(r) /\ (LoggingIn(r) <=> holder = c)
        /\ \A m \in 0..opened : SentSince(calls[c], m) => SentSince(r, m)
    BY <1>1, <2>1 DEF LoggingIn, CallOK, SentSince, Calls, NoCall
  <2> QED
    BY <1>1, <2>1, <2>2, <2>3, CallMoves
<1>11. CASE Authenticate(c)
  <2>1. /\ calls[c].pc = "lock" /\ holder = NoCaller
        /\ UNCHANGED <<generation, session, opened, dead>>
        /\ \/ /\ calls[c].read = generation /\ holder' = c
              /\ calls' = [calls EXCEPT ![c].pc = "login"]
           \/ /\ holder' = holder
              /\ calls' = [calls EXCEPT ![c].pc = "read", ![c].relogged = TRUE]
    BY <1>11 DEF Authenticate, LoginNeeded, Goes
  <2>2. r \in Calls /\ calls' \in [Callers -> Calls]
        /\ \A d \in Callers \ {c} : calls'[d] = calls[d] /\ (holder' = d <=> holder = d)
    BY <1>1, <2>1, CallersAssumption DEF Calls
  <2>3. CallOK(r) /\ (LoggingIn(r) <=> holder' = c)
        /\ \A m \in 0..opened : SentSince(calls[c], m) => SentSince(r, m)
    BY <1>1, <2>1 DEF LoggingIn, CallOK, SentSince, Calls
  <2> QED
    BY <2>1, <2>2, <2>3, CallMoves
<1>12. CASE LoginFails(c)
  <2>1. /\ LoggingIn(calls[c]) /\ holder' = NoCaller
        /\ UNCHANGED <<generation, session, opened, dead>>
        /\ calls' = [calls EXCEPT ![c] = NoCall]
    BY <1>12 DEF LoginFails, LoggingIn, Ends
  <2>2. r = NoCall /\ calls' \in [Callers -> Calls]
        /\ \A d \in Callers \ {c} : calls'[d] = calls[d] /\ (holder' = d <=> holder = d)
    BY <1>1, <1>2, <2>1, CallersAssumption
  <2>3. CallOK(r) /\ (LoggingIn(r) <=> holder' = c) /\ \A m \in 0..opened : SentSince(r, m)
    BY <1>1, <2>1, <2>2 DEF LoggingIn, CallOK, SentSince, NoCall
  <2> QED
    BY <2>1, <2>2, <2>3, CallMoves
<1> QED
  BY <1>3, <1>4, <1>5, <1>6, <1>7, <1>8, <1>9, <1>10, <1>11, <1>12 DEF Locked

\* The engine opens a session for the call that logs in.
LEMMA CookieStep ==
  ASSUME SessionInv, NEW c \in Callers, LoginCookie(c)
  PROVE  SessionInv'
<1>1. /\ calls[c].pc = "login" /\ opened' = opened + 1 /\ session' = opened'
      /\ calls' = [calls EXCEPT ![c].pc = "landing"]
      /\ UNCHANGED <<generation, holder, dead>>
  BY DEF LoginCookie, Goes
<1>2. /\ calls \in [Callers -> Calls] /\ generation \in Nat /\ opened \in Nat
      /\ dead \subseteq 1..opened /\ \A d \in Callers : CallOK(calls[d])
      /\ LoginExclusive
  BY DEF SessionInv, SessionTypeOK
<1>3. /\ calls' \in [Callers -> Calls]
      /\ calls'[c] = [calls[c] EXCEPT !.pc = "landing"]
      /\ \A d \in Callers \ {c} : calls'[d] = calls[d]
  BY <1>1, <1>2 DEF Calls
<1>4. SessionTypeOK'
  BY <1>1, <1>2, <1>3 DEF SessionTypeOK
<1>5. LoginExclusive'
  BY <1>1, <1>2, <1>3 DEF LoginExclusive, LoggingIn, Calls
<1>6. (\A d \in Callers : CallOK(calls[d]))'
  <2> SUFFICES ASSUME NEW d \in Callers PROVE CallOK(calls[d])'
    OBVIOUS
  <2>1. CallOK(calls[d]) /\ calls[d] \in Calls
    BY <1>2
  <2>2. CASE d # c
    BY <1>1, <1>2, <1>3, <2>1, <2>2 DEF CallOK, LoggingIn, Calls
  <2>3. CASE d = c
    BY <1>1, <1>2, <1>3, <2>1, <2>3 DEF CallOK, LoggingIn, Calls
  <2> QED
    BY <2>2, <2>3
<1>7. PICK m \in 0..opened : LastLogin(m) /\ \A d \in Callers : SentSince(calls[d], m)
  BY DEF SessionInv
<1>8. m \in 0..opened' /\ LastLogin(m)'
  BY <1>1, <1>2, <1>7 DEF LastLogin
<1>9. \A d \in Callers : SentSince(calls[d], m)'
  BY <1>1, <1>2, <1>3, <1>7 DEF SentSince, Calls
<1> QED
  BY <1>4, <1>5, <1>6, <1>8, <1>9 DEF SessionInv

\* A login ends.  The session it replaces is expired and was not counted yet.
LEMMA LoginStep ==
  ASSUME SessionInv, NEW c \in Callers, LoginOK(c)
  PROVE  SessionInv'
<1>1. /\ calls[c].pc = "landing" /\ generation' = generation + 1 /\ holder' = NoCaller
      /\ calls' = [calls EXCEPT ![c].pc = "read", ![c].relogged = TRUE]
      /\ UNCHANGED <<session, opened, dead>>
  BY DEF LoginOK
<1>2. /\ calls \in [Callers -> Calls] /\ generation \in Nat /\ opened \in Nat
      /\ dead \subseteq 1..opened /\ session = opened
      /\ \A d \in Callers : CallOK(calls[d]) /\ calls[d] \in Calls
      /\ \A d \in Callers : LoggingIn(calls[d]) <=> holder = d
      /\ holder = c
  BY <1>1 DEF SessionInv, SessionTypeOK, LoginExclusive, LoggingIn
<1>3. /\ calls' \in [Callers -> Calls]
      /\ calls'[c] = [calls[c] EXCEPT !.pc = "read", !.relogged = TRUE]
      /\ \A d \in Callers \ {c} : calls'[d] = calls[d] /\ ~LoggingIn(calls[d])
  BY <1>1, <1>2 DEF Calls
<1>4. SessionTypeOK'
  BY <1>1, <1>2, <1>3 DEF SessionTypeOK
<1>5. LoginExclusive'
  BY <1>1, <1>2, <1>3, CallersAssumption DEF LoginExclusive, LoggingIn
<1>6. \A d \in Callers : calls'[d].read <= generation /\ CallOK(calls[d])'
  <2> SUFFICES ASSUME NEW d \in Callers
               PROVE  calls'[d].read <= generation /\ CallOK(calls[d])'
    OBVIOUS
  <2>1. CallOK(calls[d]) /\ calls[d] \in Calls
    BY <1>2
  <2>2. CASE d # c
    BY <1>1, <1>2, <1>3, <2>1, <2>2 DEF CallOK, LoggingIn, Calls
  <2>3. CASE d = c
    BY <1>1, <1>2, <1>3, <2>1, <2>3 DEF CallOK, LoggingIn, Calls
  <2> QED
    BY <2>2, <2>3
<1>7. PICK m \in 0..opened : LastLogin(m) /\ \A d \in Callers : SentSince(calls[d], m)
  BY DEF SessionInv
<1> DEFINE cookie == calls[c].cookie
           Before == dead \cap (1..(m - 1))
           Now == dead \cap (1..(opened - 1))
<1>8. cookie \in Nat /\ cookie >= m /\ cookie < opened /\ (cookie = 0 \/ cookie \in dead)
  BY <1>1, <1>2, <1>7 DEF CallOK, LoggingIn, SentSince, Calls
<1>9. IsFiniteSet(Now) /\ Cardinality(Now) \in Nat
  <2>1. 1 \in Int /\ opened \in Int
    BY <1>2
  <2>2. IsFiniteSet(1..opened)
    BY <2>1, FS_Interval
  <2>3. Now \in SUBSET (1..opened)
    BY <1>2
  <2> HIDE DEF Now
  <2> QED
    BY <2>2, <2>3, FS_Subset, FS_CardinalityType
<1>10. generation + 1 <= 1 + Cardinality(Now)
  <2>1. CASE generation = 0
    <3> HIDE DEF Now
    <3> QED
      BY <1>9, <2>1
  <2>2. CASE generation > 0
    <3>1. m > 0 /\ generation <= 1 + Cardinality(Before)
      BY <1>7, <2>2 DEF LastLogin
    <3>2. cookie \in Now /\ cookie \notin Before /\ Before \in SUBSET Now
      BY <1>2, <1>7, <1>8, <3>1
    <3> HIDE DEF Now, Before
    <3>3. IsFiniteSet(Before) /\ Cardinality(Before) \in Nat
          /\ Cardinality(Before) <= Cardinality(Now)
          /\ Cardinality(Before) # Cardinality(Now)
      BY <1>9, <3>2, FS_Subset, FS_CardinalityType
    <3> QED
      BY <1>2, <1>9, <3>1, <3>3
  <2> QED
    BY <1>2, <2>1, <2>2
<1>11. LastLogin(opened)' /\ opened' \in 0..opened'
  <2>1. opened > 0
    BY <1>2, <1>8
  <2> QED
    BY <1>1, <1>2, <1>10, <2>1 DEF LastLogin
<1>12. \A d \in Callers : SentSince(calls[d], opened)'
  <2> SUFFICES ASSUME NEW d \in Callers PROVE SentSince(calls[d], opened)'
    OBVIOUS
  <2>1. calls'[d].read \in Nat
    BY <1>3 DEF Calls
  <2> QED
    BY <1>1, <1>2, <1>6, <2>1 DEF SentSince
<1> QED
  BY <1>4, <1>5, <1>6, <1>11, <1>12 DEF SessionInv

\* A session expires.
LEMMA ExpireStep ==
  ASSUME SessionInv, Expire
  PROVE  SessionInv'
<1>1. PICK s \in (1..opened) \ dead : dead' = dead \cup {s}
  BY DEF Expire
<1>2. UNCHANGED <<generation, holder, session, opened, calls>>
  BY DEF Expire
<1>3. SessionTypeOK'
  BY <1>1, <1>2 DEF SessionInv, SessionTypeOK
<1>4. LoginExclusive' /\ \A d \in Callers : CallOK(calls[d])'
  BY <1>1, <1>2 DEF SessionInv, LoginExclusive, CallOK, LoggingIn
<1>5. PICK m \in 0..opened : LastLogin(m) /\ \A d \in Callers : SentSince(calls[d], m)
  BY DEF SessionInv
<1>6. LastLogin(m)'
  <2> DEFINE Old == dead \cap (1..(m - 1))
             New == dead' \cap (1..(m - 1))
  <2>1. 1 \in Int /\ opened \in Int /\ dead' \subseteq 1..opened /\ generation \in Nat
    BY <1>1 DEF SessionInv, SessionTypeOK
  <2>2. IsFiniteSet(1..opened)
    BY <2>1, FS_Interval
  <2>3. Old \in SUBSET New /\ New \in SUBSET (1..opened)
    BY <1>1, <2>1
  <2> HIDE DEF Old, New
  <2>4. /\ IsFiniteSet(New) /\ Cardinality(New) \in Nat
        /\ IsFiniteSet(Old) /\ Cardinality(Old) \in Nat
        /\ Cardinality(Old) <= Cardinality(New)
    BY <2>2, <2>3, FS_Subset, FS_CardinalityType
  <2>5. generation > 0 => m > 0 /\ generation <= 1 + Cardinality(Old)
    BY <1>5 DEF LastLogin, Old
  <2>6. generation > 0 => m > 0 /\ generation <= 1 + Cardinality(New)
    BY <2>1, <2>4, <2>5
  <2> QED
    BY <1>2, <2>6 DEF LastLogin, New
<1>7. \A d \in Callers : SentSince(calls[d], m)'
  BY <1>2, <1>5 DEF SentSince
<1> QED
  BY <1>2, <1>3, <1>4, <1>5, <1>6, <1>7 DEF SessionInv

\* The contexts of all calls end.
LEMMA CancelStep ==
  ASSUME SessionInv, Cancel
  PROVE  /\ SessionInv'
         /\ \A d \in Callers : calls'[d].pc = calls[d].pc
<1>1. /\ calls' = [d \in Callers |->
           IF calls[d].pc = "idle" THEN calls[d] ELSE [calls[d] EXCEPT !.ended = TRUE]]
      /\ UNCHANGED <<generation, holder, session, opened, dead>>
  BY DEF Cancel
<1>2. calls \in [Callers -> Calls]
  BY DEF SessionInv, SessionTypeOK
<1>3. \A d \in Callers :
        /\ calls'[d] \in Calls
        /\ calls'[d].pc = calls[d].pc /\ calls'[d].read = calls[d].read
        /\ calls'[d].cookie = calls[d].cookie
  BY <1>1, <1>2 DEF Calls
<1>4. calls' \in [Callers -> Calls]
  BY <1>1, <1>3
<1>5. SessionTypeOK'
  BY <1>1, <1>4 DEF SessionInv, SessionTypeOK
<1>6. LoginExclusive' /\ \A d \in Callers : CallOK(calls[d])'
  BY <1>1, <1>3 DEF SessionInv, LoginExclusive, CallOK, LoggingIn
<1>7. PICK m \in 0..opened : LastLogin(m) /\ \A d \in Callers : SentSince(calls[d], m)
  BY DEF SessionInv
<1>8. LastLogin(m)' /\ (\A d \in Callers : SentSince(calls[d], m)')
  BY <1>1, <1>3, <1>7 DEF LastLogin, SentSince
<1> QED
  BY <1>1, <1>3, <1>5, <1>6, <1>7, <1>8 DEF SessionInv

\* The steps that do not touch the session.
LEMMA SessionKept ==
  ASSUME SessionInv, UNCHANGED vars
  PROVE  SessionInv'
<1>1. UNCHANGED <<generation, holder, session, opened, dead, calls>>
  BY DEF vars
<1> QED
  BY <1>1 DEF SessionInv, SessionTypeOK, LoginExclusive, CallOK, LoggingIn,
              LastLogin, SentSince

-------------------------------------------------------------------------------
(* Steps of the process *)

\* The cleanup of a stage covers what the stages before it, and its own, leave open.
LEMMA CleanupCovers ==
  ASSUME NEW k \in 1..Len(Stages)
  PROVE  /\ \A j \in 1..(k - 1) :
              Stages[j].name # "registry" => Stages[j].name \in Cleanup[Stages[k].name]
         /\ Stages[k].name \in {"query", "logBackfill", "queryBackfill"} =>
              Stages[k].name \in Cleanup[Stages[k].name]
  BY DEF Stages, Cleanup, AlertResources, LogResources, HistoryResources

\* Run closes every resource New may have opened.
LEMMA CloseCovers ==
  ASSUME NEW k \in 1..Len(Stages), Stages[k].name # "registry"
  PROVE  \E i \in 1..Len(CloseOrder) : CloseOrder[i] = Stages[k].name
<1>1. Len(CloseOrder) = 9 /\ Len(Stages) = 10
  BY DEF CloseOrder, Stages
<1>2. /\ CloseOrder[1] = "logBackfill" /\ CloseOrder[2] = "queryBackfill"
      /\ CloseOrder[3] = "historyState" /\ CloseOrder[4] = "producer"
      /\ CloseOrder[5] = "logProducer" /\ CloseOrder[6] = "ddae"
      /\ CloseOrder[7] = "query" /\ CloseOrder[8] = "outbox"
      /\ CloseOrder[9] = "logOutbox"
  BY DEF CloseOrder
<1>3. Stages[k].name \in {"logBackfill", "queryBackfill", "historyState", "producer",
                          "logProducer", "ddae", "query", "outbox", "logOutbox"}
  BY DEF Stages
<1> QED
  BY <1>1, <1>2, <1>3

\* When every stage is done, each worker has what it works on.
LEMMA WorkersHaveTheirs ==
  ASSUME options \in Configurations,
         \A k \in 1..Len(Stages) :
           Stages[k].for \cap options.parts # {} /\ Stages[k].name # "registry"
             => Stages[k].name \in open,
         NEW w \in Workers
  PROVE  Uses(w) \subseteq open
<1>1. /\ "logBackfill" \in options.parts => "logs" \in options.parts
      /\ "queryBackfill" \in options.parts => "query" \in options.parts
  BY ConfigurationAssumption
<1>2. /\ {"resources", "alerts", "logs"} \cap options.parts # {} => "ddae" \in open
      /\ {"alerts"} \cap options.parts # {} => "outbox" \in open /\ "producer" \in open
      /\ {"logs"} \cap options.parts # {} => "logOutbox" \in open /\ "logProducer" \in open
      /\ {"query"} \cap options.parts # {} => "query" \in open
      /\ {"logBackfill", "queryBackfill"} \cap options.parts # {} => "historyState" \in open
      /\ {"logBackfill"} \cap options.parts # {} => "logBackfill" \in open
      /\ {"queryBackfill"} \cap options.parts # {} => "queryBackfill" \in open
  <2>1. /\ Len(Stages) = 10
        /\ Stages[1] = [name |-> "ddae", for |-> {"resources", "alerts", "logs"}]
        /\ Stages[2] = [name |-> "outbox", for |-> {"alerts"}]
        /\ Stages[3] = [name |-> "producer", for |-> {"alerts"}]
        /\ Stages[4] = [name |-> "logOutbox", for |-> {"logs"}]
        /\ Stages[5] = [name |-> "logProducer", for |-> {"logs"}]
        /\ Stages[7] = [name |-> "query", for |-> {"query"}]
        /\ Stages[8] = [name |-> "historyState", for |-> {"logBackfill", "queryBackfill"}]
        /\ Stages[9] = [name |-> "logBackfill", for |-> {"logBackfill"}]
        /\ Stages[10] = [name |-> "queryBackfill", for |-> {"queryBackfill"}]
    BY DEF Stages
  <2> QED
    BY <2>1
<1>3. \/ w = "manager" /\ "resources" \in options.parts
      \/ w \in {"alerts", "publisher"} /\ "alerts" \in options.parts
      \/ w \in {"logs", "logPublisher"} /\ "logs" \in options.parts
      \/ w \in {"query", "logBackfill", "queryBackfill"} /\ w \in options.parts
  BY DEF Workers, Enabled
<1>4. /\ Uses("manager") = {"ddae"}
      /\ Uses("alerts") = {"ddae", "outbox"} /\ Uses("publisher") = {"producer", "outbox"}
      /\ Uses("logs") = {"ddae", "logOutbox"}
      /\ Uses("logPublisher") = {"logProducer", "logOutbox"}
      /\ Uses("query") = {"query"}
      /\ Uses("logBackfill") = {"logBackfill", "historyState", "logOutbox"}
      /\ Uses("queryBackfill") = {"queryBackfill", "historyState", "query"}
  BY DEF Uses
<1> QED
  BY <1>1, <1>2, <1>3, <1>4

\* New opens what the next stage opens.
LEMMA StageOKStep ==
  ASSUME ProcessInv, NEW k \in 1..Len(Stages), StageOK(k)
  PROVE  ProcessInv'
<1>1. /\ app.pc = "new" /\ IsNext(k)
      /\ open' = open \cup ({Stages[k].name} \ {"registry"})
      /\ app' = [app EXCEPT !.next = k + 1]
      /\ UNCHANGED <<options, running>> /\ calls' = calls
  BY DEF StageOK, vars
<1>2. Len(Stages) = 10
  BY DEF Stages
<1>3. /\ app'.pc = "new" /\ app'.next = k + 1 /\ app'.next \in 1..(Len(Stages) + 1)
      /\ app' \in [pc : Phases, next : Nat, err : BOOLEAN]
      /\ running = {} /\ app.next \in 1..(Len(Stages) + 1)
  BY <1>1, <1>2 DEF ProcessInv, Phases
<1>4. DoneStages' = DoneStages \cup {k}
  <2>1. DoneStages' = {j \in 1..k : Stages[j].for \cap options.parts # {}}
    BY <1>1, <1>2, <1>3 DEF DoneStages
  <2>2. /\ k \in app.next..Len(Stages) /\ Stages[k].for \cap options.parts # {}
        /\ \A j \in app.next..Len(Stages) : Stages[j].for \cap options.parts # {} => k <= j
    BY <1>1 DEF IsNext, Plan
  <2>3. \A j \in 1..k : Stages[j].for \cap options.parts # {} => j < app.next \/ j = k
    BY <1>2, <1>3, <2>2
  <2> QED
    BY <1>2, <1>3, <2>1, <2>2, <2>3 DEF DoneStages
<1>5. open' = {Stages[j].name : j \in DoneStages'} \ {"registry"}
  BY <1>1, <1>4 DEF ProcessInv
<1>6. open' \subseteq {CloseOrder[i] : i \in 1..Len(CloseOrder)}
  BY <1>1, CloseCovers DEF ProcessInv
<1> QED
  BY <1>1, <1>3, <1>5, <1>6 DEF ProcessInv, Phases

\* A stage fails, and nothing stays open.
LEMMA StageFailsStep ==
  ASSUME ProcessInv, NEW k \in 1..Len(Stages), NEW wasOpened \in BOOLEAN,
         StageFails(k, wasOpened)
  PROVE  ProcessInv'
<1> DEFINE name == Stages[k].name
<1>1. /\ app.pc = "new" /\ IsNext(k)
      /\ wasOpened => name \in {"query", "logBackfill", "queryBackfill"}
      /\ open' = (IF wasOpened THEN open \cup {name} ELSE open) \ Cleanup[name]
      /\ app' = [app EXCEPT !.pc = "failed"]
      /\ UNCHANGED <<options, running>> /\ calls' = calls
  BY DEF StageFails, vars
<1>2. Len(Stages) = 10
  BY DEF Stages
<1>3. /\ app'.pc = "failed" /\ app' \in [pc : Phases, next : Nat, err : BOOLEAN]
      /\ running = {} /\ app.next \in 1..(Len(Stages) + 1) /\ app.next <= k
      /\ open = {Stages[j].name : j \in DoneStages} \ {"registry"}
  BY <1>1, <1>2 DEF ProcessInv, Phases, IsNext, Plan
<1>4. open \subseteq Cleanup[name]
  <2> SUFFICES ASSUME NEW j \in DoneStages, Stages[j].name # "registry"
               PROVE  Stages[j].name \in Cleanup[name]
    BY <1>3
  <2>1. j \in 1..(k - 1)
    BY <1>2, <1>3 DEF DoneStages
  <2> QED
    BY <2>1, CleanupCovers
<1>5. open' = {}
  BY <1>1, <1>4, CleanupCovers
<1> QED
  BY <1>1, <1>3, <1>5 DEF ProcessInv, Phases

\* Run starts the workers when every stage is done.
LEMMA RunStep ==
  ASSUME ProcessInv, RunStarts
  PROVE  ProcessInv'
<1>1. /\ app.pc = "new" /\ Plan = {} /\ app' = [app EXCEPT !.pc = "run"]
      /\ running' = Workers /\ UNCHANGED <<options, open>> /\ calls' = calls
  BY DEF RunStarts, vars
<1>2. Len(Stages) = 10
  BY DEF Stages
<1>3. /\ app'.pc = "run" /\ app' \in [pc : Phases, next : Nat, err : BOOLEAN]
      /\ running = {} /\ app.next \in 1..(Len(Stages) + 1)
      /\ open = {Stages[j].name : j \in DoneStages} \ {"registry"}
      /\ options \in Configurations
  BY <1>1, <1>2 DEF ProcessInv, Phases
<1>4. ASSUME NEW k \in 1..Len(Stages), Stages[k].for \cap options.parts # {},
             Stages[k].name # "registry"
      PROVE  Stages[k].name \in open
  <2>1. k \in DoneStages
    BY <1>1, <1>2, <1>3, <1>4 DEF Plan, DoneStages
  <2> QED
    BY <1>3, <1>4, <2>1
<1>5. \A w \in running' : Uses(w) \subseteq open
  BY <1>1, <1>3, <1>4, WorkersHaveTheirs
<1>6. \A w : Uses(w)' = Uses(w)
  BY DEF Uses
<1>7. \A c \in Callers : calls[c].pc = "idle"
  BY <1>3 DEF ProcessInv
<1> QED
  BY <1>1, <1>3, <1>5, <1>6, <1>7 DEF ProcessInv, Phases

\* The next resource is closed.
LEMMA CloseStep ==
  ASSUME ProcessInv, CloseNext
  PROVE  ProcessInv'
<1>1. PICK failed \in BOOLEAN :
        /\ app.pc = "close" /\ app.next <= Len(CloseOrder)
        /\ app' = [app EXCEPT !.next = @ + 1, !.err = @ \/ failed]
        /\ open' = open \ {CloseOrder[app.next]}
        /\ UNCHANGED <<options, running>> /\ calls' = calls
  BY DEF CloseNext, vars
<1>2. Len(CloseOrder) = 9
  BY DEF CloseOrder
<1>3. /\ app'.pc = "close" /\ app' \in [pc : Phases, next : Nat, err : BOOLEAN]
      /\ app'.next = app.next + 1 /\ app.next \in 1..(Len(CloseOrder) + 1)
      /\ running = {} /\ open \subseteq StillOpen
  <2>1. /\ app \in [pc : Phases, next : Nat, err : BOOLEAN]
        /\ app.next \in 1..(Len(CloseOrder) + 1) /\ running = {} /\ open \subseteq StillOpen
    BY <1>1 DEF ProcessInv, Phases
  <2> DEFINE e == app.err \/ failed
  <2>2. e \in BOOLEAN
    OBVIOUS
  <2>3. app' = [app EXCEPT !.next = app.next + 1, !.err = e]
    BY <1>1
  <2> HIDE DEF e
  <2>4. app.next + 1 \in Nat /\ app.pc = "close"
    BY <1>1, <2>1
  <2>5. app' \in [pc : Phases, next : Nat, err : BOOLEAN]
    BY <2>1, <2>2, <2>3, <2>4
  <2>6. app'.pc = "close" /\ app'.next = app.next + 1
    BY <2>1, <2>3, <2>4
  <2> QED
    BY <2>1, <2>5, <2>6
<1>4. open' \subseteq StillOpen'
  <2> SUFFICES ASSUME NEW x \in open' PROVE x \in StillOpen'
    OBVIOUS
  <2>1. PICK i \in app.next..Len(CloseOrder) : x = CloseOrder[i]
    BY <1>1, <1>3 DEF StillOpen
  <2>2. i \in (app.next + 1)..Len(CloseOrder)
    BY <1>1, <1>2, <1>3, <2>1
  <2> QED
    BY <1>3, <2>1, <2>2 DEF StillOpen
<1> QED
  BY <1>1, <1>2, <1>3, <1>4 DEF ProcessInv, Phases

\* The other steps of the main goroutine and of the workers, which open and close
\* nothing.
LEMMA PhaseStep ==
  ASSUME ProcessInv, UNCHANGED <<options, open>>,
         running' \subseteq running,
         \A c \in Callers : calls'[c].pc # "idle" => "query" \in running',
         \/ app' = app
         \/ /\ app' \in [pc : {"shutdown", "wait"}, next : Nat, err : BOOLEAN]
         \/ /\ app.pc = "wait" /\ running = {}
            /\ app' = [app EXCEPT !.pc = "close", !.next = 1]
         \/ app' = [app EXCEPT !.pc = "returned", !.err = TRUE]
         \/ /\ app.pc = "close" /\ app.next > Len(CloseOrder)
            /\ app' = [app EXCEPT !.pc = "returned"]
  PROVE  ProcessInv'
<1>1. \A w : Uses(w)' = Uses(w)
  BY DEF Uses
<1>2. /\ options' \in Configurations
      /\ open' \subseteq {CloseOrder[i] : i \in 1..Len(CloseOrder)}
      /\ \A w \in running' : Uses(w)' \subseteq open'
  BY <1>1 DEF ProcessInv
<1>3. Len(CloseOrder) = 9
  BY DEF CloseOrder
<1>4. app' \in [pc : Phases, next : Nat, err : BOOLEAN]
  <2>1. app \in [pc : Phases, next : Nat, err : BOOLEAN]
    BY DEF ProcessInv, Phases
  <2>2. CASE app' \in [pc : {"shutdown", "wait"}, next : Nat, err : BOOLEAN]
    BY <2>2 DEF Phases
  <2>3. CASE app' = [app EXCEPT !.pc = "close", !.next = 1]
    BY <2>1, <2>3 DEF Phases
  <2>4. CASE app' = [app EXCEPT !.pc = "returned", !.err = TRUE]
    BY <2>1, <2>4 DEF Phases
  <2>5. CASE app' = [app EXCEPT !.pc = "returned"]
    BY <2>1, <2>5 DEF Phases
  <2> QED
    BY <2>1, <2>2, <2>3, <2>4, <2>5
<1>5. CASE app' = app
  <2>1. DoneStages' = DoneStages /\ StillOpen' = StillOpen
    BY <1>5 DEF DoneStages, StillOpen
  <2> QED
    BY <1>2, <1>4, <1>5, <2>1 DEF ProcessInv, Phases
<1>6. CASE app' \in [pc : {"shutdown", "wait"}, next : Nat, err : BOOLEAN]
  BY <1>2, <1>4, <1>6 DEF ProcessInv, Phases
<1>7. CASE /\ app.pc = "wait" /\ running = {}
           /\ app' = [app EXCEPT !.pc = "close", !.next = 1]
  <2>1. app'.pc = "close" /\ app'.next = 1 /\ running' = {}
    BY <1>7 DEF ProcessInv
  <2>2. StillOpen' = {CloseOrder[i] : i \in 1..Len(CloseOrder)}
    BY <2>1 DEF StillOpen
  <2> QED
    BY <1>2, <1>3, <1>4, <2>1, <2>2 DEF ProcessInv, Phases
<1>8. CASE app' = [app EXCEPT !.pc = "returned", !.err = TRUE]
  <2>1. app'.pc = "returned" /\ app'.err = TRUE
    BY <1>8 DEF ProcessInv
  <2> QED
    BY <1>2, <1>4, <2>1 DEF ProcessInv, Phases
<1>9. CASE /\ app.pc = "close" /\ app.next > Len(CloseOrder)
           /\ app' = [app EXCEPT !.pc = "returned"]
  <2>1. app'.pc = "returned" /\ running' = {}
    BY <1>9 DEF ProcessInv
  <2>2. open = {}
    BY <1>3, <1>9 DEF ProcessInv, StillOpen
  <2> QED
    BY <1>2, <1>4, <2>1, <2>2 DEF ProcessInv, Phases
<1> QED
  BY <1>5, <1>6, <1>7, <1>8, <1>9

-------------------------------------------------------------------------------
(* The theorems *)

ProcessVars == <<vars, processVars>>

LEMMA ProcessInitInv == ProcessInit => IInv
<1> SUFFICES ASSUME ProcessInit PROVE IInv
  OBVIOUS
<1>1. /\ generation = 0 /\ holder = NoCaller /\ session = 0 /\ opened = 0 /\ dead = {}
      /\ calls = [c \in Callers |-> NoCall]
  BY DEF ProcessInit, Init
<1>2. NoCall \in Calls /\ \A c \in Callers : calls[c] = NoCall
  BY <1>1 DEF NoCall, Calls
<1>3. SessionTypeOK
  BY <1>1, <1>2 DEF SessionTypeOK
<1>4. LoginExclusive
  BY <1>1, <1>2, CallersAssumption DEF LoginExclusive, LoggingIn, NoCall
<1>5. \A c \in Callers : CallOK(calls[c]) /\ SentSince(calls[c], 0)
  BY <1>1, <1>2 DEF CallOK, LoggingIn, SentSince, NoCall
<1>6. LastLogin(0) /\ 0 \in 0..opened
  BY <1>1 DEF LastLogin
<1>7. SessionInv
  BY <1>3, <1>4, <1>5, <1>6 DEF SessionInv
<1>8. ProcessInv
  <2>1. /\ options \in Configurations /\ app = [pc |-> "new", next |-> 1, err |-> FALSE]
        /\ open = {} /\ running = {}
    BY DEF ProcessInit
  <2>2. DoneStages = {} /\ Len(Stages) = 10
    BY <2>1 DEF DoneStages, Stages
  <2>3. \A c \in Callers : calls[c].pc = "idle"
    BY <1>2 DEF NoCall
  <2> QED
    BY <2>1, <2>2, <2>3 DEF ProcessInv, Phases
<1> QED
  BY <1>7, <1>8 DEF IInv

\* A step of the main goroutine.
LEMMA AppStep ==
  ASSUME IInv, AppNext
  PROVE  IInv'
<1>1. SessionInv /\ ProcessInv
  BY DEF IInv
<1>2. UNCHANGED vars
  BY DEF AppNext, StageOK, StageFails, RunStarts, ShutdownStarts, ServerStops,
         WorkersDone, GraceOver, CloseNext, Returns
<1>3. SessionInv'
  BY <1>1, <1>2, SessionKept
<1>4. calls' = calls /\ app \in [pc : Phases, next : Nat, err : BOOLEAN]
      /\ \A c \in Callers : calls[c].pc # "idle" => "query" \in running
  BY <1>1, <1>2 DEF vars, ProcessInv, Phases
<1> SUFFICES ProcessInv'
  BY <1>3 DEF IInv
<1>5. CASE \E k \in 1..Len(Stages) :
             StageOK(k) \/ \E wasOpened \in BOOLEAN : StageFails(k, wasOpened)
  BY <1>1, <1>5, StageOKStep, StageFailsStep
<1>6. CASE RunStarts
  BY <1>1, <1>6, RunStep
<1>7. CASE ShutdownStarts
  <2>1. app' \in [pc : {"shutdown", "wait"}, next : Nat, err : BOOLEAN]
        /\ UNCHANGED <<options, open, running>>
    BY <1>4, <1>7 DEF ShutdownStarts, Phases
  <2> QED
    BY <1>1, <1>4, <2>1, PhaseStep
<1>8. CASE ServerStops
  <2>1. app' \in [pc : {"shutdown", "wait"}, next : Nat, err : BOOLEAN]
        /\ UNCHANGED <<options, open, running>>
    BY <1>4, <1>8 DEF ServerStops, Phases
  <2> QED
    BY <1>1, <1>4, <2>1, PhaseStep
<1>9. CASE WorkersDone
  BY <1>1, <1>4, <1>9, PhaseStep DEF WorkersDone
<1>10. CASE GraceOver
  BY <1>1, <1>4, <1>10, PhaseStep DEF GraceOver
<1>11. CASE CloseNext
  BY <1>1, <1>11, CloseStep
<1>12. CASE Returns
  BY <1>1, <1>4, <1>12, PhaseStep DEF Returns
<1> QED
  BY <1>5, <1>6, <1>7, <1>8, <1>9, <1>10, <1>11, <1>12 DEF AppNext

LEMMA ProcessNextInv == IInv /\ [ProcessNext]_ProcessVars => IInv'
<1> SUFFICES ASSUME IInv, [ProcessNext]_ProcessVars PROVE IInv'
  OBVIOUS
<1>1. SessionInv /\ ProcessInv /\ app \in [pc : Phases, next : Nat, err : BOOLEAN]
      /\ \A c \in Callers : calls[c].pc # "idle" => "query" \in running
  BY DEF IInv, ProcessInv, Phases
<1>2. CASE AppNext
  BY <1>2, AppStep
<1>3. CASE GraceEnds
  <2>1. UNCHANGED vars /\ calls' = calls /\ UNCHANGED <<options, app, open, running>>
    BY <1>3 DEF GraceEnds, vars
  <2> QED
    BY <1>1, <2>1, SessionKept, PhaseStep DEF IInv
<1>4. CASE Signal
  <2>1. Cancel /\ UNCHANGED <<options, app, open, running>>
    BY <1>4 DEF Signal
  <2>2. SessionInv' /\ \A c \in Callers : calls'[c].pc = calls[c].pc
    BY <1>1, <2>1, CancelStep
  <2> QED
    BY <1>1, <2>1, <2>2, PhaseStep DEF IInv
<1>5. CASE ServerFails
  <2>1. Cancel /\ UNCHANGED <<options, open, running>>
        /\ app' \in [pc : {"shutdown", "wait"}, next : Nat, err : BOOLEAN]
    BY <1>1, <1>5 DEF ServerFails, Phases
  <2>2. SessionInv' /\ \A c \in Callers : calls'[c].pc = calls[c].pc
    BY <1>1, <2>1, CancelStep
  <2> QED
    BY <1>1, <2>1, <2>2, PhaseStep DEF IInv
<1>6. CASE SessionExpires
  <2>1. Expire /\ calls' = calls /\ UNCHANGED <<options, app, open, running>>
    BY <1>6 DEF SessionExpires, Expire, processVars
  <2> QED
    BY <1>1, <2>1, ExpireStep, PhaseStep DEF IInv
<1>7. ASSUME NEW w \in running, WorkerStops(w)
      PROVE  IInv'
  <2>1. /\ UNCHANGED vars /\ calls' = calls /\ UNCHANGED <<options, app, open>>
        /\ running' = running \ {w}
        /\ w = "query" => \A c \in Callers : calls[c].pc = "idle"
    BY <1>7 DEF WorkerStops, vars
  <2>2. \A c \in Callers : calls'[c].pc # "idle" => "query" \in running'
    BY <1>1, <2>1
  <2> QED
    BY <1>1, <2>1, <2>2, SessionKept, PhaseStep DEF IInv
<1>8. ASSUME NEW c \in Callers, QueryCall(c)
      PROVE  IInv'
  <2>1. "query" \in running /\ (Step(c) \/ Locked(c) \/ ContextEnds(c))
        /\ UNCHANGED <<options, app, open, running>>
    BY <1>8 DEF QueryCall, processVars
  <2>2. SessionInv'
    BY <1>1, <2>1, CallStep, CookieStep, LoginStep DEF Step
  <2>3. ProcessInv'
    BY <1>1, <2>1, PhaseStep
  <2> QED
    BY <2>2, <2>3 DEF IInv
<1>9. CASE UNCHANGED ProcessVars
  <2>1. UNCHANGED vars /\ calls' = calls /\ UNCHANGED <<options, app, open, running>>
    BY <1>9 DEF ProcessVars, processVars, vars
  <2> QED
    BY <1>1, <2>1, SessionKept, PhaseStep DEF IInv
<1> QED
  BY <1>2, <1>3, <1>4, <1>5, <1>6, <1>7, <1>8, <1>9 DEF ProcessNext

THEOREM ProcessInvariance == ProcessSpec => []IInv
  BY ProcessInitInv, ProcessNextInv, PTL DEF ProcessSpec, ProcessVars

\* Calls that are rejected together, or late, log in once (authenticate compares the
\* generation under the mutex): a login is completed only after a session has expired,
\* the first one apart.
THEOREM LoginsAreRare == ProcessSpec => []LoginsAreNeeded
<1>1. IInv => LoginsAreNeeded
  <2> SUFFICES ASSUME IInv PROVE generation <= 1 + Cardinality(dead)
    BY DEF LoginsAreNeeded
  <2>1. PICK m \in 0..opened : LastLogin(m)
    BY DEF IInv, SessionInv
  <2> DEFINE Counted == dead \cap (1..(m - 1))
  <2>2. 1 \in Int /\ opened \in Int /\ dead \in SUBSET (1..opened) /\ generation \in Nat
    BY DEF IInv, SessionInv, SessionTypeOK
  <2>3. IsFiniteSet(1..opened)
    BY <2>2, FS_Interval
  <2>4. generation > 0 => generation <= 1 + Cardinality(Counted)
    BY <2>1 DEF LastLogin
  <2>5. Counted \in SUBSET dead
    OBVIOUS
  <2> HIDE DEF Counted
  <2>6. /\ IsFiniteSet(dead) /\ Cardinality(dead) \in Nat
        /\ Cardinality(Counted) \in Nat /\ Cardinality(Counted) <= Cardinality(dead)
    BY <2>2, <2>3, <2>5, FS_Subset, FS_CardinalityType
  <2> QED
    BY <2>2, <2>4, <2>6
<1> QED
  BY <1>1, ProcessInvariance, PTL

\* When New fails, everything it had opened is closed again, whatever stage failed and
\* whichever parts are configured.
THEOREM FailedStartIsClean == ProcessSpec => []FailedStartLeavesNothingOpen
<1>1. IInv => FailedStartLeavesNothingOpen
  BY DEF IInv, ProcessInv, FailedStartLeavesNothingOpen
<1> QED
  BY <1>1, ProcessInvariance, PTL

\* Run closes nothing that a worker or a waiting query call may use, and reports
\* success only if all workers have stopped and everything is closed.
THEOREM NothingClosedInUse == ProcessSpec => []StoppedBeforeClosed
<1>1. IInv => StoppedBeforeClosed
  <2> SUFFICES ASSUME IInv PROVE StoppedBeforeClosed
    OBVIOUS
  <2>1. Uses("query") = {"query"}
    BY DEF Uses
  <2> QED
    BY <2>1 DEF IInv, ProcessInv, StoppedBeforeClosed
<1> QED
  BY <1>1, ProcessInvariance, PTL
===============================================================================
