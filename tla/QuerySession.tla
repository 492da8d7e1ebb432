----------------------------- MODULE QuerySession -----------------------------
(***************************************************************************)
(* The web session of internal/queryclient: concurrent calls share one     *)
(* cookie jar; a call that is answered 401 logs in under the client's      *)
(* mutex, unless the session generation has moved on, and repeats its GET. *)
(*                                                                         *)
(* A session is numbered in the order in which the server opened it, 0 is  *)
(* an empty jar.  The mutex is held during a whole login, so the login is  *)
(* several steps and reading the generation waits for it.                  *)
(***************************************************************************)
EXTENDS Integers, FiniteSets

CONSTANTS
  Callers,
  NoCaller,
  RetryMax,      \* HTTP retries of a GET
  MaxSessions    \* bound: sessions the server opens

ASSUME CallersAssumption == NoCaller \notin Callers
ASSUME RetryAssumption == RetryMax \in Nat

VARIABLES
  generation,  \* completed logins
  holder,      \* who holds the mutex for a login
  session,     \* the session whose cookie is in the jar
  opened,      \* sessions opened by the server
  dead,        \* sessions that have expired
  calls

vars == <<generation, holder, session, opened, dead, calls>>

NoCall ==
  [pc |-> "idle", read |-> 0, cookie |-> 0, attempt |-> 0, relogged |-> FALSE,
   ended |-> FALSE]

Init ==
  /\ generation = 0 /\ holder = NoCaller
  /\ session = 0 /\ opened = 0 /\ dead = {}
  /\ calls = [c \in Callers |-> NoCall]

\* The server takes the session a request was sent with.
Alive(s) == s # 0 /\ s \notin dead

-------------------------------------------------------------------------------
(* The server and the callers' contexts *)

Expire ==
  /\ \E s \in (1..opened) \ dead : dead' = dead \cup {s}
  /\ UNCHANGED <<generation, holder, session, opened, calls>>

ContextEnds(c) ==
  /\ calls[c].pc # "idle" /\ ~calls[c].ended
  /\ calls' = [calls EXCEPT ![c].ended = TRUE]
  /\ UNCHANGED <<generation, holder, session, opened, dead>>

-------------------------------------------------------------------------------
(* A call: get *)

Goes(c, to) == calls' = [calls EXCEPT ![c].pc = to]

Ends(c) == calls' = [calls EXCEPT ![c] = NoCall]

CallStarts(c) ==
  /\ calls[c].pc = "idle"
  /\ calls' = [calls EXCEPT ![c] = [NoCall EXCEPT !.pc = "read"]]
  /\ UNCHANGED <<generation, holder, session, opened, dead>>

\* The generation is read before the request, under the mutex.
ReadGeneration(c) ==
  /\ calls[c].pc = "read" /\ holder = NoCaller
  /\ calls' = [calls EXCEPT ![c].pc = "send", ![c].read = generation]
  /\ UNCHANGED <<generation, holder, session, opened, dead>>

\* The request takes the cookie that is in the jar when it is sent, which another
\* call's login may have replaced since.
Send(c) ==
  /\ calls[c].pc = "send"
  /\ calls' = [calls EXCEPT ![c].pc = "get", ![c].cookie = session]
  /\ UNCHANGED <<generation, holder, session, opened, dead>>

GetOK(c) ==
  /\ calls[c].pc = "get" /\ Alive(calls[c].cookie) /\ ~calls[c].ended
  /\ Ends(c)
  /\ UNCHANGED <<generation, holder, session, opened, dead>>

\* 401: one new login, then the attempt is repeated; the second 401 ends the call.
GetRejected(c) ==
  /\ calls[c].pc = "get" /\ ~Alive(calls[c].cookie) /\ ~calls[c].ended
  /\ IF calls[c].relogged THEN Ends(c) ELSE Goes(c, "lock")
  /\ UNCHANGED <<generation, holder, session, opened, dead>>

\* A transport failure, 429 and 5xx are repeated after a pause, other answers
\* (403, 404) end the call.
GetFails(c, retryable) ==
  /\ calls[c].pc = "get"
  /\ IF retryable /\ calls[c].attempt < RetryMax THEN Goes(c, "pause") ELSE Ends(c)
  /\ UNCHANGED <<generation, holder, session, opened, dead>>

Pause(c) ==
  /\ calls[c].pc = "pause"
  /\ IF calls[c].ended THEN Ends(c)
     ELSE calls' = [calls EXCEPT ![c].pc = "read", ![c].attempt = @ + 1]
  /\ UNCHANGED <<generation, holder, session, opened, dead>>

-------------------------------------------------------------------------------
(* The login: authenticate *)

\* Variant: whoever gets the mutex logs in.
LoginNeededAlways(c) == TRUE

\* Nobody has logged in since the caller read the generation.
LoginNeeded(c) == generation = calls[c].read

Authenticate(c) ==
  /\ calls[c].pc = "lock" /\ holder = NoCaller
  /\ IF LoginNeeded(c)
     THEN holder' = c /\ Goes(c, "login")
     ELSE /\ UNCHANGED holder
          /\ calls' = [calls EXCEPT ![c].pc = "read", ![c].relogged = TRUE]
  /\ UNCHANGED <<generation, session, opened, dead>>

\* The redirects reach the callback of the engine, at once or after the password
\* form: the server opens a session and the jar has its cookie.
LoginCookie(c) ==
  /\ calls[c].pc = "login" /\ ~calls[c].ended /\ opened < MaxSessions
  /\ opened' = opened + 1 /\ session' = opened + 1
  /\ Goes(c, "landing")
  /\ UNCHANGED <<generation, holder, dead>>

\* The chain ends at /ui/insights/.
LoginOK(c) ==
  /\ calls[c].pc = "landing" /\ ~calls[c].ended
  /\ generation' = generation + 1
  /\ holder' = NoCaller
  /\ calls' = [calls EXCEPT ![c].pc = "read", ![c].relogged = TRUE]
  /\ UNCHANGED <<session, opened, dead>>

\* Any redirect, form or request on the way may fail, also after the cookie was
\* set: the generation stays and the call ends.
LoginFails(c) ==
  /\ calls[c].pc \in {"login", "landing"}
  /\ holder' = NoCaller
  /\ Ends(c)
  /\ UNCHANGED <<generation, session, opened, dead>>

Step(c) ==
  \/ CallStarts(c) \/ Send(c) \/ GetOK(c) \/ GetRejected(c) \/ Pause(c)
  \/ LoginCookie(c) \/ LoginOK(c) \/ LoginFails(c)
  \/ \E retryable \in BOOLEAN : GetFails(c, retryable)

Locked(c) == ReadGeneration(c) \/ Authenticate(c)

-------------------------------------------------------------------------------
(* Properties *)

\* A login is completed only after a session had expired, the first one apart:
\* calls that are rejected together, or late, log in once, and one that only
\* failed after its cookie was set costs no login.
LoginsAreNeeded == generation <= 1 + Cardinality(dead)
===============================================================================
