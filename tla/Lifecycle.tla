------------------------------- MODULE Lifecycle -------------------------------
(***************************************************************************)
(* The life of the process (cmd/ddae-exporter, internal/app): New opens    *)
(* the stores and clients the configuration asks for, one after the other, *)
(* and closes them again when one fails; Run starts the workers and the    *)
(* server, waits for a signal or a server error, and shuts down within a   *)
(* grace period.                                                           *)
(*                                                                         *)
(* The query pipeline is not just a worker here: its concurrent calls and  *)
(* their logins are those of QuerySession, whose mutex a call waits for    *)
(* without looking at its context.  The other workers are goroutines that  *)
(* stop some time after their context ends, or never.                      *)
(***************************************************************************)
EXTENDS QuerySession, Sequences

CONSTANT Configurations   \* the enabled parts, and who of Callers is used at once

ASSUME ConfigurationAssumption ==
  \A o \in Configurations :
    /\ o.parts \subseteq {"resources", "alerts", "logs", "query",
                          "logBackfill", "queryBackfill"}
    /\ o.parts \cap {"resources", "alerts", "logs", "query"} # {}
    /\ "logBackfill" \in o.parts => "logs" \in o.parts
    /\ "queryBackfill" \in o.parts => "query" \in o.parts
    /\ o.callers \subseteq Callers

VARIABLES
  options,    \* the configuration of this process
  app,        \* where New or Run is
  open,       \* resources that are open
  running,    \* workers that have not returned
  cancelled,  \* the context of the workers has ended
  grace       \* the grace period has passed

processVars == <<options, app, open, running, cancelled, grace>>

Enabled(part) == part \in options.parts

-------------------------------------------------------------------------------
(* New *)

\* What New does in order, and for which part.
Stages ==
  << [name |-> "ddae",          for |-> {"resources", "alerts", "logs"}],
     [name |-> "outbox",        for |-> {"alerts"}],
     [name |-> "producer",      for |-> {"alerts"}],
     [name |-> "logOutbox",     for |-> {"logs"}],
     [name |-> "logProducer",   for |-> {"logs"}],
     [name |-> "registry",      for |-> {"resources", "alerts", "logs", "query"}],
     [name |-> "query",         for |-> {"query"}],
     [name |-> "historyState",  for |-> {"logBackfill", "queryBackfill"}],
     [name |-> "logBackfill",   for |-> {"logBackfill"}],
     [name |-> "queryBackfill", for |-> {"queryBackfill"}] >>

\* What is left to do, in the configuration of this process.
Plan == {k \in app.next..Len(Stages) : Stages[k].for \cap options.parts # {}}

IsNext(k) == k \in Plan /\ \A j \in Plan : k <= j

AlertResources == {"ddae", "outbox", "producer"}

LogResources == {"logOutbox", "logProducer"}

HistoryResources == {"historyState", "logBackfill", "queryBackfill"}

\* Variant: the log store is forgotten where the query pipeline fails.
CleanupForgetsLogs ==
  [ddae |-> {}, outbox |-> {"ddae"}, producer |-> {"ddae", "outbox"},
   logOutbox |-> AlertResources, logProducer |-> AlertResources \cup {"logOutbox"},
   registry |-> AlertResources \cup LogResources,
   query |-> AlertResources \cup {"logProducer", "query"},
   historyState |-> AlertResources \cup LogResources \cup {"query"},
   logBackfill |-> AlertResources \cup LogResources \cup {"query"} \cup HistoryResources,
   queryBackfill |-> AlertResources \cup LogResources \cup {"query"} \cup HistoryResources]

\* What New closes, as far as it is open, when a stage fails.
Cleanup ==
  [ddae |-> {}, outbox |-> {"ddae"}, producer |-> {"ddae", "outbox"},
   logOutbox |-> AlertResources, logProducer |-> AlertResources \cup {"logOutbox"},
   registry |-> AlertResources \cup LogResources,
   query |-> AlertResources \cup LogResources \cup {"query"},
   historyState |-> AlertResources \cup LogResources \cup {"query"},
   logBackfill |-> AlertResources \cup LogResources \cup {"query"} \cup HistoryResources,
   queryBackfill |-> AlertResources \cup LogResources \cup {"query"} \cup HistoryResources]

StageOK(k) ==
  /\ app.pc = "new" /\ IsNext(k)
  /\ open' = open \cup ({Stages[k].name} \ {"registry"})
  /\ app' = [app EXCEPT !.next = k + 1]
  /\ UNCHANGED <<vars, options, running, cancelled, grace>>

\* A collector of metrics is registered after it is opened: query and backfills
\* may be open when their stage fails.
StageFails(k, wasOpened) ==
  /\ app.pc = "new" /\ IsNext(k)
  /\ LET name == Stages[k].name
     IN  /\ wasOpened => name \in {"query", "logBackfill", "queryBackfill"}
         /\ open' = (IF wasOpened THEN open \cup {name} ELSE open) \ Cleanup[name]
  /\ app' = [app EXCEPT !.pc = "failed"]
  /\ UNCHANGED <<vars, options, running, cancelled, grace>>

-------------------------------------------------------------------------------
(* Run *)

Workers ==
  UNION {IF Enabled("resources") THEN {"manager"} ELSE {},
         IF Enabled("alerts") THEN {"alerts", "publisher"} ELSE {},
         IF Enabled("logs") THEN {"logs", "logPublisher"} ELSE {},
         options.parts \cap {"query", "logBackfill", "queryBackfill"}}

\* What a worker works on.
Uses(w) ==
  [manager |-> {"ddae"},
   alerts |-> {"ddae", "outbox"}, publisher |-> {"producer", "outbox"},
   logs |-> {"ddae", "logOutbox"}, logPublisher |-> {"logProducer", "logOutbox"},
   query |-> {"query"},
   logBackfill |-> {"logBackfill", "historyState", "logOutbox"},
   queryBackfill |-> {"queryBackfill", "historyState", "query"}][w]

RunStarts ==
  /\ app.pc = "new" /\ Plan = {}
  /\ app' = [app EXCEPT !.pc = "run"]
  /\ running' = Workers
  /\ UNCHANGED <<vars, options, open, cancelled, grace>>

\* The contexts of the workers, and of the calls they make, end.
Cancel ==
  /\ cancelled' = TRUE
  /\ calls' = [c \in Callers |->
       IF calls[c].pc = "idle" THEN calls[c] ELSE [calls[c] EXCEPT !.ended = TRUE]]
  /\ UNCHANGED <<generation, holder, session, opened, dead>>

\* SIGINT or SIGTERM: the context of Run, from which the workers' is derived.
Signal ==
  /\ app.pc = "run" /\ ~cancelled
  /\ Cancel
  /\ UNCHANGED <<options, app, open, running, grace>>

\* The select receives the error of ListenAndServe, also when a signal is there.
ServerFails ==
  /\ app.pc = "run"
  /\ app' = [app EXCEPT !.pc = "shutdown", !.err = TRUE]
  /\ Cancel
  /\ UNCHANGED <<options, open, running, grace>>

ShutdownStarts ==
  /\ app.pc = "run" /\ cancelled
  /\ app' = [app EXCEPT !.pc = "shutdown"]
  /\ UNCHANGED <<vars, options, open, running, cancelled, grace>>

GraceEnds ==
  /\ app.pc \in {"shutdown", "wait"} /\ ~grace
  /\ grace' = TRUE
  /\ UNCHANGED <<vars, options, app, open, running, cancelled>>

\* Shutdown of the server returns when its requests have ended, or with an error
\* when the grace period has passed.
ServerStops ==
  /\ app.pc = "shutdown"
  /\ \/ app' = [app EXCEPT !.pc = "wait"]
     \/ grace /\ app' = [app EXCEPT !.pc = "wait", !.err = TRUE]
  /\ UNCHANGED <<vars, options, open, running, cancelled, grace>>

WorkersDone ==
  /\ app.pc = "wait" /\ running = {}
  /\ app' = [app EXCEPT !.pc = "close", !.next = 1]
  /\ UNCHANGED <<vars, options, open, running, cancelled, grace>>

\* Variant: after the grace period the resources are closed all the same.
GraceOverCloses ==
  /\ app.pc = "wait" /\ grace
  /\ app' = [app EXCEPT !.pc = "close", !.next = 1, !.err = TRUE]
  /\ UNCHANGED <<vars, options, open, running, cancelled, grace>>

\* Variant: Run waits for its workers.
GraceOverWaits == FALSE /\ UNCHANGED <<vars, processVars>>

GraceOver ==
  /\ app.pc = "wait" /\ grace
  /\ app' = [app EXCEPT !.pc = "returned", !.err = TRUE]
  /\ UNCHANGED <<vars, options, open, running, cancelled, grace>>

CloseOrder ==
  <<"logBackfill", "queryBackfill", "historyState", "producer", "logProducer",
    "ddae", "query", "outbox", "logOutbox">>

\* A Close that fails is reported and the next ones follow.
CloseNext ==
  /\ app.pc = "close" /\ app.next <= Len(CloseOrder)
  /\ open' = open \ {CloseOrder[app.next]}
  /\ \E failed \in BOOLEAN :
       app' = [app EXCEPT !.next = @ + 1, !.err = @ \/ failed]
  /\ UNCHANGED <<vars, options, running, cancelled, grace>>

Returns ==
  /\ app.pc = "close" /\ app.next > Len(CloseOrder)
  /\ app' = [app EXCEPT !.pc = "returned"]
  /\ UNCHANGED <<vars, options, open, running, cancelled, grace>>

-------------------------------------------------------------------------------
(* The workers *)

\* A worker returns after its context has ended; the query pipeline when its
\* calls have ended.
WorkerStops(w) ==
  /\ w \in running /\ cancelled
  /\ w = "query" => \A c \in Callers : calls[c].pc = "idle"
  /\ running' = running \ {w}
  /\ UNCHANGED <<vars, options, app, open, cancelled, grace>>

\* The calls of the running query pipeline.  One that starts after the context
\* has ended would send nothing.
QueryCall(c) ==
  /\ "query" \in running /\ c \in options.callers
  /\ cancelled => calls[c].pc # "idle"
  /\ Step(c) \/ Locked(c) \/ ContextEnds(c)
  /\ UNCHANGED processVars

SessionExpires == "query" \in running /\ Expire /\ UNCHANGED processVars

ProcessInit ==
  /\ Init
  /\ options \in Configurations
  /\ app = [pc |-> "new", next |-> 1, err |-> FALSE]
  /\ open = {} /\ running = {}
  /\ cancelled = FALSE /\ grace = FALSE

AppNext ==
  \/ \E k \in 1..Len(Stages) :
       StageOK(k) \/ \E wasOpened \in BOOLEAN : StageFails(k, wasOpened)
  \/ RunStarts
  \/ ShutdownStarts \/ ServerStops \/ WorkersDone \/ GraceOver \/ CloseNext \/ Returns

ProcessNext ==
  \/ AppNext \/ GraceEnds \/ Signal \/ ServerFails \/ SessionExpires
  \/ \E w \in running : WorkerStops(w)
  \/ \E c \in Callers : QueryCall(c)

\* The main goroutine is scheduled and the grace period passes.  Nothing is
\* assumed of the workers, of signals, or of a server that keeps requests open.
ProcessSpec ==
  /\ ProcessInit /\ [][ProcessNext]_<<vars, processVars>>
  /\ WF_<<vars, processVars>>(AppNext) /\ WF_<<vars, processVars>>(GraceEnds)

-------------------------------------------------------------------------------
(* Properties *)

\* When New fails, everything it had opened is closed again, whatever part
\* failed and whichever parts are configured.
FailedStartLeavesNothingOpen == app.pc = "failed" => open = {}

\* Nothing is closed while a worker, or a call of the query pipeline that still
\* waits for a login, may use it; and Run reports success only if all workers
\* have stopped and everything is closed.
StoppedBeforeClosed ==
  /\ \A w \in running : Uses(w) \subseteq open
  /\ \A c \in Callers : calls[c].pc # "idle" => "query" \in open
  /\ (app.pc = "returned" /\ ~app.err) => open = {} /\ running = {}

\* After a signal or a server error Run returns, even if a worker never does.
RunReturns == cancelled ~> (app.pc = "returned")
===============================================================================
