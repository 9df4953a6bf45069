----------------------------- MODULE ServerLifecycle ---------------------------
(***************************************************************************)
(* Starting and stopping the process (server.js, config/db.js): the port   *)
(* that may be in use, the connection to MongoDB that is retried without   *)
(* holding up requests, and gracefulShutdown: Socket.IO, the HTTP server,  *)
(* MongoDB, in this order, against a timer of eight seconds.               *)
(***************************************************************************)
EXTENDS Naturals

CONSTANT MaxRequests     \* bound of the instance: requests being answered

ASSUME LifecycleAssumption == MaxRequests \in Nat

VARIABLES
  listener,   \* closed, binding, retrying (port in use), listening, draining
  mongo,      \* off, connecting, waiting (for the retry), up, lost, closed
  restores,   \* runs of restoreActiveCountdowns
  serving,    \* requests being answered
  shutdown,   \* no, io, http, mongo: what gracefulShutdown waits for
  exited      \* no, clean, forced, port

lifeVars == <<listener, mongo, restores, serving, shutdown, exited>>

LifeInit ==
  /\ listener = "binding" /\ mongo = "off" /\ restores = 0
  /\ serving = 0 /\ shutdown = "no" /\ exited = "no"

Running == exited = "no"

(* The listening callback starts the jobs and the connection to MongoDB.   *)
Listening ==
  /\ Running /\ listener = "binding"
  /\ listener' = "listening" /\ mongo' = "connecting"
  /\ UNCHANGED <<restores, serving, shutdown, exited>>

(* EADDRINUSE: under nodemon a timer tries again, otherwise exit(1).  Any  *)
(* other error is only logged.                                             *)
ListenFails ==
  /\ Running /\ listener = "binding"
  /\ \/ listener' \in {"retrying", "closed"} /\ UNCHANGED exited
     \/ exited' = "port" /\ UNCHANGED listener
  /\ UNCHANGED <<mongo, restores, serving, shutdown>>

(* The timer looks whether the server is shutting down by now.             *)
MutantAfterRetry == "binding"
AfterRetry == IF shutdown = "no" THEN "binding" ELSE "closed"
RetryListen ==
  /\ Running /\ listener = "retrying"
  /\ listener' = AfterRetry
  /\ UNCHANGED <<mongo, restores, serving, shutdown, exited>>

(* tryConnect; only the first success restores the countdowns, a later     *)
(* reconnection is the driver's and restores nothing.                      *)
TryConnect ==
  /\ Running /\ mongo = "connecting"
  /\ \/ mongo' = "up" /\ restores' = restores + 1
     \/ mongo' = "waiting" /\ UNCHANGED restores
  /\ UNCHANGED <<listener, serving, shutdown, exited>>

MutantRetriesFrom == {"waiting", "lost"}
RetriesFrom == {"waiting"}
RetryConnect ==
  /\ Running /\ mongo \in RetriesFrom
  /\ mongo' = "connecting"
  /\ UNCHANGED <<listener, restores, serving, shutdown, exited>>

MongoFlaps ==
  /\ Running /\ mongo \in {"up", "lost"}
  /\ mongo' = IF mongo = "up" THEN "lost" ELSE "up"
  /\ UNCHANGED <<listener, restores, serving, shutdown, exited>>

Accept ==
  /\ Running /\ listener = "listening" /\ serving < MaxRequests
  /\ serving' = serving + 1
  /\ UNCHANGED <<listener, mongo, restores, shutdown, exited>>

Respond ==
  /\ Running /\ serving > 0
  /\ serving' = serving - 1
  /\ UNCHANGED <<listener, mongo, restores, shutdown, exited>>

(* A signal or an uncaught exception, the first one: io.close also closes  *)
(* the HTTP server it is attached to.  listen() has its result before the  *)
(* event loop turns to a signal.                                           *)
GracefulShutdown ==
  /\ Running /\ shutdown = "no" /\ listener # "binding"
  /\ shutdown' = "io"
  /\ listener' = IF listener = "listening" THEN "draining" ELSE listener
  /\ UNCHANGED <<mongo, restores, serving, exited>>

(* The callback of io.close, or its error, which is caught and leaves the  *)
(* wait to server.close.                                                   *)
IoClosed ==
  /\ Running /\ shutdown = "io"
  /\ shutdown' = "http"
  /\ UNCHANGED <<listener, mongo, restores, serving, exited>>

(* The callback of server.close comes when the last request is answered.   *)
MutantNotAwaited == TRUE
AllAnswered == serving = 0
HttpClosed ==
  /\ Running /\ shutdown = "http" /\ AllAnswered
  /\ shutdown' = "mongo"
  /\ listener' = IF listener = "draining" THEN "closed" ELSE listener
  /\ UNCHANGED <<mongo, restores, serving, exited>>

(* close() when there is something to close, or its logged error.          *)
MongoClosed ==
  /\ Running /\ shutdown = "mongo" /\ mongo # "closed"
  /\ mongo' \in {IF mongo \in {"connecting", "up"} THEN "closed" ELSE mongo, mongo}
  /\ exited' = IF mongo' = "closed" THEN "no" ELSE "clean"
  /\ UNCHANGED <<listener, restores, serving, shutdown>>

Exit ==
  /\ Running /\ mongo = "closed"
  /\ exited' = "clean"
  /\ UNCHANGED <<listener, mongo, restores, serving, shutdown>>

(* The timer of eight seconds, which runs from the start of the shutdown.  *)
ForcedExit ==
  /\ Running /\ shutdown # "no"
  /\ exited' = "forced"
  /\ UNCHANGED <<listener, mongo, restores, serving, shutdown>>

LifeNext ==
  \/ Listening \/ ListenFails \/ RetryListen
  \/ TryConnect \/ RetryConnect \/ MongoFlaps
  \/ Accept \/ Respond
  \/ GracefulShutdown \/ IoClosed \/ HttpClosed \/ MongoClosed \/ Exit
  \/ ForcedExit

LifeSpec == LifeInit /\ [][LifeNext]_lifeVars

--------------------------------------------------------------------------------
(* Every variable keeps its shape.                                         *)
LifeTypeOK ==
  /\ listener \in {"closed", "binding", "retrying", "listening", "draining"}
  /\ mongo \in {"off", "connecting", "waiting", "up", "lost", "closed"}
  /\ restores \in 0..1
  /\ serving \in 0..MaxRequests
  /\ shutdown \in {"no", "io", "http", "mongo"}
  /\ exited \in {"no", "clean", "forced", "port"}

(* MongoDB is closed, and the process ends cleanly, only when every        *)
(* accepted request is answered and none can be accepted any more, also    *)
(* when closing Socket.IO failed or the port was still being tried again   *)
(* as the signal came.                                                     *)
AcceptedAreAnswered ==
  mongo = "closed" \/ exited = "clean" =>
    serving = 0 /\ listener \notin {"binding", "listening"}
================================================================================
