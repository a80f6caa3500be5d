---------------------------- MODULE AppLifecycle -----------------------------
(***************************************************************************)
(* internal/app/resources.go, cmd/server and cmd/worker: one process from  *)
(* its environment to its exit status.  Build opens the PostgreSQL pool,   *)
(* the Redis client and the object store, and puts a closer of each of the *)
(* first two on a stack; the process works until SIGTERM or a failure; the *)
(* closers run, the last one first; the process exits.                     *)
(*                                                                         *)
(*   load -> postgres -> redis -> storage -> select -> shutdown -> close   *)
(*                                     \                            |      *)
(*                                      top <-> blocked, process ->-+      *)
(*                                                                 exited  *)
(*                                                                         *)
(* Concurrent with the main goroutine run, in a server, the goroutine of   *)
(* ListenAndServe, whose result travels through a channel of capacity one, *)
(* and the handlers of the requests.                                       *)
(***************************************************************************)
EXTENDS Configuration, SequencesExt, FiniteSets

CONSTANTS Handlers,      \* the connections a server may have
          Environments   \* the environments a process may be started in

(* What stands for a number is one, or Unset, or does not parse.           *)
ASSUME EnvironmentsAssumption ==
  \A setting \in Environments, name \in Numbers :
    setting[name] \in Int \cup {Unset, Malformed}

VARIABLES program,       \* the executable: "server" or "worker"
          environment,
          pc,            \* the next step of the main goroutine
          stack,         \* the resources whose closers were added
          open,          \* the resources that are open
          closed,        \* those whose closers were called, in this order
          outcome,       \* what RunServer or RunWorker returns: "none", "nil", "error"
          signalled,     \* the context of main is done
          shutdown,      \* server.Shutdown: "no", "begun", "drained", "gaveUp"
          listener,      \* the goroutine of ListenAndServe
          channel,       \* errorsChannel
          handler        \* of each connection: "none", "idle", "running", "statement"

mainVars == <<pc, stack, open, closed, outcome, shutdown>>
serving == <<listener, channel, handler>>
vars == <<program, environment, mainVars, signalled, serving>>

Resources == {"pool", "redis"}

TypeOK ==
  /\ program \in {"server", "worker"}
  /\ environment \in Environments
  /\ pc \in {"load", "postgres", "redis", "storage", "select", "shutdown",
             "top", "blocked", "process", "close", "poolClose", "exited"}
  /\ stack \in Seq(Resources)
  /\ open \subseteq ToSet(stack)
  /\ closed \in Seq(Resources)
  /\ outcome \in {"none", "nil", "error"}
  /\ signalled \in BOOLEAN
  /\ shutdown \in {"no", "begun", "drained", "gaveUp"}
  /\ listener \in {"off", "starting", "serving", "refused", "failed", "closed", "done"}
  /\ channel \in Seq({"error", "ErrServerClosed"})
  /\ handler \in [Handlers -> {"none", "idle", "running", "statement"}]

Init ==
  /\ program \in {"server", "worker"}
  /\ environment \in Environments
  /\ pc = "load"
  /\ stack = <<>>
  /\ open = {}
  /\ closed = <<>>
  /\ outcome = "none"
  /\ signalled = FALSE
  /\ shutdown = "no"
  /\ listener = "off"
  /\ channel = <<>>
  /\ handler = [h \in Handlers |-> "none"]

Goto(step) == pc' = step

(* The function returns and the deferred Close begins.                     *)
Return(result) == Goto("close") /\ outcome' = result

-----------------------------------------------------------------------------
(* main: the configuration, then the logger, whose level or format may be  *)
(* wrong.  Nothing is open yet.                                            *)
LoadConfig ==
  /\ pc = "load"
  /\ \/ Accepted(environment) /\ Goto("postgres") /\ UNCHANGED outcome
     \/ Goto("exited") /\ outcome' = "error"
  /\ UNCHANGED <<stack, open, closed, shutdown>>

\* Mutated form: a resource whose Ping failed is not closed.
OpenLeaky(step, resource, next) ==
  /\ pc = step
  /\ open' = open \cup {resource}
  /\ \/ ~signalled /\ stack' = Append(stack, resource) /\ Goto(next) /\ UNCHANGED outcome
     \/ Return("error") /\ UNCHANGED stack
  /\ UNCHANGED <<closed, shutdown>>

(* NewPostgres and NewRedis ping with the context of main and close what   *)
(* they opened themselves if that fails.                                   *)
Open(step, resource, next) ==
  /\ pc = step
  /\ \/ /\ ~signalled
        /\ open' = open \cup {resource}
        /\ stack' = Append(stack, resource)
        /\ Goto(next)
        /\ UNCHANGED outcome
     \/ Return("error") /\ UNCHANGED <<open, stack>>
  /\ UNCHANGED <<closed, shutdown>>

OpenPostgres == Open("postgres", "pool", "redis")

OpenRedis == Open("redis", "redis", "storage")

(* A directory or an SDK client: nothing to close.                         *)
OpenStorage ==
  /\ pc = "storage"
  /\ \/ /\ Goto(IF program = "server" THEN "select" ELSE "top")
        /\ listener' = IF program = "server" THEN "starting" ELSE "off"
        /\ UNCHANGED outcome
     \/ Return("error") /\ UNCHANGED listener
  /\ UNCHANGED <<stack, open, closed, shutdown, channel, handler>>

-----------------------------------------------------------------------------
(* RunServer's select: with both ready, either.                            *)
\* Mutated form: a failed listener is only logged.
ReceiveErrorLogged ==
  /\ pc = "select"
  /\ channel # <<>>
  /\ channel' = Tail(channel)
  /\ UNCHANGED <<mainVars, listener, handler>>

ReceiveError ==
  /\ pc = "select"
  /\ channel # <<>>
  /\ channel' = Tail(channel)
  /\ Return(IF Head(channel) = "ErrServerClosed" THEN "nil" ELSE "error")
  /\ UNCHANGED <<stack, open, closed, shutdown, listener, handler>>

BeginShutdown ==
  /\ pc = "select"
  /\ signalled
  /\ Goto("shutdown")
  /\ shutdown' = "begun"
  /\ UNCHANGED <<stack, open, closed, outcome>>

Active == {h \in Handlers : handler[h] \in {"running", "statement"}}

(* Shutdown waits for the listener, then closes idle connections, and      *)
(* returns nil once there are no others.                                   *)
Drained ==
  /\ pc = "shutdown"
  /\ listener # "serving"
  /\ Active = {}
  /\ handler' = [h \in Handlers |-> "none"]
  /\ shutdown' = "drained"
  /\ Return("nil")
  /\ UNCHANGED <<stack, open, closed, listener, channel>>

\* Mutated form: what is still in flight after ten seconds is not reported.
GiveUpQuietly ==
  /\ pc = "shutdown"
  /\ listener # "serving"
  /\ shutdown' = "gaveUp"
  /\ Return("nil")
  /\ UNCHANGED <<stack, open, closed>>

(* Shutdown returns an error: ten seconds are over, or the listener could  *)
(* not be closed.  The handlers go on.                                     *)
GiveUp ==
  /\ pc = "shutdown"
  /\ listener # "serving"
  /\ shutdown' = "gaveUp"
  /\ Return("error")
  /\ UNCHANGED <<stack, open, closed>>

-----------------------------------------------------------------------------
(* RunWorker.  The loop of DocumentWorker.Run looks at the context, then   *)
(* blocks in BLMOVE.                                                       *)
\* Mutated form: the loop leaves the context to the calls it makes.
LoopTopUnchecked == pc = "top" /\ Goto("blocked") /\ UNCHANGED <<stack, open, closed, outcome, shutdown>>

LoopTop ==
  /\ pc = "top"
  /\ IF signalled THEN Return("nil") ELSE Goto("blocked") /\ UNCHANGED outcome
  /\ UNCHANGED <<stack, open, closed, shutdown>>

(* A job arrives, or BLMOVE fails; with an error that is context.Canceled, *)
(* if the client library looks at the context at all, RunWorker returns    *)
(* nil.                                                                    *)
Unblock ==
  /\ pc = "blocked"
  /\ \/ Goto("process") /\ UNCHANGED outcome
     \/ Return("error")
     \/ signalled /\ Return("nil")
  /\ UNCHANGED <<stack, open, closed, shutdown>>

(* Process, then Ack or Retry: an error of those ends the worker, and may  *)
(* be context.Canceled again.                                              *)
ProcessJob ==
  /\ pc = "process"
  /\ \/ Goto("top") /\ UNCHANGED outcome
     \/ Return("error")
     \/ signalled /\ Return("nil")
  /\ UNCHANGED <<stack, open, closed, shutdown>>

-----------------------------------------------------------------------------
\* Mutated form: the closers run in the order they were added.
FirstCloser == stack[Len(closed) + 1]

(* The closer that resourceStack.Close calls next.                         *)
NextCloser == stack[Len(stack) - Len(closed)]

Close(resource) ==
  /\ open' = open \ {resource}
  /\ closed' = Append(closed, resource)

CloseNext ==
  /\ pc = "close"
  /\ IF Len(closed) = Len(stack)
       THEN Goto("exited") /\ UNCHANGED <<open, closed>>
       ELSE /\ Close(NextCloser)
            /\ Goto(IF NextCloser = "pool" THEN "poolClose" ELSE "close")
  /\ UNCHANGED <<stack, outcome, shutdown>>

(* pool.Close hands out no connection any more, and returns when it has    *)
(* all of them back.                                                       *)
PoolClosed ==
  /\ pc = "poolClose"
  /\ \A h \in Handlers : handler[h] # "statement"
  /\ Goto("close")
  /\ UNCHANGED <<stack, open, closed, outcome, shutdown>>

-----------------------------------------------------------------------------
(* ListenAndServe looks for Shutdown before it listens; the port may be    *)
(* taken.                                                                  *)
Listen ==
  /\ listener = "starting"
  /\ listener' \in {"refused", IF shutdown = "no" THEN "serving" ELSE "closed"}
  /\ UNCHANGED <<channel, handler>>

(* Accept fails, or Shutdown closes the listener.                          *)
StopListening ==
  /\ listener = "serving"
  /\ listener' = IF shutdown = "no" THEN "failed" ELSE "closed"
  /\ UNCHANGED <<channel, handler>>

SendResult ==
  /\ listener \in {"refused", "failed", "closed"}
  /\ channel = <<>>
  /\ channel' = <<IF listener = "closed" THEN "ErrServerClosed" ELSE "error">>
  /\ listener' = "done"
  /\ UNCHANGED handler

Serves(h, from, to) ==
  /\ handler[h] = from
  /\ handler' = [handler EXCEPT ![h] = to]
  /\ UNCHANGED <<listener, channel>>

(* A connection is accepted and makes a request, or makes its next one.    *)
Accept(h) == listener = "serving" /\ Serves(h, "none", "running")

NextRequest(h) == Serves(h, "idle", "running")

PoolSize == Settings(environment)["DB_MAX_OPEN_CONNS"]

(* The handler gets a connection of the pool and runs a statement.         *)
Query(h) ==
  /\ "pool" \in open
  /\ Cardinality({i \in Handlers : handler[i] = "statement"}) < PoolSize
  /\ Serves(h, "running", "statement")

Answer(h) == Serves(h, "statement", "running")

(* A server that shuts down keeps no connection alive.                     *)
Finish(h) == Serves(h, "running", IF shutdown = "no" THEN "idle" ELSE "none")

(* The signal handler is installed once the configuration is loaded.       *)
Signal ==
  /\ pc \notin {"load", "exited"}
  /\ signalled' = TRUE
  /\ UNCHANGED <<program, environment, mainVars, serving>>

-----------------------------------------------------------------------------
(* The steps of main, without and with those that also touch the listener. *)
Main ==
  \/ /\ \/ LoadConfig \/ OpenPostgres \/ OpenRedis
        \/ BeginShutdown \/ GiveUp
        \/ LoopTop \/ ProcessJob
        \/ CloseNext \/ PoolClosed
     /\ UNCHANGED serving
  \/ OpenStorage \/ ReceiveError \/ Drained

Consume == Unblock /\ UNCHANGED serving

Listener == pc # "exited" /\ (Listen \/ StopListening \/ SendResult)

Handle(h) == pc # "exited" /\ (Accept(h) \/ NextRequest(h) \/ Query(h) \/ Answer(h) \/ Finish(h))

Frame == UNCHANGED <<program, environment, signalled>>

Next ==
  \/ (Main \/ Consume) /\ Frame
  \/ (Listener \/ \E h \in Handlers : Handle(h)) /\ UNCHANGED mainVars /\ Frame
  \/ Signal

Spec == Init /\ [][Next]_vars

(* Goroutines that can run are scheduled, the timer of Shutdown fires, and *)
(* PostgreSQL answers.  Nothing makes a job or a signal arrive, a request  *)
(* begin or end, or Accept fail.                                           *)
FairSpec ==
  /\ Spec
  /\ WF_vars(Main /\ Frame)
  /\ WF_vars((Listen \/ SendResult) /\ UNCHANGED mainVars /\ Frame)
  /\ WF_vars(shutdown # "no" /\ StopListening /\ UNCHANGED mainVars /\ Frame)
  /\ \A h \in Handlers : WF_vars(Answer(h) /\ UNCHANGED mainVars /\ Frame)

-----------------------------------------------------------------------------
(* Exit status 0 was asked for by a signal, and from a server it means     *)
(* that no request was cut off: the listener was closed and every handler  *)
(* had finished before the first closer ran (resources.go:107-113).  From  *)
(* a worker it says nothing of the job at hand: SIGTERM inside Retry may   *)
(* end the process with 0 too (resources.go:129, queue/redis.go:94-97).    *)
CleanExitIsDrained ==
  outcome = "nil" =>
    /\ signalled
    /\ program = "server" =>
         shutdown = "drained" /\ Active = {} /\ listener # "serving"

(* Whatever Build got through and however the process ended, it leaves     *)
(* nothing open, closed what it opened in the opposite order, and no       *)
(* statement runs on a connection of a closed pool, not even of a handler  *)
(* that Shutdown gave up on (resources.go:31-85).                          *)
ResourcesReleased ==
  /\ pc = "exited" => open = {} /\ closed = Reverse(stack)
  /\ \A h \in Handlers :
       handler[h] = "statement" => "pool" \in open \/ pc = "poolClose"

(* A process that got past its configuration has a pool that can hand out  *)
(* a connection and asks for no negative number of idle ones, although     *)
(* both are cut to 32 bits (config.go:157, 188).                           *)
PoolIsUsable ==
  pc \notin {"load", "exited"} =>
    /\ PoolSize \in 1 .. Int32Limit - 1
    /\ Settings(environment)["DB_MAX_IDLE_CONNS"] \in 0 .. Int32Limit - 1

(* After SIGTERM the process exits, whatever the requests in flight do;    *)
(* only a worker in BLMOVE may wait on, for a job (resources.go:107-113,   *)
(* document_worker.go:58-62, redis.go:49).                                 *)
StopsOnSignal == signalled ~> (pc = "exited" \/ [](pc = "blocked"))

(* A server that cannot listen, or no longer accepts, exits                *)
(* (resources.go:99-106).                                                  *)
FailureStopsServer == listener \in {"refused", "failed"} ~> pc = "exited"
=============================================================================
