------------------------- MODULE AppLifecycleProofs -------------------------
(***************************************************************************)
(* Theorems about AppLifecycle, for any number of connections and any      *)
(* environments.                                                           *)
(*                                                                         *)
(* A clean exit of a server is a drained one because nothing but Shutdown  *)
(* makes ListenAndServe return ErrServerClosed, so that the goroutine of   *)
(* main cannot take that for the result of its select (Order).  That all   *)
(* is closed once, in the opposite order, follows from what Build opens    *)
(* between two of its steps (Stages).                                      *)
(***************************************************************************)
EXTENDS AppLifecycle, SequenceTheorems, TLAPS

Ending == {"close", "poolClose", "exited"}

Both == <<"pool", "redis">>

(* How far Build or Close has come.                                        *)
Stages ==
  /\ pc \in {"load", "postgres"} => stack = <<>>
  /\ pc = "redis" => stack = <<"pool">>
  /\ pc \notin Ending \cup {"load", "postgres", "redis"} => stack = Both
  /\ pc \notin Ending => closed = <<>>
  /\ \/ stack = <<>> /\ closed = <<>> /\ open = {}
     \/ stack = <<"pool">> /\ closed = <<>> /\ open = {"pool"}
     \/ stack = <<"pool">> /\ closed = <<"pool">> /\ open = {}
     \/ stack = Both /\ closed = <<>> /\ open = {"pool", "redis"}
     \/ stack = Both /\ closed = <<"redis">> /\ open = {"pool"}
     \/ stack = Both /\ closed = <<"redis", "pool">> /\ open = {}
  /\ pc = "poolClose" => open = {}
  /\ pc = "exited" => Len(closed) = Len(stack)

(* No connection serves a statement once its pool is closed.               *)
Statements ==
  \A h \in Handlers : handler[h] = "statement" => "pool" \in open \/ pc = "poolClose"

(* What each step of main may have seen of the listener and of Shutdown.   *)
Order ==
  /\ pc \in {"select", "shutdown"} => program = "server"
  /\ pc \in {"top", "blocked", "process"} => program = "worker"
  /\ pc \notin Ending => outcome = "none"
  /\ pc \notin Ending \cup {"shutdown"} => shutdown = "no"
  /\ pc = "shutdown" => shutdown = "begun"
  /\ shutdown # "no" => signalled
  /\ listener = "closed" => shutdown # "no"
  /\ \A i \in 1 .. Len(channel) : channel[i] = "ErrServerClosed" => shutdown # "no"
  /\ shutdown = "drained" =>
       listener # "serving" /\ \A h \in Handlers : handler[h] = "none"
  /\ outcome = "nil" =>
       /\ signalled
       /\ program = "server" => shutdown = "drained"

AInv == TypeOK /\ Stages /\ Statements /\ Order
-----------------------------------------------------------------------------
(* A step is one of main, of the listener, of a handler, or a signal.      *)
LEMMA StepCases ==
  ASSUME [Next]_vars
  PROVE  \/ UNCHANGED vars
         \/ /\ LoadConfig \/ OpenPostgres \/ OpenRedis \/ BeginShutdown \/ GiveUp
               \/ LoopTop \/ ProcessJob \/ Unblock \/ CloseNext \/ PoolClosed
            /\ UNCHANGED serving /\ Frame
         \/ (OpenStorage \/ ReceiveError \/ Drained) /\ Frame
         \/ (Listen \/ StopListening \/ SendResult) /\ UNCHANGED mainVars /\ Frame
         \/ \E h \in Handlers : Handle(h) /\ UNCHANGED mainVars /\ Frame
         \/ Signal
  BY DEF Next, Main, Consume, Listener

LEMMA AppendToOne == \A a, b \in Resources : Append(<<a>>, b) = <<a, b>>
<1> SUFFICES ASSUME NEW a \in Resources, NEW b \in Resources
             PROVE  Append(<<a>>, b) = <<a, b>>
  OBVIOUS
<1>1. <<a>> \in Seq(Resources) /\ Len(<<a>>) = 1 /\ <<a>>[1] = a
  OBVIOUS
<1>2. /\ <<a, b>> \in Seq(Resources) /\ Len(<<a, b>>) = 2
      /\ <<a, b>>[1] = a /\ <<a, b>>[2] = b
  OBVIOUS
<1>3. /\ Append(<<a>>, b) \in Seq(Resources) /\ Len(Append(<<a>>, b)) = 2
      /\ Append(<<a>>, b)[1] = a /\ Append(<<a>>, b)[2] = b
  BY <1>1, AppendProperties
<1>4. \A i \in 1 .. 2 : Append(<<a>>, b)[i] = <<a, b>>[i]
  BY <1>2, <1>3
<1> QED
  BY <1>2, <1>3, <1>4, SeqEqual

LEMMA ClosersOf ==
  /\ Len(<<>>) = 0 /\ Len(<<"pool">>) = 1 /\ Len(<<"redis">>) = 1
  /\ Len(Both) = 2 /\ Len(<<"redis", "pool">>) = 2
  /\ Append(<<>>, "pool") = <<"pool">> /\ Append(<<"pool">>, "redis") = Both
  /\ Append(<<>>, "redis") = <<"redis">> /\ Append(<<"redis">>, "pool") = <<"redis", "pool">>
  /\ Both[1] = "pool" /\ Both[2] = "redis" /\ <<"pool">>[1] = "pool"
  /\ <<>> \in Seq(Resources) /\ <<"pool">> \in Seq(Resources) /\ Both \in Seq(Resources)
  /\ <<"redis">> \in Seq(Resources) /\ <<"redis", "pool">> \in Seq(Resources)
<1>1. <<>> \in Seq(Resources) /\ <<"pool">> \in Seq(Resources) /\ <<"redis">> \in Seq(Resources)
  BY DEF Resources
<1>2. Both \in Seq(Resources) /\ <<"redis", "pool">> \in Seq(Resources)
  BY DEF Both, Resources
<1>3. Append(<<>>, "pool") = <<"pool">> /\ Append(<<>>, "redis") = <<"redis">>
  OBVIOUS
<1>4. Append(<<"pool">>, "redis") = Both
  BY AppendToOne DEF Both, Resources
<1>5. Append(<<"redis">>, "pool") = <<"redis", "pool">>
  BY AppendToOne DEF Resources
<1>6. Len(<<>>) = 0 /\ Len(<<"pool">>) = 1 /\ Len(<<"redis">>) = 1 /\ <<"pool">>[1] = "pool"
  OBVIOUS
<1>7. Len(Both) = 2 /\ Len(<<"redis", "pool">>) = 2 /\ Both[1] = "pool" /\ Both[2] = "redis"
  BY DEF Both
<1> QED
  BY <1>1, <1>2, <1>3, <1>4, <1>5, <1>6, <1>7

(* Only the steps of Build and of Close touch the stack.                   *)
LEMMA StagesStep == Stages /\ [Next]_vars => Stages'
<1> SUFFICES ASSUME Stages, [Next]_vars PROVE Stages'
  OBVIOUS
<1>1. ASSUME UNCHANGED <<stack, open, closed>>,
             pc' = pc \/ pc' \in Ending \ {"poolClose", "exited"}
                      \/ (pc \notin Ending \cup {"load", "postgres", "redis"}
                          /\ pc' \notin {"load", "postgres", "redis", "poolClose", "exited"})
      PROVE  Stages'
  BY <1>1 DEF Stages, Ending
<1>2. CASE LoadConfig
  BY <1>2, ClosersOf DEF LoadConfig, Goto, Stages, Ending
<1>3. CASE OpenPostgres
  <2>1. CASE pc' = "redis" /\ open' = open \cup {"pool"} /\ stack' = Append(stack, "pool")
    BY <1>3, <2>1, ClosersOf DEF OpenPostgres, Open, Stages, Ending
  <2>2. CASE Return("error") /\ UNCHANGED <<open, stack>>
    BY <1>1, <1>3, <2>2 DEF OpenPostgres, Open, Return, Goto, Ending
  <2> QED
    BY <1>3, <2>1, <2>2 DEF OpenPostgres, Open, Goto
<1>4. CASE OpenRedis
  <2>1. CASE pc' = "storage" /\ open' = open \cup {"redis"} /\ stack' = Append(stack, "redis")
    BY <1>4, <2>1, ClosersOf DEF OpenRedis, Open, Stages, Ending
  <2>2. CASE Return("error") /\ UNCHANGED <<open, stack>>
    BY <1>1, <1>4, <2>2 DEF OpenRedis, Open, Return, Goto, Ending
  <2> QED
    BY <1>4, <2>1, <2>2 DEF OpenRedis, Open, Goto
<1>5. CASE CloseNext
  <2>1. CASE Len(closed) = Len(stack)
    BY <1>5, <2>1, ClosersOf DEF CloseNext, Goto, Stages, Ending
  <2>2. CASE Len(closed) # Len(stack)
    <3>1. CASE stack = <<"pool">> /\ closed = <<>> /\ open = {"pool"}
      <4>1. NextCloser = "pool"
        BY <3>1, ClosersOf DEF NextCloser
      <4> QED
        BY <1>5, <2>2, <3>1, <4>1, ClosersOf DEF CloseNext, Close, Goto, Stages, Ending
    <3>2. CASE stack = Both /\ closed = <<>> /\ open = {"pool", "redis"}
      <4>1. NextCloser = "redis"
        BY <3>2, ClosersOf DEF NextCloser
      <4>2. open' = {"pool"} /\ closed' = <<"redis">> /\ pc' = "close" /\ stack' = stack
        BY <1>5, <2>2, <3>2, <4>1, ClosersOf DEF CloseNext, Close, Goto
      <4> QED
        BY <3>2, <4>2 DEF Stages, Ending
    <3>3. CASE stack = Both /\ closed = <<"redis">> /\ open = {"pool"}
      <4>1. NextCloser = "pool"
        BY <3>3, ClosersOf DEF NextCloser
      <4>2. open' = {} /\ closed' = <<"redis", "pool">> /\ pc' = "poolClose" /\ stack' = stack
        BY <1>5, <2>2, <3>3, <4>1, ClosersOf DEF CloseNext, Close, Goto
      <4> QED
        BY <3>3, <4>2 DEF Stages, Ending
    <3> QED
      BY <2>2, <3>1, <3>2, <3>3, ClosersOf DEF Stages
  <2> QED
    BY <2>1, <2>2
<1>6. CASE PoolClosed
  BY <1>1, <1>6 DEF PoolClosed, Goto, Ending
<1>7. CASE BeginShutdown \/ GiveUp \/ LoopTop \/ ProcessJob \/ Unblock
           \/ OpenStorage \/ ReceiveError \/ Drained
  BY <1>1, <1>7 DEF BeginShutdown, GiveUp, LoopTop, ProcessJob, Unblock,
       OpenStorage, ReceiveError, Drained, Return, Goto, Ending
<1>8. CASE UNCHANGED mainVars
  BY <1>1, <1>8 DEF mainVars
<1> QED
  BY <1>2, <1>3, <1>4, <1>5, <1>6, <1>7, <1>8, StepCases DEF Signal, vars

(* The types, of which those of the resources follow from their stages.    *)
LEMMA TypeStep == TypeOK /\ Stages' /\ [Next]_vars => TypeOK'
<1> SUFFICES ASSUME TypeOK, Stages', [Next]_vars PROVE TypeOK'
  OBVIOUS
<1> DEFINE MainType ==
      /\ pc' \in {"load", "postgres", "redis", "storage", "select", "shutdown",
                  "top", "blocked", "process", "close", "poolClose", "exited"}
      /\ outcome' \in {"none", "nil", "error"}
      /\ shutdown' \in {"no", "begun", "drained", "gaveUp"}
<1> DEFINE ServingType ==
      /\ listener' \in {"off", "starting", "serving", "refused", "failed", "closed", "done"}
      /\ channel' \in Seq({"error", "ErrServerClosed"})
      /\ handler' \in [Handlers -> {"none", "idle", "running", "statement"}]
<1>1. stack' \in Seq(Resources) /\ closed' \in Seq(Resources)
  BY ClosersOf DEF Stages
<1>2. open' \subseteq ToSet(stack')
  <2>1. ToSet(<<"pool">>) = {"pool"} /\ {"pool", "redis"} \subseteq ToSet(Both)
    BY ClosersOf DEF ToSet
  <2> QED
    BY <2>1 DEF Stages
<1>3. MainType
  <2>1. CASE UNCHANGED mainVars
    BY <2>1 DEF TypeOK, mainVars
  <2>2. CASE LoadConfig \/ OpenPostgres \/ OpenRedis \/ OpenStorage
    BY <2>2 DEF TypeOK, LoadConfig, OpenPostgres, OpenRedis, OpenStorage, Open, Return, Goto
  <2>3. CASE BeginShutdown \/ GiveUp \/ Drained \/ ReceiveError
    BY <2>3 DEF TypeOK, BeginShutdown, GiveUp, Drained, ReceiveError, Return, Goto
  <2>4. CASE LoopTop \/ ProcessJob \/ Unblock \/ CloseNext \/ PoolClosed
    BY <2>4 DEF TypeOK, LoopTop, ProcessJob, Unblock, CloseNext, PoolClosed, Return, Goto
  <2> QED
    BY <2>1, <2>2, <2>3, <2>4, StepCases DEF Signal, vars
<1>4. ServingType
  <2>1. CASE UNCHANGED serving
    BY <2>1 DEF TypeOK, serving
  <2>2. CASE OpenStorage
    BY <2>2 DEF TypeOK, OpenStorage
  <2>3. CASE ReceiveError
    BY <2>3 DEF TypeOK, ReceiveError
  <2>4. CASE Drained
    BY <2>4 DEF TypeOK, Drained
  <2>5. CASE Listen \/ StopListening
    BY <2>5 DEF TypeOK, Listen, StopListening
  <2>6. CASE SendResult
    BY <2>6 DEF TypeOK, SendResult
  <2>7. ASSUME NEW h \in Handlers, Handle(h) PROVE ServingType
    BY <2>7 DEF TypeOK, Handle, Accept, NextRequest, Query, Answer, Finish, Serves
  <2> QED
    BY <2>1, <2>2, <2>3, <2>4, <2>5, <2>6, <2>7, StepCases DEF Signal, vars
<1>5. signalled' \in BOOLEAN
  <2>1. CASE UNCHANGED signalled
    BY <2>1 DEF TypeOK
  <2> QED
    BY <2>1, StepCases DEF Signal, Frame, vars
<1>6. program' = program /\ environment' = environment
  BY StepCases DEF Signal, Frame, vars
<1> QED
  BY <1>1, <1>2, <1>3, <1>4, <1>5, <1>6 DEF TypeOK

(* A statement starts on an open pool, and Close waits for those that run. *)
LEMMA StatementsStep == TypeOK /\ Statements /\ [Next]_vars => Statements'
<1> SUFFICES ASSUME TypeOK, Statements, [Next]_vars PROVE Statements'
  OBVIOUS
<1>1. CASE CloseNext /\ UNCHANGED serving
  <2>1. "pool" \in open => "pool" \in open' \/ pc' = "poolClose"
    BY <1>1 DEF CloseNext, Close, Goto
  <2>2. pc # "poolClose"
    BY <1>1 DEF CloseNext
  <2> QED
    BY <1>1, <2>1, <2>2 DEF Statements, serving
<1>2. CASE PoolClosed /\ UNCHANGED serving
  BY <1>2 DEF PoolClosed, Statements, serving
<1>3. CASE LoadConfig /\ UNCHANGED serving
  BY <1>3 DEF LoadConfig, Statements, serving
<1>4. CASE (OpenPostgres \/ OpenRedis) /\ UNCHANGED serving
  BY <1>4 DEF OpenPostgres, OpenRedis, Open, Statements, serving
<1>5. CASE (BeginShutdown \/ GiveUp \/ LoopTop \/ ProcessJob \/ Unblock) /\ UNCHANGED serving
  BY <1>5 DEF BeginShutdown, GiveUp, LoopTop, ProcessJob, Unblock, Statements, serving
<1>6. CASE OpenStorage \/ ReceiveError
  BY <1>6 DEF OpenStorage, ReceiveError, Statements
<1>7. CASE Drained
  BY <1>7 DEF Drained, Statements
<1>8. CASE UNCHANGED <<handler, open, pc>>
  BY <1>8 DEF Statements
<1>9. ASSUME NEW h \in Handlers, Handle(h), UNCHANGED mainVars PROVE Statements'
  <2>1. handler'[h] = "statement" => "pool" \in open
    BY <1>9 DEF TypeOK, Handle, Accept, NextRequest, Query, Answer, Finish, Serves
  <2>2. \A i \in Handlers \ {h} : handler'[i] = handler[i]
    BY <1>9 DEF TypeOK, Handle, Accept, NextRequest, Query, Answer, Finish, Serves
  <2> QED
    BY <1>9, <2>1, <2>2 DEF Statements, mainVars
<1> QED
  BY <1>1, <1>2, <1>3, <1>4, <1>5, <1>6, <1>7, <1>8, <1>9, StepCases
  DEF Signal, Listen, StopListening, SendResult, mainVars, serving, vars

(* The order of main, of the listener and of Shutdown.                     *)
LEMMA OrderStep == TypeOK /\ Order /\ [Next]_vars => Order'
<1> SUFFICES ASSUME TypeOK, Order, [Next]_vars PROVE Order'
  OBVIOUS
<1>1. CASE UNCHANGED vars
  BY <1>1 DEF Order, vars, mainVars, serving
<1>2. CASE LoadConfig /\ UNCHANGED serving /\ Frame
  BY <1>2 DEF Order, Ending, LoadConfig, Goto, serving, Frame
<1>3. CASE (OpenPostgres \/ OpenRedis) /\ UNCHANGED serving /\ Frame
  BY <1>3 DEF Order, Ending, OpenPostgres, OpenRedis, Open, Return, Goto, serving, Frame
<1>4. CASE OpenStorage /\ Frame
  <2>1. CASE program = "server" /\ pc' = "select"
    BY <1>4, <2>1 DEF Order, Ending, OpenStorage, Return, Goto, Frame
  <2>2. CASE program # "server" /\ pc' = "top"
    BY <1>4, <2>2 DEF TypeOK, Order, Ending, OpenStorage, Return, Goto, Frame
  <2>3. CASE Return("error") /\ UNCHANGED listener
    BY <1>4, <2>3 DEF Order, Ending, OpenStorage, Return, Goto, Frame
  <2> QED
    BY <1>4, <2>1, <2>2, <2>3 DEF OpenStorage, Goto
<1>5. CASE ReceiveError /\ Frame
  <2>1. channel \in Seq({"error", "ErrServerClosed"}) /\ channel # <<>>
    BY <1>5 DEF TypeOK, ReceiveError
  <2>2. /\ Head(channel) = channel[1] /\ 1 \in 1 .. Len(channel)
        /\ Len(Tail(channel)) = Len(channel) - 1
        /\ \A i \in 1 .. Len(Tail(channel)) : Tail(channel)[i] = channel[i + 1]
    BY <2>1
  <2>3. shutdown = "no" /\ program = "server"
    BY <1>5 DEF Order, Ending, ReceiveError
  <2>4. Head(channel) # "ErrServerClosed"
    BY <2>2, <2>3 DEF Order
  <2>5. \A i \in 1 .. Len(channel') : channel'[i] # "ErrServerClosed"
    <3> SUFFICES ASSUME NEW i \in 1 .. Len(channel') PROVE channel'[i] # "ErrServerClosed"
      OBVIOUS
    <3>1. channel'[i] = channel[i + 1] /\ i + 1 \in 1 .. Len(channel)
      BY <1>5, <2>1, <2>2 DEF ReceiveError
    <3> QED
      BY <2>3, <3>1 DEF Order
  <2> QED
    BY <1>5, <2>3, <2>4, <2>5 DEF Order, Ending, ReceiveError, Return, Goto, Frame
<1>6. CASE BeginShutdown /\ UNCHANGED serving /\ Frame
  BY <1>6 DEF Order, Ending, BeginShutdown, Goto, serving, Frame
<1>7. CASE Drained /\ Frame
  BY <1>7 DEF Order, Ending, Drained, Return, Goto, Frame
<1>8. CASE GiveUp /\ UNCHANGED serving /\ Frame
  BY <1>8 DEF Order, Ending, GiveUp, Return, Goto, serving, Frame
<1>9. CASE (LoopTop \/ ProcessJob \/ Unblock) /\ UNCHANGED serving /\ Frame
  BY <1>9 DEF Order, Ending, LoopTop, ProcessJob, Unblock, Return, Goto, serving, Frame
<1>10. CASE (CloseNext \/ PoolClosed) /\ UNCHANGED serving /\ Frame
  BY <1>10 DEF Order, Ending, CloseNext, PoolClosed, Goto, serving, Frame
<1>11. CASE (Listen \/ StopListening) /\ UNCHANGED mainVars /\ Frame
  BY <1>11 DEF Order, Listen, StopListening, mainVars, Frame
<1>12. CASE SendResult /\ UNCHANGED mainVars /\ Frame
  <2>1. \A i \in 1 .. Len(channel') : channel'[i] = "ErrServerClosed" => listener = "closed"
    BY <1>12 DEF SendResult
  <2> QED
    BY <1>12, <2>1 DEF Order, SendResult, mainVars, Frame
<1>13. ASSUME NEW h \in Handlers, Handle(h), UNCHANGED mainVars, Frame PROVE Order'
  <2>1. ~(listener # "serving" /\ \A i \in Handlers : handler[i] = "none")
    BY <1>13 DEF Handle, Accept, NextRequest, Query, Answer, Finish, Serves
  <2>2. UNCHANGED <<listener, channel>>
    BY <1>13 DEF Handle, Accept, NextRequest, Query, Answer, Finish, Serves
  <2>3. shutdown # "drained"
    BY <2>1 DEF Order
  <2> QED
    BY <1>13, <2>2, <2>3 DEF Order, mainVars, Frame
<1>14. CASE Signal
  BY <1>14 DEF Order, Signal, mainVars, serving
<1> QED
  BY <1>1, <1>2, <1>3, <1>4, <1>5, <1>6, <1>7, <1>8, <1>9, <1>10, <1>11, <1>12,
     <1>13, <1>14, StepCases

(* The inductive invariant of a process.                                   *)
THEOREM Invariance == Spec => []AInv
<1>1. Init => AInv
  <2> SUFFICES ASSUME Init PROVE AInv
    OBVIOUS
  <2>1. TypeOK
    <3>1. <<>> \in Seq({"error", "ErrServerClosed"}) /\ <<>> \in Seq(Resources)
      OBVIOUS
    <3> QED
      BY <3>1 DEF Init, TypeOK
  <2>2. Stages /\ Statements /\ Order
    BY DEF Init, Stages, Statements, Order, Ending
  <2> QED
    BY <2>1, <2>2 DEF AInv
<1>2. AInv /\ [Next]_vars => AInv'
  BY StagesStep, TypeStep, StatementsStep, OrderStep DEF AInv
<1> QED
  BY <1>1, <1>2, PTL DEF Spec

(* The variables of a process have their types.                            *)
THEOREM TypeCorrect == Spec => []TypeOK
  BY Invariance, PTL DEF AInv

(* Exit status 0 was asked for by a signal, and a server that exits with   *)
(* it had stopped listening and answered every request before it closed    *)
(* anything; a worker may exit with it in the middle of a job              *)
(* (resources.go:98-114, 123-132).                                         *)
THEOREM CleanExit == Spec => []CleanExitIsDrained
<1>1. AInv => CleanExitIsDrained
  BY DEF AInv, Order, CleanExitIsDrained, Active
<1> QED
  BY <1>1, Invariance, PTL

(* However Build and the run of the process end, all that was opened is    *)
(* closed once, the last one first, and never under a statement            *)
(* (resources.go:31-85).                                                   *)
THEOREM AllReleased == Spec => []ResourcesReleased
<1>1. AInv => ResourcesReleased
  <2> SUFFICES ASSUME AInv PROVE ResourcesReleased
    OBVIOUS
  <2>1. Reverse(<<>>) = <<>>
    BY DEF Reverse
  <2>2. Reverse(<<"pool">>) = <<"pool">>
    BY DEF Reverse
  <2>3. Reverse(Both) = <<"redis", "pool">>
    BY DEF Reverse, Both
  <2>4. pc = "exited" => open = {} /\ closed = Reverse(stack)
    BY <2>1, <2>2, <2>3, ClosersOf DEF AInv, Stages
  <2> QED
    BY <2>4 DEF AInv, Statements, ResourcesReleased
<1> QED
  BY <1>1, Invariance, PTL

(* The cut to 32 bits stays within them.                                   *)
LEMMA Int32Range == \A n \in Int : Int32(n) \in -Int32Limit .. Int32Limit - 1
  BY Int32LimitAssumption DEF Int32

(* What Validate looks at, of the pool.                                    *)
LEMMA ValidPool ==
  ASSUME NEW settings, Valid(settings)
  PROVE  settings["DB_MAX_OPEN_CONNS"] > 0 /\ settings["DB_MAX_IDLE_CONNS"] >= 0
  BY Zenon DEF Valid

(* A process past its configuration has a pool that hands out connections  *)
(* (config.go:157-160, 188-193).                                           *)
THEOREM UsablePool == Spec => []PoolIsUsable
<1> DEFINE Checked == pc \notin {"load", "exited"} => Accepted(environment)
<1>1. Init => Checked
  BY DEF Init
<1>2. Checked /\ [Next]_vars => Checked'
  <2> SUFFICES ASSUME Checked, [Next]_vars PROVE Checked'
    OBVIOUS
  <2>1. environment' = environment
    BY StepCases DEF Signal, Frame, vars
  <2>2. pc' \in {"load", "exited"} \/ pc \notin {"load", "exited"} \/ Accepted(environment)
    BY StepCases DEF LoadConfig, OpenPostgres, OpenRedis, BeginShutdown, GiveUp, LoopTop,
         ProcessJob, Unblock, CloseNext, PoolClosed, OpenStorage, ReceiveError, Drained,
         Open, Goto, Signal, mainVars, vars
  <2> QED
    BY <2>1, <2>2
<1>3. TypeOK /\ Checked => PoolIsUsable
  <2> SUFFICES ASSUME TypeOK, Accepted(environment)
               PROVE  /\ PoolSize \in 1 .. Int32Limit - 1
                      /\ Settings(environment)["DB_MAX_IDLE_CONNS"] \in 0 .. Int32Limit - 1
    BY DEF PoolIsUsable
  <2>1. \A name \in {"DB_MAX_OPEN_CONNS", "DB_MAX_IDLE_CONNS"} :
          Settings(environment)[name] = Int32(Value(environment, name))
    BY DEF Settings, Names, Numbers
  <2>2. \A name \in {"DB_MAX_OPEN_CONNS", "DB_MAX_IDLE_CONNS"} : Value(environment, name) \in Int
    <3>1. Fallback["DB_MAX_OPEN_CONNS"] \in Int
      BY DEF Fallback, Names, Numbers, Switches
    <3>2. Fallback["DB_MAX_IDLE_CONNS"] \in Int
      BY DEF Fallback, Names, Numbers, Switches
    <3>3. \A name \in {"DB_MAX_OPEN_CONNS", "DB_MAX_IDLE_CONNS"} :
            environment[name] \in Int \cup {Unset}
      BY EnvironmentsAssumption DEF TypeOK, Accepted, Parses, Names, Numbers, Texts
    <3> QED
      BY <3>1, <3>2, <3>3 DEF Value
  <2>3. \A name \in {"DB_MAX_OPEN_CONNS", "DB_MAX_IDLE_CONNS"} :
          Settings(environment)[name] \in -Int32Limit .. Int32Limit - 1
    BY <2>1, <2>2, Int32Range
  <2>4. Valid(Settings(environment))
    BY DEF Accepted
  <2>5. /\ Settings(environment)["DB_MAX_OPEN_CONNS"] > 0
        /\ Settings(environment)["DB_MAX_IDLE_CONNS"] >= 0
    BY <2>4, ValidPool
  <2>6. PoolSize \in -Int32Limit .. Int32Limit - 1 /\ PoolSize > 0
    BY <2>3, <2>5 DEF PoolSize
  <2>7. PoolSize \in 1 .. Int32Limit - 1
    BY <2>6, Int32LimitAssumption
  <2>8. Settings(environment)["DB_MAX_IDLE_CONNS"] \in 0 .. Int32Limit - 1
    <3> DEFINE idle == Settings(environment)["DB_MAX_IDLE_CONNS"]
    <3>1. idle \in -Int32Limit .. Int32Limit - 1 /\ idle >= 0
      BY <2>3, <2>5
    <3> HIDE DEF idle
    <3>2. idle \in 0 .. Int32Limit - 1
      BY <3>1, Int32LimitAssumption
    <3> QED
      BY <3>2 DEF idle
  <2> QED
    BY <2>7, <2>8
<1> QED
  BY <1>1, <1>2, <1>3, TypeCorrect, PTL DEF Spec
=============================================================================
