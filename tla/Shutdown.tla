------------------------------- MODULE Shutdown --------------------------------
(***************************************************************************)
(* The command line program (cmd/ethtestserver): an errgroup of tasks that *)
(* run the server, feed it through monkey operators, and take it all down  *)
(* after a signal or the first failure.                                    *)
(*                                                                         *)
(* The server is taken by its promise: phase, work and open change through *)
(* the actions of OneShotServer, which ServerLifecycle implements.  Of an  *)
(* operator only its goroutine is left, of its generator the calls that    *)
(* deploy and mint.  The window opens when the program listens to signals. *)
(***************************************************************************)
CONSTANTS
  Generators,   \* the operators asked for on the command line
  Tokens,       \* those that deploy and mint before they start
  AutoMining,   \* the flag -auto-mine
  Env           \* what the environment may do, a subset of EnvEvents

EnvEvents ==
  { "runFails",       \* server.Run returns an error: no node, or no first block
    "startTimesOut",  \* 30 seconds pass before the server is running
    "limitReached",   \* GenerateBlocks returns ErrLimitReached
    "generateFails",  \* GenerateBlocks, or a transaction, fails
    "closedPanics",   \* geth panics, rather than fails, on a closed chain
    "closeFails",     \* closing the store, the beacon or the node reports an error
    "stopExpires" }   \* the 10 seconds of server.Stop are over

ASSUME ProgramAssumption ==
  /\ Tokens \subseteq Generators
  /\ Generators \cap {"signal", "run", "stop"} = {}
  /\ AutoMining \in BOOLEAN
  /\ Env \subseteq EnvEvents

VARIABLES
  phase, work, open,  \* the server, as in OneShotServer
  task,       \* where each task of the errgroup is
  operator,   \* where the goroutine of each operator is
  err,        \* the first error a task returned; anything but "none" means that
              \* ctx, the errgroup's context, is done
  main,       \* where main is, and how the process ended
  signalled,  \* SIGINT or SIGTERM was received
  unclean     \* history: server.Stop returned an error

server == <<phase, work, open>>
vars == <<server, task, operator, err, main, signalled, unclean>>

Resources == {"store", "beacon", "node"}
Server == INSTANCE OneShotServer

Tasks == Generators \cup {"signal", "run", "stop"}
Ended == {"exit 0", "exit 1", "panic"}

TypeOK ==
  /\ Server!TypeOK
  /\ task \in [Tasks -> {"none", "begin", "call", "ready", "stopping", "done"}]
  /\ operator \in [Generators -> {"none", "select", "tick", "gone"}]
  /\ err \in {"none", "canceled", "failed"}
  /\ main \in {"poll", "select", "wait"} \cup Ended
  /\ signalled \in BOOLEAN
  /\ unclean \in BOOLEAN

Init ==
  /\ Server!Init
  /\ task = [t \in Tasks |-> IF t \in {"signal", "run"} THEN "begin" ELSE "none"]
  /\ operator = [g \in Generators |-> "none"]
  /\ err = "none"
  /\ main = "poll"
  /\ signalled = FALSE
  /\ unclean = FALSE

Alive == main \notin Ended
In(t, label) == Alive /\ task[t] = label
Goto(t, label) == task' = [task EXCEPT ![t] = label]
CtxDone == err # "none"

\* Mutant: the last error counts.
ReturnLast(t, r) ==
  /\ Goto(t, "done")
  /\ err' = IF r = "ok" THEN err ELSE r

\* Mutant: a task that returns nil is counted as well.
ReturnAny(t, r) ==
  /\ Goto(t, "done")
  /\ err' = IF err = "none" THEN r ELSE err

\* A task returns; errgroup keeps the first error and cancels ctx with it.
Return(t, r) ==
  /\ Goto(t, "done")
  /\ err' = IF err = "none" /\ r # "ok" THEN r ELSE err

--------------------------------------------------------------------------------
(***************************************************************************)
(* The signal, the server, and main.                                       *)
(***************************************************************************)

Signal ==
  /\ Alive
  /\ ~signalled
  /\ signalled' = TRUE
  /\ UNCHANGED <<server, task, operator, err, main, unclean>>

\* Mutant: the task waits for a signal only.
AwaitSignalOnly ==
  /\ In("signal", "begin")
  /\ signalled
  /\ Return("signal", "canceled")
  /\ UNCHANGED <<server, operator, main, signalled, unclean>>

\* Either way the error is context.Canceled.
AwaitSignal ==
  /\ In("signal", "begin")
  /\ signalled \/ CtxDone
  /\ Return("signal", "canceled")
  /\ UNCHANGED <<server, operator, main, signalled, unclean>>

\* server.Run(ctx), as far as OneShotServer sees it; ctx does not interrupt it.
Run ==
  /\ In("run", "begin")
  /\ \/ (Server!Start \/ Server!Work) /\ UNCHANGED <<task, err>>
     \/ Server!Serve /\ Goto("run", "call") /\ UNCHANGED err
     \/ /\ "runFails" \in Env
        /\ Server!FailStart \/ Server!Fail
        /\ Return("run", "failed")
  /\ UNCHANGED <<operator, main, signalled, unclean>>

\* server.HTTPEndpoint() for the log: it asks for a running server ...
CheckEndpoint ==
  /\ In("run", "call")
  /\ \/ phase = "serving" /\ Goto("run", "ready") /\ UNCHANGED err
     \/ phase # "serving" /\ Return("run", "ok")
  /\ UNCHANGED <<server, operator, main, signalled, unclean>>

\* ... and uses a node that a whole Stop in between has set to nil.
UseEndpoint ==
  /\ In("run", "ready")
  /\ \/ phase = "stopped" /\ main' = "panic" /\ UNCHANGED <<task, err>>
     \/ phase # "stopped" /\ Return("run", "ok") /\ UNCHANGED main
  /\ UNCHANGED <<server, operator, signalled, unclean>>

\* The main loop, whose context descends from ctx and is cancelled by Stop; the
\* program sets no MaxDuration.
LoopEnds ==
  /\ Alive
  /\ ~AutoMining \/ CtxDone \/ phase = "draining"
  /\ Server!Rest
  /\ UNCHANGED <<task, operator, err, main, signalled, unclean>>

\* for !server.IsRunning(): when it is, the other tasks are started.
Poll ==
  /\ main = "poll"
  /\ \/ /\ phase = "serving"
        /\ main' = "wait"
        /\ task' = [t \in Tasks |-> IF t \in {"signal", "run"} THEN task[t] ELSE "begin"]
     \/ /\ phase # "serving"
        /\ main' = "select"
        /\ UNCHANGED task
  /\ UNCHANGED <<server, operator, err, signalled, unclean>>

\* ctx.Done and the timeout exit as they are; 100 ms later main looks again.
Select ==
  /\ main = "select"
  /\ \/ /\ CtxDone \/ "startTimesOut" \in Env
        /\ main' = "exit 1"
     \/ main' = "poll"
  /\ UNCHANGED <<server, task, operator, err, signalled, unclean>>

\* g.Wait(): an error other than Canceled makes the status 1.
Wait ==
  /\ main = "wait"
  /\ \A t \in Tasks : task[t] = "done"
  /\ main' = IF err = "failed" THEN "exit 1" ELSE "exit 0"
  /\ UNCHANGED <<server, task, operator, err, signalled, unclean>>

--------------------------------------------------------------------------------
(***************************************************************************)
(* The task that stops the server.                                         *)
(***************************************************************************)

\* Mutant: the server is stopped without waiting for ctx.
BeginStopNow ==
  /\ In("stop", "begin")
  /\ Server!BeginStop
  /\ Goto("stop", "stopping")
  /\ UNCHANGED <<operator, err, main, signalled, unclean>>

BeginStop ==
  /\ In("stop", "begin")
  /\ CtxDone
  /\ Server!BeginStop
  /\ Goto("stop", "stopping")
  /\ UNCHANGED <<operator, err, main, signalled, unclean>>

\* Errors of a close are collected and stop nothing.
Release ==
  /\ In("stop", "stopping")
  /\ Server!Release
  /\ \/ UNCHANGED unclean
     \/ "closeFails" \in Env /\ unclean' = TRUE
  /\ UNCHANGED <<task, operator, err, main, signalled>>

EndStop ==
  /\ In("stop", "stopping")
  /\ Server!EndStop
  /\ Return("stop", IF unclean THEN "failed" ELSE "ok")
  /\ UNCHANGED <<operator, main, signalled, unclean>>

\* The deadline passes before the loop is gone.
Abandon ==
  /\ "stopExpires" \in Env
  /\ In("stop", "stopping")
  /\ Server!Abandon
  /\ unclean' = TRUE
  /\ Return("stop", "failed")
  /\ UNCHANGED <<operator, main, signalled>>

--------------------------------------------------------------------------------
(***************************************************************************)
(* The tasks of the operators.                                             *)
(***************************************************************************)

\* What GenerateBlocks comes to: a closed chain fails it or ends the process.
ChainFails == "node" \notin open \/ "generateFails" \in Env

ChainPanics ==
  /\ "node" \notin open
  /\ "closedPanics" \in Env
  /\ main' = "panic"

\* DeployContract and ContractTransact test running before they generate a
\* block, and so do StoreValue and RetrieveValue.
BeginCall(g) ==
  /\ In(g, "begin")
  /\ g \in Tokens
  /\ \/ phase = "serving" /\ Goto(g, "call") /\ UNCHANGED err
     \/ phase # "serving" /\ Return(g, "failed")
  /\ UNCHANGED <<server, operator, main, signalled, unclean>>

\* A limit ends the task without an error: this operator never works.
EndCall(g) ==
  /\ In(g, "call")
  /\ \/ /\ "node" \in open
        /\ Goto(g, "begin")
        /\ UNCHANGED <<err, main>>
     \/ /\ "node" \in open /\ "limitReached" \in Env
        /\ Return(g, "ok")
        /\ UNCHANGED main
     \/ ChainFails /\ Return(g, "failed") /\ UNCHANGED main
     \/ ChainPanics /\ UNCHANGED <<task, err>>
  /\ UNCHANGED <<server, operator, signalled, unclean>>

\* The last value is stored or retrieved, and the operator runs.
StartOperator(g) ==
  /\ In(g, "begin")
  /\ g \in Tokens => phase = "serving"
  /\ Goto(g, "ready")
  /\ operator' = [operator EXCEPT ![g] = "select"]
  /\ UNCHANGED <<server, err, main, signalled, unclean>>

\* <-ctx.Done(), and the operator's Stop closes stopCh ...
StopOperator(g) ==
  /\ In(g, "ready")
  /\ CtxDone
  /\ Goto(g, "stopping")
  /\ UNCHANGED <<server, operator, err, main, signalled, unclean>>

\* Mutant: it is given ctx, as examples/monkeyops/main.go does.
AwaitOperatorOrCtx(g) ==
  /\ In(g, "stopping")
  /\ operator[g] = "gone" \/ CtxDone
  /\ Return(g, "ok")
  /\ UNCHANGED <<server, operator, main, signalled, unclean>>

\* ... and waits for doneCh with context.Background().
AwaitOperator(g) ==
  /\ In(g, "stopping")
  /\ operator[g] = "gone"
  /\ Return(g, "ok")
  /\ UNCHANGED <<server, operator, main, signalled, unclean>>

OperatorGoto(g, label) == operator' = [operator EXCEPT ![g] = label]

\* The select of the operator's goroutine may prefer the ticker to ctx.Done.
Tick(g) ==
  /\ Alive
  /\ operator[g] = "select"
  /\ OperatorGoto(g, "tick")
  /\ UNCHANGED <<server, task, err, main, signalled, unclean>>

Leave(g) ==
  /\ Alive
  /\ operator[g] = "select"
  /\ CtxDone
  /\ OperatorGoto(g, "gone")
  /\ UNCHANGED <<server, task, err, main, signalled, unclean>>

\* GenerateBlocks does not test running, so a tick may meet a closed chain.
EndTick(g) ==
  /\ Alive
  /\ operator[g] = "tick"
  /\ \/ "node" \in open /\ OperatorGoto(g, "select") /\ UNCHANGED main
     \/ ChainFails /\ OperatorGoto(g, "gone") /\ UNCHANGED main
     \/ ChainPanics /\ UNCHANGED operator
  /\ UNCHANGED <<server, task, err, signalled, unclean>>

--------------------------------------------------------------------------------

Main == Poll \/ Select \/ Wait

Endpoint == CheckEndpoint \/ UseEndpoint

Stop == BeginStop \/ Release \/ EndStop

Operate(g) ==
  \/ BeginCall(g) \/ EndCall(g) \/ StartOperator(g)
  \/ StopOperator(g) \/ AwaitOperator(g)
  \/ Tick(g) \/ Leave(g) \/ EndTick(g)

Over == ~Alive /\ UNCHANGED vars

Next ==
  \/ Signal \/ AwaitSignal \/ Run \/ Endpoint \/ LoopEnds \/ Main \/ Stop \/ Abandon
  \/ Over
  \/ \E g \in Generators : Operate(g)

Spec == Init /\ [][Next]_vars

\* Goroutines run on; a generator makes finitely many calls; a select takes
\* ctx.Done sooner or later although its ticker stays ready.  Signals, deadlines
\* and ticks need not come.
Fairness ==
  /\ WF_vars(AwaitSignal) /\ WF_vars(Run) /\ WF_vars(Endpoint) /\ WF_vars(LoopEnds)
  /\ WF_vars(Poll) /\ SF_vars(Select /\ CtxDone /\ main' = "exit 1") /\ WF_vars(Select)
  /\ WF_vars(Wait) /\ WF_vars(Stop)
  /\ \A g \in Generators :
       /\ WF_vars(BeginCall(g) \/ StartOperator(g)) /\ SF_vars(StartOperator(g))
       /\ WF_vars(EndCall(g))
       /\ WF_vars(StopOperator(g)) /\ WF_vars(AwaitOperator(g))
       /\ SF_vars(Leave(g)) /\ WF_vars(EndTick(g))

FairSpec == Spec /\ Fairness

--------------------------------------------------------------------------------
(***************************************************************************)
(* Properties that hold.                                                   *)
(***************************************************************************)

\* When main leaves g.Wait, no operator ticks and no generator mints any more, and
\* server.Stop has returned: it has released everything, or it has given up waiting
\* for the main loop, which may then work on until the process is gone.
WaitMeansOver ==
  (main \in {"exit 0", "exit 1"} /\ task["stop"] # "none") =>
    /\ \A g \in Generators : operator[g] \in {"none", "gone"} /\ task[g] = "done"
    /\ \/ phase = "stopped" /\ open = {}
       \/ phase = "abandoned"

\* Operators and generators lose the chain, and the process with it, only once
\* they have been told to stop; so does the task that logs the endpoint.
ClosedOnlyWhenTold == (open # Resources \/ main = "panic") => CtxDone

\* The program ends with status 0 after a signal only: a server or a generator
\* that fails first makes it 1, although the task that waits for signals then
\* returns context.Canceled.
SuccessMeansSignal == (main = "exit 0") => signalled

\* A signal, or the first failure of a task, ends the process: every task comes
\* to its end, and so does a server that is still starting.
ShutdownEnds == (signalled \/ CtxDone) ~> main \in Ended

--------------------------------------------------------------------------------
(***************************************************************************)
(* What the code says of itself and does not do.                           *)
(***************************************************************************)

\* "failed to stop server cleanly" (main.go:184) is returned to the errgroup, to
\* be logged as "Task failed, shutting down" with status 1 (main.go:252).
UncleanStopReported == (main = "exit 0") => ~unclean

================================================================================
