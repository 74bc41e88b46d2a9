---------------------------- MODULE ShutdownProofs -----------------------------
(***************************************************************************)
(* The safety properties of Shutdown, for any set of operators and any     *)
(* failures.                                                               *)
(*                                                                         *)
(* Three facts carry them: the server is touched only after ctx is done    *)
(* (Told), the first error tells why it is (Cause), and a task that has    *)
(* returned has left nothing behind (Waiting, Attended, Stopped).          *)
(***************************************************************************)
EXTENDS Shutdown, TLAPS

\* Nobody takes the server down, or dies of it, before ctx is done.
Told ==
  (phase \in {"draining", "stopped", "abandoned"} \/ open # Resources \/ main = "panic")
    => CtxDone

\* The error "canceled" comes from a signal.
Cause ==
  /\ err = "canceled" => signalled
  /\ task["signal"] = "done" => CtxDone
  /\ main = "exit 0" => signalled

\* The other tasks do not exist before the server runs.
Waiting ==
  main \in {"poll", "select"} => \A t \in Generators \cup {"stop"} : task[t] = "none"

\* A goroutine that works has a task that will wait for it.
Attended ==
  \A g \in Generators :
    operator[g] \in {"select", "tick"} => task[g] \in {"ready", "stopping"}

Stopped ==
  task["stop"] = "done" => \/ phase = "stopped" /\ open = {}
                           \/ phase = "abandoned"

IInv == TypeOK /\ Told /\ Cause /\ Waiting /\ Attended /\ Stopped /\ WaitMeansOver

USE ProgramAssumption

LEMMA InitIInv == Init => IInv
  BY DEF Init, IInv, TypeOK, Server!TypeOK, Server!Init, Told, Cause, Waiting, Attended,
         Stopped, WaitMeansOver, CtxDone, Tasks, Ended

\* What a returning task may do to err.
LEMMA Returning ==
  ASSUME TypeOK, NEW t \in Tasks, NEW r \in {"ok", "canceled", "failed"}, Return(t, r)
  PROVE  /\ task' = [task EXCEPT ![t] = "done"]
         /\ err' \in {"none", "canceled", "failed"}
         /\ CtxDone => err' = err
         /\ r # "ok" => CtxDone'
         /\ err' # err => err' = r
  BY DEF TypeOK, Return, Goto, CtxDone

LEMMA TypeStep == TypeOK /\ [Next]_vars => TypeOK'
<1> SUFFICES ASSUME TypeOK, [Next]_vars
             PROVE  TypeOK'
  OBVIOUS
<1> USE DEF TypeOK, Server!TypeOK, Tasks, Ended, vars, server, Server!vars, Goto, In
<1>1. CASE Signal
  BY <1>1 DEF Signal
<1>2. CASE AwaitSignal
  BY <1>2 DEF AwaitSignal, Return
<1>3. CASE Run
  <2>1. Server!TypeOK'
    BY <1>3 DEF Run, Server!Start, Server!Work, Server!Serve, Server!FailStart, Server!Fail
  <2>2. CASE UNCHANGED <<task, err>>
    BY <1>3, <2>1, <2>2 DEF Run
  <2>4. CASE Goto("run", "call") /\ UNCHANGED err
    BY <1>3, <2>1, <2>4 DEF Run
  <2>3. CASE Return("run", "failed")
    <3>1. err' \in {"none", "canceled", "failed"} /\ task' = [task EXCEPT !["run"] = "done"]
      BY <2>3 DEF Return
    <3>2. UNCHANGED <<operator, main, signalled, unclean>>
      BY <1>3 DEF Run
    <3> HIDE DEF Server!TypeOK
    <3> QED
      BY <2>1, <3>1, <3>2
  <2> QED
    BY <1>3, <2>2, <2>3, <2>4 DEF Run
<1>4. CASE LoopEnds
  BY <1>4 DEF LoopEnds, Server!Rest
<1>5. CASE Poll
  BY <1>5 DEF Poll
<1>6. CASE Select \/ Wait
  BY <1>6 DEF Select, Wait
<1>7. CASE BeginStop
  BY <1>7 DEF BeginStop, Server!BeginStop
<1>8. CASE Release
  BY <1>8 DEF Release, Server!Release
<1>9. CASE EndStop
  BY <1>9 DEF EndStop, Return, Server!EndStop
<1>10. CASE Abandon
  BY <1>10 DEF Abandon, Return, Server!Abandon
<1>11. ASSUME NEW g \in Generators, Operate(g)
       PROVE  TypeOK'
  <2>1. CASE BeginCall(g)
    <3>1. CASE Goto(g, "call") /\ UNCHANGED err
      BY <2>1, <3>1 DEF BeginCall
    <3>2. CASE Return(g, "failed")
      BY <2>1, <3>2 DEF BeginCall, Return
    <3> QED
      BY <2>1, <3>1, <3>2 DEF BeginCall
  <2>2. CASE EndCall(g)
    <3>1. CASE Goto(g, "begin") /\ UNCHANGED <<err, main>>
      BY <2>2, <3>1 DEF EndCall
    <3>2. CASE Return(g, "ok") /\ UNCHANGED main
      BY <2>2, <3>2 DEF EndCall, Return
    <3>4. CASE Return(g, "failed") /\ UNCHANGED main
      BY <2>2, <3>4 DEF EndCall, Return
    <3>3. CASE ChainPanics /\ UNCHANGED <<task, err>>
      BY <2>2, <3>3 DEF EndCall, ChainPanics
    <3> QED
      BY <2>2, <3>1, <3>2, <3>3, <3>4 DEF EndCall
  <2>3. CASE StartOperator(g)
    BY <2>3 DEF StartOperator
  <2>4. CASE StopOperator(g)
    BY <2>4 DEF StopOperator
  <2>5. CASE AwaitOperator(g)
    BY <2>5 DEF AwaitOperator, Return
  <2>6. CASE Tick(g)
    BY <2>6 DEF Tick, OperatorGoto
  <2>8. CASE Leave(g)
    BY <2>8 DEF Leave, OperatorGoto
  <2>7. CASE EndTick(g)
    BY <2>7 DEF EndTick, OperatorGoto, ChainPanics
  <2> QED
    BY <1>11, <2>1, <2>2, <2>3, <2>4, <2>5, <2>6, <2>7, <2>8 DEF Operate
<1>12. CASE UNCHANGED vars
  BY <1>12
<1>13. CASE CheckEndpoint
  <2>1. CASE Goto("run", "ready") /\ UNCHANGED err
    BY <1>13, <2>1 DEF CheckEndpoint
  <2>2. CASE Return("run", "ok")
    BY <1>13, <2>2 DEF CheckEndpoint, Return
  <2> QED
    BY <1>13, <2>1, <2>2 DEF CheckEndpoint
<1>14. CASE UseEndpoint
  <2>1. CASE main' = "panic" /\ UNCHANGED <<task, err>>
    BY <1>14, <2>1 DEF UseEndpoint
  <2>2. CASE Return("run", "ok") /\ UNCHANGED main
    BY <1>14, <2>2 DEF UseEndpoint, Return
  <2> QED
    BY <1>14, <2>1, <2>2 DEF UseEndpoint
<1> QED
  BY <1>1, <1>2, <1>3, <1>4, <1>5, <1>6, <1>7, <1>8, <1>9, <1>10, <1>11, <1>12, <1>13, <1>14
     DEF Next, Endpoint, Main, Stop, Over

--------------------------------------------------------------------------------

\* Once ctx is done it stays so, and err does not change any more.
LEMMA CtxStays == TypeOK /\ [Next]_vars /\ CtxDone => UNCHANGED err
BY DEF TypeOK, Next, vars, server, CtxDone, Signal, AwaitSignal, Run, Endpoint, CheckEndpoint, UseEndpoint, LoopEnds, Main, Poll,
       Select, Wait, Stop, BeginStop, Release, EndStop, Abandon, Over, Operate, BeginCall,
       EndCall, StartOperator, StopOperator, AwaitOperator, Tick, Leave, EndTick, Return

\* The server leaves serving in the task that stops it; it loses what it has open
\* there, or when it cannot start, which ends ctx.
LEMMA ToldStep == IInv /\ [Next]_vars => Told'
<1> SUFFICES ASSUME IInv, [Next]_vars
             PROVE  Told'
  OBVIOUS
<1>1. ASSUME CtxDone
      PROVE  Told'
  BY <1>1, CtxStays DEF IInv, Told, CtxDone
<1>3. ASSUME CtxDone'
      PROVE  Told'
  BY <1>3 DEF Told
<1>2. ASSUME ~CtxDone, ~CtxDone'
      PROVE  Told'
  <2>1. /\ phase \notin {"draining", "stopped", "abandoned"}
        /\ open = Resources
        /\ main # "panic"
    BY <1>2 DEF IInv, Told
  <2>2. "node" \in open
    BY <2>1 DEF Resources
  <2>3. /\ phase' \notin {"draining", "stopped", "abandoned"}
        /\ open' = open
    BY <1>2, <2>1 DEF CtxDone, Return, Next, vars, server, Signal, AwaitSignal, Run, Endpoint, CheckEndpoint, UseEndpoint, LoopEnds, Main, Poll,
       Select, Wait, Stop, BeginStop, Release, EndStop, Abandon, Over, Operate, BeginCall,
       EndCall, StartOperator, StopOperator, AwaitOperator, Tick, Leave, EndTick,
       Server!Start, Server!Work, Server!Serve, Server!FailStart, Server!Fail, Server!Rest, Server!BeginStop,
       Server!Release, Server!EndStop, Server!Abandon
  <2>4. main' # "panic"
    BY <2>1, <2>2 DEF Next, vars, server, Signal, AwaitSignal, Run, Endpoint, CheckEndpoint, UseEndpoint, LoopEnds, Main, Poll,
       Select, Wait, Stop, BeginStop, Release, EndStop, Abandon, Over, Operate, BeginCall,
       EndCall, StartOperator, StopOperator, AwaitOperator, Tick, Leave, EndTick, ChainPanics
  <2> QED
    BY <2>1, <2>3, <2>4 DEF Told
<1> QED
  BY <1>1, <1>2, <1>3

\* A step moves one task, its own, but for the one that starts the others.
LEMMA OneTask ==
  [Next]_vars =>
    \/ UNCHANGED task
    \/ Poll
    \/ AwaitSignal /\ Goto("signal", "done")
    \/ \E label \in {"call", "ready", "done"} : Goto("run", label)
    \/ BeginStop /\ Goto("stop", "stopping")
    \/ (EndStop \/ Abandon) /\ Goto("stop", "done")
    \/ \E g \in Generators, label \in {"begin", "call", "ready", "stopping", "done"} :
         Operate(g) /\ Goto(g, label)
<1> SUFFICES ASSUME [Next]_vars, ~UNCHANGED task
             PROVE  \/ Poll
                    \/ AwaitSignal /\ Goto("signal", "done")
                    \/ \E label \in {"call", "ready", "done"} : Goto("run", label)
                    \/ BeginStop /\ Goto("stop", "stopping")
                    \/ (EndStop \/ Abandon) /\ Goto("stop", "done")
                    \/ \E g \in Generators, label \in {"begin", "call", "ready", "stopping", "done"} :
                         Operate(g) /\ Goto(g, label)
  OBVIOUS
<1>1. CASE AwaitSignal
  BY <1>1 DEF AwaitSignal, Return
<1>2. CASE Run \/ Endpoint
  BY <1>2 DEF Run, Endpoint, CheckEndpoint, UseEndpoint, Return
<1>3. CASE Stop \/ Abandon
  BY <1>3 DEF Stop, BeginStop, Release, EndStop, Abandon, Return
<1>4. ASSUME NEW g \in Generators, Operate(g)
      PROVE  \E label \in {"begin", "call", "ready", "stopping", "done"} : Goto(g, label)
  BY <1>4 DEF Operate, BeginCall, EndCall, StartOperator, StopOperator, AwaitOperator, Tick,
       Leave, EndTick, Return
<1> QED
  BY <1>1, <1>2, <1>3, <1>4 DEF Next, vars, Signal, LoopEnds, Main, Select, Wait, Over

\* Only the task that waits for signals returns "canceled".
LEMMA CauseStep == IInv /\ [Next]_vars => Cause'
<1> SUFFICES ASSUME IInv, [Next]_vars
             PROVE  Cause'
  OBVIOUS
<1> USE DEF IInv
<1>1. signalled => signalled'
  BY DEF TypeOK, Next, vars, server, Signal, AwaitSignal, Run, Endpoint, CheckEndpoint, UseEndpoint, LoopEnds, Main, Poll,
       Select, Wait, Stop, BeginStop, Release, EndStop, Abandon, Over, Operate, BeginCall,
       EndCall, StartOperator, StopOperator, AwaitOperator, Tick, Leave, EndTick
<1>2. CASE AwaitSignal
  <2>1. Return("signal", "canceled") /\ UNCHANGED <<main, signalled>>
    BY <1>2 DEF AwaitSignal
  <2>2. CtxDone' /\ (CtxDone => err' = err)
    BY <2>1 DEF Return, CtxDone
  <2>3. ~CtxDone => signalled
    BY <1>2 DEF AwaitSignal
  <2> QED
    BY <2>1, <2>2, <2>3 DEF Cause
<1>3. CASE Wait
  <2>1. task["signal"] = "done"
    BY <1>3 DEF Wait, Tasks
  <2>2. err \in {"canceled", "failed"}
    BY <2>1 DEF Cause, TypeOK, CtxDone
  <2> QED
    BY <1>3, <2>1, <2>2 DEF Wait, Cause, CtxDone
<1>4. ASSUME ~AwaitSignal, ~Wait
      PROVE  Cause'
  <2>1. task'["signal"] = "done" => task["signal"] = "done"
    BY <1>4, OneTask DEF TypeOK, Poll, Goto, Tasks
  <2>2. err' = "canceled" => err = "canceled"
    BY <1>4 DEF TypeOK, Next, vars, server, Signal, AwaitSignal, Run, Endpoint, CheckEndpoint, UseEndpoint, LoopEnds, Main, Poll,
       Select, Stop, BeginStop, Release, EndStop, Abandon, Over, Operate, BeginCall,
       EndCall, StartOperator, StopOperator, AwaitOperator, Tick, Leave, EndTick, Return
  <2>3. main' = "exit 0" => main = "exit 0"
    BY <1>4 DEF Next, vars, server, Signal, AwaitSignal, Run, Endpoint, CheckEndpoint, UseEndpoint, LoopEnds, Main, Poll,
       Select, Stop, BeginStop, Release, EndStop, Abandon, Over, Operate, BeginCall,
       EndCall, StartOperator, StopOperator, AwaitOperator, Tick, Leave, EndTick, ChainPanics
  <2>4. CtxDone => CtxDone'
    BY CtxStays DEF CtxDone
  <2> QED
    BY <1>1, <2>1, <2>2, <2>3, <2>4 DEF Cause
<1> QED
  BY <1>2, <1>3, <1>4

LEMMA WaitingStep == IInv /\ [Next]_vars => Waiting'
<1> SUFFICES ASSUME IInv, [Next]_vars, main' \in {"poll", "select"},
                    NEW t \in Generators \cup {"stop"}
             PROVE  task'[t] = "none"
  BY DEF Waiting
<1>1. main \in {"poll", "select"}
  BY DEF Next, vars, server, Signal, AwaitSignal, Run, Endpoint, CheckEndpoint, UseEndpoint, LoopEnds, Main, Poll,
       Select, Wait, Stop, BeginStop, Release, EndStop, Abandon, Over, Operate, BeginCall,
       EndCall, StartOperator, StopOperator, AwaitOperator, Tick, Leave, EndTick, ChainPanics,
       IInv, TypeOK, Ended
<1>2. \A s \in Generators \cup {"stop"} : task[s] = "none"
  BY <1>1 DEF IInv, Waiting
<1>3. ~BeginStop /\ ~EndStop /\ ~Abandon
  BY <1>2 DEF BeginStop, EndStop, Abandon, In
<1>4. \A g \in Generators, label \in {"begin", "call", "ready", "stopping", "done"} :
        ~(Operate(g) /\ Goto(g, label))
  <2> SUFFICES ASSUME NEW g \in Generators, Operate(g),
                      NEW label \in {"begin", "call", "ready", "stopping", "done"},
                      Goto(g, label)
               PROVE  FALSE
    OBVIOUS
  <2>1. task[g] = "none" /\ task'[g] = label
    BY <1>2 DEF IInv, TypeOK, Goto, Tasks
  <2>2. task' = task
    BY <2>1 DEF Operate, BeginCall, EndCall, StartOperator, StopOperator, AwaitOperator,
       Tick, Leave, EndTick, In
  <2> QED
    BY <2>1, <2>2
<1>5. CASE Poll
  BY <1>2, <1>5 DEF Poll
<1> QED
  BY <1>2, <1>3, <1>4, <1>5, OneTask DEF IInv, TypeOK, Goto, Tasks

\* A task of an operator ends, or begins anew, only when no goroutine of its works.
LEMMA AttendedStep == IInv /\ [Next]_vars => Attended'
<1> SUFFICES ASSUME IInv, [Next]_vars, NEW g \in Generators,
                    operator'[g] \in {"select", "tick"}
             PROVE  task'[g] \in {"ready", "stopping"}
  BY DEF Attended
<1> USE DEF IInv, TypeOK, Tasks
<1>1. operator[g] \in {"select", "tick"} => task[g] \in {"ready", "stopping"}
  BY DEF Attended
<1>2. CASE Operate(g)
  <2>1. CASE StartOperator(g)
    BY <2>1 DEF StartOperator, Goto
  <2>2. CASE StopOperator(g)
    BY <2>2 DEF StopOperator, Goto
  <2>3. CASE Tick(g)
    BY <1>1, <2>3 DEF Tick
  <2>4. CASE Leave(g)
    BY <2>4 DEF Leave, OperatorGoto
  <2>5. CASE EndTick(g)
    BY <1>1, <2>5 DEF EndTick
  <2>6. CASE AwaitOperator(g)
    BY <2>6 DEF AwaitOperator
  <2>7. CASE BeginCall(g) \/ EndCall(g)
    BY <1>1, <2>7 DEF BeginCall, EndCall, In
  <2> QED
    BY <1>2, <2>1, <2>2, <2>3, <2>4, <2>5, <2>6, <2>7 DEF Operate
<1>3. ASSUME NEW h \in Generators, h # g, Operate(h)
      PROVE  task'[g] = task[g] /\ operator'[g] = operator[g]
  BY <1>3 DEF Operate, BeginCall, EndCall, StartOperator, StopOperator, AwaitOperator,
       Tick, Leave, EndTick, Return, Goto, OperatorGoto
<1>4. ASSUME \A h \in Generators : ~Operate(h)
      PROVE  operator' = operator
  BY <1>4 DEF Next, vars, Signal, AwaitSignal, Run, Endpoint, CheckEndpoint, UseEndpoint, LoopEnds, Main, Poll, Select, Wait, Stop,
       BeginStop, Release, EndStop, Abandon, Over
<1>5. CASE Poll
  <2>1. task[g] = "none"
    BY <1>5 DEF Poll, Waiting
  <2>2. operator'[g] = operator[g]
    BY <1>5 DEF Poll
  <2> QED
    BY <1>1, <2>1, <2>2
<1>6. ASSUME \A h \in Generators : ~Operate(h), ~Poll
      PROVE  task'[g] = task[g]
  BY <1>6, OneTask DEF Goto
<1> QED
  BY <1>1, <1>2, <1>3, <1>4, <1>5, <1>6

LEMMA StoppedStep == IInv /\ [Next]_vars => Stopped'
<1> SUFFICES ASSUME IInv, [Next]_vars, task'["stop"] = "done"
             PROVE  \/ phase' = "stopped" /\ open' = {}
                    \/ phase' = "abandoned"
  BY DEF Stopped
<1> USE DEF IInv, TypeOK, Tasks
<1>1. CASE EndStop \/ Abandon
  BY <1>1 DEF EndStop, Abandon, Server!EndStop, Server!Abandon
<1>2. ASSUME ~EndStop, ~Abandon
      PROVE  task["stop"] = "done"
  BY <1>2, OneTask DEF Poll, Goto
<1>3. ASSUME phase \in {"stopped", "abandoned"}
      PROVE  UNCHANGED <<phase, open>>
  BY <1>3 DEF Next, vars, server, Signal, AwaitSignal, Run, Endpoint, CheckEndpoint, UseEndpoint, LoopEnds, Main, Poll,
       Select, Wait, Stop, BeginStop, Release, EndStop, Abandon, Over, Operate, BeginCall,
       EndCall, StartOperator, StopOperator, AwaitOperator, Tick, Leave, EndTick,
       Server!Start, Server!Work, Server!Serve, Server!FailStart, Server!Fail, Server!Rest, Server!BeginStop,
       Server!Release, Server!EndStop, Server!Abandon
<1> QED
  BY <1>1, <1>2, <1>3 DEF Stopped

\* The wait ends when every task has; afterwards nothing moves.
LEMMA WaitStep == IInv /\ [Next]_vars => WaitMeansOver'
<1> SUFFICES ASSUME IInv, [Next]_vars, main' \in {"exit 0", "exit 1"}, task'["stop"] # "none"
             PROVE  /\ \A g \in Generators : operator'[g] \in {"none", "gone"} /\ task'[g] = "done"
                    /\ \/ phase' = "stopped" /\ open' = {}
                       \/ phase' = "abandoned"
  BY DEF WaitMeansOver
<1> USE DEF IInv, TypeOK, Tasks
<1>1. CASE Wait
  <2>1. /\ \A t \in Tasks : task[t] = "done"
        /\ UNCHANGED <<phase, open, task, operator>>
    BY <1>1 DEF Wait, server
  <2>2. \A g \in Generators : operator[g] \in {"none", "gone"}
    BY <2>1 DEF Attended
  <2> QED
    BY <2>1, <2>2 DEF Stopped
<1>2. CASE Select
  BY <1>2 DEF Select, Waiting
<1>3. ASSUME ~Wait, ~Select
      PROVE  main \in {"exit 0", "exit 1"}
  BY <1>3 DEF Next, vars, server, Signal, AwaitSignal, Run, Endpoint, CheckEndpoint, UseEndpoint, LoopEnds, Main, Poll,
       Stop, BeginStop, Release, EndStop, Abandon, Over, Operate, BeginCall,
       EndCall, StartOperator, StopOperator, AwaitOperator, Tick, Leave, EndTick, ChainPanics
<1>4. ASSUME main \in {"exit 0", "exit 1"}
      PROVE  UNCHANGED vars
  BY <1>4 DEF Next, Signal, AwaitSignal, Run, Endpoint, CheckEndpoint, UseEndpoint, LoopEnds, Main, Poll,
       Select, Wait, Stop, BeginStop, Release, EndStop, Abandon, Over, Operate, BeginCall,
       EndCall, StartOperator, StopOperator, AwaitOperator, Tick, Leave, EndTick, In, Alive,
       Ended
<1> QED
  BY <1>1, <1>2, <1>3, <1>4 DEF WaitMeansOver, vars, server

--------------------------------------------------------------------------------

LEMMA Invariance == Spec => []IInv
<1>1. IInv /\ [Next]_vars => IInv'
  BY TypeStep, ToldStep, CauseStep, WaitingStep, AttendedStep, StoppedStep, WaitStep DEF IInv
<1> QED
  BY InitIInv, <1>1, PTL DEF Spec

\* The program's state is well typed, the server's as OneShotServer has it.
THEOREM TypeCorrect == Spec => []TypeOK
<1>1. IInv => TypeOK
  BY DEF IInv
<1> QED
  BY Invariance, <1>1, PTL

\* No operator and no generator is left once main has waited for its tasks
\* (main.go 251), however many there are and whatever fails, and the server has been
\* stopped, or abandoned by a Stop whose time was over.
THEOREM WaitIsFinal == Spec => []WaitMeansOver
<1>1. IInv => WaitMeansOver
  BY DEF IInv
<1> QED
  BY Invariance, <1>1, PTL

\* Nobody loses the chain before the first failure or signal (main.go 176-187).
THEOREM ClosesLast == Spec => []ClosedOnlyWhenTold
<1>1. IInv => ClosedOnlyWhenTold
  BY DEF IInv, Told, ClosedOnlyWhenTold
<1> QED
  BY Invariance, <1>1, PTL

\* Status 0 means that a signal ended the program (main.go 137-147 and 251-254).
THEOREM StatusTruthful == Spec => []SuccessMeansSignal
<1>1. IInv => SuccessMeansSignal
  BY DEF IInv, Cause, SuccessMeansSignal
<1> QED
  BY Invariance, <1>1, PTL

================================================================================
