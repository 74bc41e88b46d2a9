---------------------------- MODULE MonkeyOperator -----------------------------
(***************************************************************************)
(* The monkey operator: Run initialises the transaction generator and      *)
(* starts a goroutine that generates one block at every tick; Stop signals *)
(* it through stopCh and waits for doneCh.  Any goroutine may call Run and *)
(* Stop, and Run more than once: the two channels are made once, when the  *)
(* operator is constructed.                                                *)
(*                                                                         *)
(* What a tick puts into the block, and the chain it goes to, is the       *)
(* business of others: here GenerateBlocks only succeeds, reports          *)
(* ErrLimitReached or fails.                                               *)
(***************************************************************************)
EXTENDS Naturals, FiniteSets

CONSTANTS
  Callers,   \* goroutines that call Run and Stop
  Ticks,     \* config.Ticks, 0 when there is no limit
  MaxRuns,   \* bound: goroutines that Run may start
  MaxTicks,  \* bound: the counters of ticks stay there
  Env        \* what the environment may do, a subset of EnvEvents

EnvEvents ==
  { "initFails",      \* txGen.Initialize returns an error
    "limitReached",   \* GenerateBlocks returns ErrLimitReached
    "generateFails",  \* GenerateBlocks, or a transaction, fails
    "cancel",         \* a context given to Run is done
    "stopExpires" }   \* the context given to Stop is done first

ASSUME OperatorAssumption ==
  /\ IsFiniteSet(Callers)
  /\ Ticks \in Nat
  /\ MaxRuns \in Nat \ {0}
  /\ MaxTicks \in Nat /\ MaxTicks > Ticks
  /\ Env \subseteq EnvEvents

Runs == 1..MaxRuns

VARIABLES
  running,    \* m.running
  stopClosed, \* m.stopCh is closed
  doneClosed, \* m.doneCh is closed
  started,    \* how many goroutines were started
  loop,       \* where each goroutine is
  ticks,      \* its local counter
  made,       \* history: the blocks it put on the chain
  cancelled,  \* the goroutines whose context is done
  pc,         \* where each caller is
  failed,     \* its last call returned an error
  again       \* history: a Run got past its test beside or after another one

vars == <<running, stopClosed, doneClosed, started, loop, ticks, made, cancelled,
          pc, failed, again>>

RunLabels == {"store", "init"}

TypeOK ==
  /\ running \in BOOLEAN
  /\ stopClosed \in BOOLEAN
  /\ doneClosed \in BOOLEAN
  /\ started \in 0..MaxRuns
  /\ loop \in [Runs -> {"none", "select", "tick", "leaving", "closing", "gone", "panic"}]
  /\ ticks \in [Runs -> 0..MaxTicks]
  /\ made \in [Runs -> 0..MaxTicks]
  /\ cancelled \subseteq Runs
  /\ pc \in [Callers -> RunLabels \cup {"idle", "waiting"}]
  /\ failed \in [Callers -> BOOLEAN]
  /\ again \in BOOLEAN

Init ==
  /\ running = FALSE
  /\ stopClosed = FALSE
  /\ doneClosed = FALSE
  /\ started = 0
  /\ loop = [r \in Runs |-> "none"]
  /\ ticks = [r \in Runs |-> 0]
  /\ made = [r \in Runs |-> 0]
  /\ cancelled = {}
  /\ pc = [c \in Callers |-> "idle"]
  /\ failed = [c \in Callers |-> FALSE]
  /\ again = FALSE

\* Closing a closed channel ends the process.
Alive == \A r \in Runs : loop[r] # "panic"

In(c, label) == Alive /\ pc[c] = label
LoopIn(r, label) == Alive /\ loop[r] = label

Goto(c, label) == pc' = [pc EXCEPT ![c] = label]
LoopGoto(r, label) == loop' = [loop EXCEPT ![r] = label]

Return(c, err) ==
  /\ Goto(c, "idle")
  /\ failed' = [failed EXCEPT ![c] = err]

channels == <<stopClosed, doneClosed>>
loops    == <<started, loop, ticks, made, cancelled>>
callers  == <<pc, failed>>

--------------------------------------------------------------------------------
(***************************************************************************)
(* Run.                                                                    *)
(***************************************************************************)

\* The Runs under way: each may start a goroutine.
UnderWay == {c \in Callers : pc[c] \in RunLabels}

\* The test of running.  The bound keeps room for what is under way.
CallRun(c) ==
  /\ In(c, "idle")
  /\ started + Cardinality(UnderWay) < MaxRuns
  /\ \/ /\ running
        /\ Return(c, TRUE)
        /\ UNCHANGED again
     \/ /\ ~running
        /\ Goto(c, "store")
        /\ again' = (again \/ started + Cardinality(UnderWay) > 0)
        /\ UNCHANGED failed
  /\ UNCHANGED <<running, channels, loops>>

\* The store, which is not one step with the test.
StoreRunning(c) ==
  /\ In(c, "store")
  /\ running' = TRUE
  /\ Goto(c, "init")
  /\ UNCHANGED <<channels, loops, failed, again>>

\* Mutant: a failed initialisation leaves running as it is.
InitializeForgetful(c) ==
  /\ In(c, "init")
  /\ \/ /\ started' = started + 1
        /\ LoopGoto(started + 1, "select")
        /\ Return(c, FALSE)
        /\ UNCHANGED running
     \/ /\ "initFails" \in Env
        /\ Return(c, TRUE)
        /\ UNCHANGED <<running, started, loop>>
  /\ UNCHANGED <<channels, ticks, made, cancelled, again>>

\* Mutant: Run starts its goroutine twice.
InitializeTwice(c) ==
  /\ In(c, "init")
  /\ started' = started + 2
  /\ loop' = [r \in Runs |-> IF r \in {started + 1, started + 2} THEN "select" ELSE loop[r]]
  /\ Return(c, FALSE)
  /\ UNCHANGED <<running, channels, ticks, made, cancelled, again>>

\* txGen.Initialize, then the ticker and the goroutine.
Initialize(c) ==
  /\ In(c, "init")
  /\ \/ /\ started' = started + 1
        /\ LoopGoto(started + 1, "select")
        /\ Return(c, FALSE)
        /\ UNCHANGED running
     \/ /\ "initFails" \in Env
        /\ running' = FALSE
        /\ Return(c, TRUE)
        /\ UNCHANGED <<started, loop>>
  /\ UNCHANGED <<channels, ticks, made, cancelled, again>>

--------------------------------------------------------------------------------
(***************************************************************************)
(* The goroutine of the r-th successful Run.                               *)
(***************************************************************************)

\* The select takes the ticker: GenerateBlocks(1, ...) is called.
Tick(r) ==
  /\ LoopIn(r, "select")
  /\ LoopGoto(r, "tick")
  /\ UNCHANGED <<running, channels, started, ticks, made, cancelled, callers, again>>

\* Counting stops at the bound, which is beyond config.Ticks.
CountOn(n) == IF n < MaxTicks THEN n + 1 ELSE n

TicksReached(n) == Ticks > 0 /\ n >= Ticks

\* Mutant: the counter is compared before it counts this tick.
GeneratedTooMany(r) ==
  /\ LoopIn(r, "tick")
  /\ ticks' = [ticks EXCEPT ![r] = CountOn(@)]
  /\ made' = [made EXCEPT ![r] = CountOn(@)]
  /\ LoopGoto(r, IF TicksReached(ticks[r]) THEN "leaving" ELSE "select")
  /\ UNCHANGED <<running, channels, started, cancelled, callers, again>>

\* Mutant: the limit on ticks is not looked at.
GeneratedForever(r) ==
  /\ LoopIn(r, "tick")
  /\ ticks' = [ticks EXCEPT ![r] = CountOn(@)]
  /\ made' = [made EXCEPT ![r] = CountOn(@)]
  /\ LoopGoto(r, "select")
  /\ UNCHANGED <<running, channels, started, cancelled, callers, again>>

\* GenerateBlocks made the block: the limit on ticks is looked at.
Generated(r) ==
  /\ LoopIn(r, "tick")
  /\ ticks' = [ticks EXCEPT ![r] = CountOn(@)]
  /\ made' = [made EXCEPT ![r] = CountOn(@)]
  /\ LoopGoto(r, IF TicksReached(ticks'[r]) THEN "leaving" ELSE "select")
  /\ UNCHANGED <<running, channels, started, cancelled, callers, again>>

\* GenerateBlocks refused or failed, perhaps after it inserted the block: the
\* goroutine goes on after ErrLimitReached, which need not be permanent, and
\* gives up otherwise.
NotGenerated(r) ==
  /\ LoopIn(r, "tick")
  /\ ticks' = [ticks EXCEPT ![r] = CountOn(@)]
  /\ \/ /\ "limitReached" \in Env
        /\ LoopGoto(r, "select")
        /\ UNCHANGED made
     \/ /\ "generateFails" \in Env
        /\ LoopGoto(r, "leaving")
        /\ \/ UNCHANGED made
           \/ made' = [made EXCEPT ![r] = CountOn(@)]
  /\ UNCHANGED <<running, channels, started, cancelled, callers, again>>

\* Mutant: the goroutine listens to its context only.
ToldDeaf(r) ==
  /\ LoopIn(r, "select")
  /\ r \in cancelled
  /\ LoopGoto(r, "leaving")
  /\ UNCHANGED <<running, channels, started, ticks, made, cancelled, callers, again>>

\* The select takes ctx.Done() or stopCh.
Told(r) ==
  /\ LoopIn(r, "select")
  /\ r \in cancelled \/ stopClosed
  /\ LoopGoto(r, "leaving")
  /\ UNCHANGED <<running, channels, started, ticks, made, cancelled, callers, again>>

\* The deferred function stores running ...
Leave(r) ==
  /\ LoopIn(r, "leaving")
  /\ running' = FALSE
  /\ LoopGoto(r, "closing")
  /\ UNCHANGED <<channels, started, ticks, made, cancelled, callers, again>>

\* ... and closes doneCh, which panics when it is closed already.
CloseDone(r) ==
  /\ LoopIn(r, "closing")
  /\ \/ ~doneClosed /\ doneClosed' = TRUE /\ LoopGoto(r, "gone")
     \/ doneClosed /\ LoopGoto(r, "panic") /\ UNCHANGED doneClosed
  /\ UNCHANGED <<running, stopClosed, started, ticks, made, cancelled, callers, again>>

\* Whoever passed the context to Run cancels it.
Cancel(r) ==
  /\ "cancel" \in Env
  /\ Alive
  /\ loop[r] # "none"
  /\ r \notin cancelled
  /\ cancelled' = cancelled \cup {r}
  /\ UNCHANGED <<running, channels, started, loop, ticks, made, callers, again>>

--------------------------------------------------------------------------------
(***************************************************************************)
(* Stop.                                                                   *)
(***************************************************************************)

\* stopOnce closes stopCh, the first time.
CallStop(c) ==
  /\ In(c, "idle")
  /\ stopClosed' = TRUE
  /\ Goto(c, "waiting")
  /\ UNCHANGED <<running, doneClosed, loops, failed, again>>

\* Mutant: Stop looks at running instead of doneCh.
AwaitRunning(c) ==
  /\ In(c, "waiting")
  /\ ~running
  /\ Return(c, FALSE)
  /\ UNCHANGED <<running, channels, loops, again>>

Await(c) ==
  /\ In(c, "waiting")
  /\ \/ doneClosed /\ Return(c, FALSE)
     \/ "stopExpires" \in Env /\ Return(c, TRUE)
  /\ UNCHANGED <<running, channels, loops, again>>

--------------------------------------------------------------------------------

CallerStep(c) ==
  CallRun(c) \/ StoreRunning(c) \/ Initialize(c) \/ CallStop(c) \/ Await(c)

LoopStep(r) ==
  \/ Tick(r) \/ Generated(r) \/ NotGenerated(r) \/ Told(r)
  \/ Leave(r) \/ CloseDone(r)

\* The process is gone.
Dead == ~Alive /\ UNCHANGED vars

Next ==
  \/ \E c \in Callers : CallerStep(c)
  \/ \E r \in Runs : LoopStep(r) \/ Cancel(r)
  \/ Dead

Spec == Init /\ [][Next]_vars

\* Goroutines run on once they are in a call, the ticker ticks, and a select
\* takes a channel that stays ready sooner or later, even when its ticker is
\* ready every time.  The context of a Stop need not expire.
Fairness ==
  /\ \A c \in Callers : WF_vars(StoreRunning(c)) /\ WF_vars(Initialize(c)) /\ WF_vars(Await(c) /\ ~failed'[c])
  /\ \A r \in Runs :
       /\ WF_vars(Tick(r))
       /\ WF_vars(Generated(r) \/ NotGenerated(r))
       /\ SF_vars(Told(r))
       /\ WF_vars(Leave(r))
       /\ WF_vars(CloseDone(r))

FairSpec == Spec /\ Fairness

--------------------------------------------------------------------------------
(***************************************************************************)
(* Properties that hold.                                                   *)
(***************************************************************************)

\* A goroutine that may still generate a block.
AtWork(r) == loop[r] \in {"select", "tick"}

\* Ticks bounds the blocks the operator makes, failed ticks and blocks that were
\* inserted by a call that then failed included.
BlocksWithinTicks == Ticks > 0 => \A r \in Runs : made[r] <= Ticks

\* IsRunning tells whether the operator works: between Run's store and the
\* goroutine's, and never after a failed initialisation.  That takes Runs that do
\* not overlap and at most one that succeeds: two at once can both pass the test
\* of running, and then each stores what it likes.
RunningIsTruthful ==
  ~again =>
    ( running <=> \/ \E c \in Callers : pc[c] = "init"
                  \/ \E r \in Runs : loop[r] \in {"select", "tick", "leaving"} )

\* What a Stop that reports success says of a step: no goroutine is left that
\* could call GenerateBlocks, and IsRunning is false.
StoppedStep ==
  \A c \in Callers :
    pc[c] = "waiting" /\ pc'[c] = "idle" /\ ~failed'[c] =>
      ~running /\ \A r \in Runs : loop[r] \in {"none", "gone"}

\* "Stop signals the operator to stop and waits for it to finish gracefully"
\* (monkey.go:172), for an operator that is run once.
StopWaitsOnce == [][ ~again => StoppedStep ]_vars

\* A Stop that waits without a deadline returns, once there is a goroutine to
\* stop, although that goroutine's ticker stays ready.
StopReturns ==
  \A c \in Callers : pc[c] = "waiting" /\ started > 0 ~> pc[c] = "idle" \/ ~Alive

\* An operator with a limit on its ticks ends by itself, unless the block limit
\* refused one of them.
TicksEnd ==
  Ticks > 0 =>
    \A r \in Runs :
      loop[r] = "select" ~> loop[r] = "gone" \/ made[r] < ticks[r] \/ ~Alive

--------------------------------------------------------------------------------
(***************************************************************************)
(* What the code says of itself and does not do.                           *)
(***************************************************************************)

\* "Stop signals the operator to stop and waits for it to finish gracefully"
\* (monkey.go:172), however often the operator was run.
StopWaits == [][ StoppedStep ]_vars

================================================================================
