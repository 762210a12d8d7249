---------------------------- MODULE CppGuardWait ---------------------------
(***************************************************************************)
(* waitForAutonomy of guard.cpp: one caller, the callbacks of an executor  *)
(* on another thread, and the mutex they share.                            *)
(*                                                                         *)
(* A std::mutex is not recursive.  Locking it twice from one thread is     *)
(* undefined; with the POSIX mutex under it the thread waits for itself.   *)
(* The callbacks lock, write and unlock in one step, which only needs the  *)
(* mutex to be free.                                                       *)
(***************************************************************************)
EXTENDS SentorGuard

CONSTANT Timeout  \* timeout of the call, in ticks; 0 is indefinite

VARIABLES
  pc,          \* where the caller is, or its result
  holder,      \* who holds mutex_
  blocking,    \* is_currently_blocking_
  firstBlock,  \* first_block
  waited       \* ticks since the call began, at most Timeout

callVars == <<pc, holder, blocking, firstBlock, waited>>
vars == <<guardVars, callVars>>

Results == {"true", "false"}
Waiting == {"lock", "check", "publish", "expired", "warn", "sleep", "spin"}

\* The reason is asked for under the mutex the caller already holds.
AsksReason == {"publish", "warn"}

TypeOK ==
  /\ pc \in {"idle"} \cup Results \cup Waiting
  /\ holder \in {"none", "caller"}
  /\ blocking \in BOOLEAN /\ firstBlock \in BOOLEAN
  /\ waited \in 0 .. Timeout

Init ==
  /\ GuardInit
  /\ pc = "idle" /\ holder = "none"
  /\ blocking = FALSE /\ firstBlock = TRUE /\ waited = 0

Call ==
  /\ pc \in {"idle"} \cup Results
  /\ pc' = "lock" /\ firstBlock' = TRUE /\ waited' = 0
  /\ UNCHANGED <<guardVars, holder, blocking>>

Lock ==
  /\ pc = "lock" /\ holder = "none"
  /\ pc' = "check" /\ holder' = "caller"
  /\ UNCHANGED <<guardVars, blocking, firstBlock, waited>>

\* publishBlockingStatus(false) asks for no reason.
Pass ==
  /\ pc = "check" /\ Allowed
  /\ pc' = "true" /\ holder' = "none" /\ blocking' = FALSE
  /\ UNCHANGED <<guardVars, firstBlock, waited>>

Block ==
  /\ pc = "check" /\ ~Allowed
  /\ pc' = IF firstBlock THEN "publish" ELSE "expired"
  /\ firstBlock' = FALSE
  /\ blocking' = (blocking \/ firstBlock)
  /\ UNCHANGED <<guardVars, holder, waited>>

\* getBlockingReason locks the mutex for its own scope.
GetBlockingReason ==
  /\ pc \in AsksReason /\ holder = "none"
  /\ \/ pc = "publish" /\ pc' = "expired" /\ UNCHANGED holder
     \/ pc = "warn" /\ pc' = "false" /\ holder' = "none"
  /\ UNCHANGED <<guardVars, blocking, firstBlock, waited>>

Expired ==
  /\ pc = "expired"
  /\ \/ /\ Timeout > 0 /\ waited = Timeout
        /\ pc' = "warn" /\ UNCHANGED holder
     \/ /\ ~(Timeout > 0 /\ waited = Timeout)
        /\ pc' = "sleep" /\ holder' = "none"
  /\ UNCHANGED <<guardVars, blocking, firstBlock, waited>>

\* The wait on the condition variable ends, by its 100 ms or a notification,
\* with the mutex locked again, and the scope unlocks it.
Wake ==
  /\ pc = "sleep" /\ holder = "none"
  /\ pc' = "spin"
  /\ UNCHANGED <<guardVars, holder, blocking, firstBlock, waited>>

SpinSome ==
  /\ pc = "spin"
  /\ pc' = "lock"
  /\ UNCHANGED <<guardVars, holder, blocking, firstBlock, waited>>

Callback ==
  /\ holder = "none"
  /\ \/ \E value \in {"start-up", "disabled", "enabled", "active"} : StateCallback(value)
     \/ \E value \in Modes : ModeCallback(value)
  /\ UNCHANGED callVars

Tick ==
  /\ GuardTick
  /\ waited' = IF pc \in Waiting /\ waited < Timeout THEN waited + 1 ELSE waited
  /\ UNCHANGED <<pc, holder, blocking, firstBlock>>

CallerStep ==
  Lock \/ Pass \/ Block \/ GetBlockingReason \/ Expired \/ Wake \/ SpinSome

Next == Call \/ CallerStep \/ Callback \/ Tick

\* The caller's thread runs whenever it can, and time passes.
Fairness == SF_vars(CallerStep) /\ WF_vars(Tick)

Spec == Init /\ [][Next]_vars /\ Fairness

----------------------------------------------------------------------------
\* guard.hpp 79-83: waitForAutonomy with a timeout returns, TRUE if autonomy is
\* allowed and FALSE if the timeout occurred.  The first time it has to block it
\* asks for the reason, whose lock it holds itself.
WaitReturns == Timeout > 0 => (pc \in Waiting ~> pc \in Results)
============================================================================
