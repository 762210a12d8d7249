----------------------------- MODULE GuardWait -----------------------------
(***************************************************************************)
(* wait_for_autonomy of guard.py in an application of one thread.          *)
(*                                                                         *)
(* The callbacks of the guard run when the application spins its node: one *)
(* per turn of the wait loop, and where the application does it itself.    *)
(* While it works, messages wait in the subscription queues.  The network  *)
(* takes no time here (Delay of AutonomyStack is not used): what is late   *)
(* is late because nobody spun.  A message keeps its age since publication *)
(* next to the age since reception that the guard measures.                *)
(*                                                                         *)
(* Left out: the reason and the call stack in the status, which nothing    *)
(* decides by, and the end of the process (rclpy.ok()).                    *)
(***************************************************************************)
EXTENDS AutonomyStack

CONSTANT Timeout  \* timeout of a call that has one, in ticks

VARIABLES
  pc,          \* "work", or where in the wait loop the application is
  timed,       \* the call has a timeout
  waited,      \* time since the call began, at most Timeout
  firstBlock,  \* first_block
  blocking,    \* _is_currently_blocking
  status,      \* the last GuardStatus published
  stateNews,   \* time since the publication of the state the guard holds
  modeNews     \* time since the publication of the mode it holds

callVars == <<timed, waited, firstBlock>>
statusVars == <<blocking, status>>
newsVars == <<stateNews, modeNews>>
appVars == <<pc, callVars, statusVars, newsVars>>
waitVars == <<vars, appVars>>

WaitInit ==
  /\ Init
  /\ pc = "work" /\ timed = FALSE /\ waited = 0 /\ firstBlock = TRUE
  /\ blocking = FALSE /\ status = "none"
  /\ stateNews = 0 /\ modeNews = 0

----------------------------------------------------------------------------
(* wait_for_autonomy.                                                      *)

\* A publication that fails is only logged.
PublishBlockingStatus(isBlocking) ==
  status' = IF isBlocking THEN "blocking" ELSE "passing"

\* By the context manager, without a timeout, or by guarded_wait and the
\* decorator, with one or without.  Each adds an exception to a FALSE.
Call ==
  /\ pc = "work"
  /\ pc' = "check"
  /\ timed' \in BOOLEAN /\ waited' = 0 /\ firstBlock' = TRUE
  /\ UNCHANGED <<vars, statusVars, newsVars>>

\* The call returns TRUE and the guarded code begins.
Grant ==
  /\ pc = "check" /\ Allowed
  /\ pc' = "work"
  /\ IF blocking THEN PublishBlockingStatus(FALSE) ELSE UNCHANGED status
  /\ blocking' = FALSE
  /\ UNCHANGED <<vars, callVars, newsVars>>

\* The first refusal of a call is published; the call returns FALSE when its
\* timeout is over, which leaves the blocking status as it is.
Block ==
  /\ pc = "check" /\ ~Allowed
  /\ firstBlock' = FALSE
  /\ blocking' = (blocking \/ firstBlock)
  /\ IF firstBlock THEN PublishBlockingStatus(TRUE) ELSE UNCHANGED status
  /\ pc' = IF timed /\ waited = Timeout THEN "work" ELSE "spin"
  /\ UNCHANGED <<vars, timed, waited, newsVars>>

\* spin_once, by the wait loop or by the application: one callback, or none
\* when nothing is there within its 0.1 s.
SpinOnce ==
  /\ pc \in {"spin", "work"}
  /\ pc' = IF pc = "spin" THEN "check" ELSE pc
  /\ \/ DeliverState /\ stateNews' = Head(stateWire).age /\ UNCHANGED modeNews
     \/ DeliverMode /\ modeNews' = Head(modeWire).age /\ UNCHANGED stateNews
     \/ stateWire = << >> /\ modeWire = << >> /\ UNCHANGED <<vars, newsVars>>
  /\ UNCHANGED <<callVars, statusVars>>

----------------------------------------------------------------------------
RobotSide ==
  /\ RobotStep \/ RepublishState \/ RepublishMode \/ Crash \/ Restart
  /\ UNCHANGED appVars

\* Ages since publication saturate past twice the timeout.
Later(age) == IF age > 2 * UpdateTimeout THEN age ELSE age + 1

Queued(wire) ==
  [i \in DOMAIN wire |-> [wire[i] EXCEPT !.age = Later(@)]]

Clock ==
  /\ toRepublish = {}
  /\ stateWire' = Queued(stateWire) /\ modeWire' = Queued(modeWire)
  /\ GuardTick
  /\ stateNews' = Later(stateNews) /\ modeNews' = Later(modeNews)
  /\ waited' = IF pc # "work" /\ waited < Timeout THEN waited + 1 ELSE waited
  /\ republishIn' = IF republishIn > 1 THEN republishIn - 1 ELSE Period
  /\ toRepublish' = IF up /\ republishIn = 1 THEN Topics ELSE {}
  /\ UNCHANGED <<stateVars, up, pc, timed, firstBlock, statusVars>>

WaitNext == Call \/ Grant \/ Block \/ SpinOnce \/ RobotSide \/ Clock

WaitSpec == WaitInit /\ [][WaitNext]_waitVars

----------------------------------------------------------------------------
\* guard.py 22: the guard ensures that the messages are recent, within
\* update_timeout.  So no wait returns TRUE on a state or a mode that was already
\* older than that when the guard received it, let alone published twice as long
\* ago.  The guard measures from reception: what waited in a queue while the
\* application worked counts as new the moment somebody spins, even if its
\* publisher is gone.
GrantRestsOnRecentNews ==
  [][pc = "check" /\ pc' = "work" /\ Allowed =>
        stateNews <= 2 * UpdateTimeout /\ modeNews <= 2 * UpdateTimeout]_waitVars
============================================================================
