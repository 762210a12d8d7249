------------------------ MODULE AutonomyStackProofs ------------------------
(***************************************************************************)
(* Proofs about the guard and the topics it listens to, for every timeout, *)
(* delay, period and queue depth.                                          *)
(***************************************************************************)
EXTENDS AutonomyStackProps, TLAPS, SequenceTheorems

USE DEF Fresh

----------------------------------------------------------------------------
(* The three operations on a queue.                                        *)

\* What is pushed is the last message; the others are old ones, each of them
\* one place further in front if the queue overflows.
LEMMA PushResult ==
  ASSUME NEW V, NEW wire \in Seq(Message(V)), NEW value \in V, Len(wire) <= Depth
  PROVE  LET new == Push(wire, value) m == [value |-> value, age |-> 0]
         IN /\ new \in Seq(Message(V))
            /\ Len(new) <= Depth
            /\ \/ new = Append(wire, m)
               \/ /\ Len(new) = Len(wire) /\ Len(wire) \in Nat \ {0}
                  /\ new[Len(new)] = m
                  /\ \A i \in 1 .. Len(new) - 1 : new[i] = wire[i + 1]
<1> DEFINE m == [value |-> value, age |-> 0]
           all == Append(wire, m)
<1>1. m \in Message(V)
  BY StackAssumption DEF Message
<1>2. all \in Seq(Message(V)) /\ Len(all) = Len(wire) + 1 /\ all[Len(wire) + 1] = m
  BY <1>1
<1>3. \A i \in 1 .. Len(wire) : all[i] = wire[i]
  BY <1>1
<1>4. Depth \in Nat \ {0} /\ Len(wire) \in Nat
  BY StackAssumption
<1>5. CASE Len(all) > Depth
  <2>1. Push(wire, value) = Tail(all)
    BY <1>5 DEF Push
  <2>2. Len(wire) = Depth
    BY <1>2, <1>4, <1>5
  <2>3. Tail(all) \in Seq(Message(V)) /\ Len(Tail(all)) = Len(wire)
    BY <1>2, <1>4
  <2>4. \A i \in 1 .. Len(wire) : Tail(all)[i] = all[i + 1]
    BY <1>2, <1>4, <2>3
  <2>5. \A i \in 1 .. Len(wire) - 1 : Tail(all)[i] = wire[i + 1]
    BY <2>4, <1>3, <1>4
  <2> QED
    BY <2>1, <2>2, <2>3, <2>4, <2>5, <1>2, <1>4
<1>6. CASE ~(Len(all) > Depth)
  <2>1. Push(wire, value) = all
    BY <1>6 DEF Push
  <2> QED
    BY <2>1, <1>2, <1>4, <1>6
<1> QED
  BY <1>5, <1>6

\* Time adds one to the age of each message, if none of them is overdue.
LEMMA AgedResult ==
  ASSUME NEW V, NEW wire \in Seq(Message(V)), InTime(wire)
  PROVE  /\ Aged(wire) \in Seq(Message(V))
         /\ Len(Aged(wire)) = Len(wire)
         /\ \A i \in 1 .. Len(wire) :
              /\ Aged(wire)[i].value = wire[i].value
              /\ Aged(wire)[i].age = wire[i].age + 1
<1>1. DOMAIN wire = 1 .. Len(wire) /\ Len(wire) \in Nat
  OBVIOUS
<1>2. \A i \in 1 .. Len(wire) :
        /\ wire[i] \in Message(V)
        /\ wire[i].age < Delay
  BY <1>1 DEF InTime
<1>3. \A i \in 1 .. Len(wire) :
        /\ Aged(wire)[i] = [wire[i] EXCEPT !.age = @ + 1]
  BY <1>1 DEF Aged
<1>4. \A i \in 1 .. Len(wire) :
        /\ Aged(wire)[i] \in Message(V)
        /\ Aged(wire)[i].value = wire[i].value
        /\ Aged(wire)[i].age = wire[i].age + 1
  <2> TAKE i \in 1 .. Len(wire)
  <2>1. wire[i] = [value |-> wire[i].value, age |-> wire[i].age]
        /\ wire[i].value \in V /\ wire[i].age \in 0 .. Delay
    BY <1>2 DEF Message
  <2>2. Aged(wire)[i] = [value |-> wire[i].value, age |-> wire[i].age + 1]
    BY <1>3, <2>1
  <2>3. wire[i].age + 1 \in 0 .. Delay
    BY <1>2, <2>1, StackAssumption
  <2> QED
    BY <2>1, <2>2, <2>3 DEF Message
<1>5. Aged(wire) = [i \in 1 .. Len(wire) |-> Aged(wire)[i]]
  BY <1>1 DEF Aged
<1>6. Aged(wire) \in Seq(Message(V)) /\ Len(Aged(wire)) = Len(wire)
  BY <1>1, <1>4, <1>5, IsASeq, LenProperties
<1> QED
  BY <1>4, <1>6

----------------------------------------------------------------------------
(* Types.                                                                  *)

\* A message says whether the state is the required one, whatever it says else.
LEMMA ReadingResult ==
  ASSUME NEW s
  PROVE  Reading(s) \in Readings /\ (Reading(s) = RequiredState <=> s = RequiredState)
BY GuardAssumption DEF Reading, Readings

\* What a step puts on a wire keeps its type.
LEMMA PublishedTypes ==
  ASSUME TypeOK, state' \in States, autonomous' \in BOOLEAN, PublishChanges
  PROVE  /\ stateWire' \in Seq(Message(Readings)) /\ Len(stateWire') <= Depth
         /\ modeWire' \in Seq(Message(Modes)) /\ Len(modeWire') <= Depth
<1>1. ModeName(autonomous') \in Modes
  BY DEF ModeName, Modes
<1>2. stateWire' \in Seq(Message(Readings)) /\ Len(stateWire') <= Depth
  <2>1. CASE state' # state
    BY <2>1, ReadingResult, PushResult DEF TypeOK, DataTypeOK, PublishChanges
  <2>2. CASE state' = state
    BY <2>2 DEF TypeOK, DataTypeOK, PublishChanges
  <2> QED
    BY <2>1, <2>2
<1>3. modeWire' \in Seq(Message(Modes)) /\ Len(modeWire') <= Depth
  <2>1. CASE autonomous' # autonomous
    BY <1>1, <2>1, PushResult DEF TypeOK, DataTypeOK, PublishChanges
  <2>2. CASE autonomous' = autonomous
    BY <2>2 DEF TypeOK, DataTypeOK, PublishChanges
  <2> QED
    BY <2>1, <2>2
<1> QED
  BY <1>2, <1>3

\* The interface leads from states to states and from modes to modes.
LEMMA RobotTypes ==
  ASSUME TypeOK, StateNext
  PROVE  state' \in States /\ autonomous' \in BOOLEAN
<1>1. state' \in States
  BY DEF TypeOK, DataTypeOK, States, StateNext, Disable, Enable, Activate, Suspend, ChangeMode
<1>2. autonomous' \in BOOLEAN
  BY DEF TypeOK, FlagsTypeOK, StateNext, Disable, Enable, Activate, Suspend, ChangeMode
<1> QED
  BY <1>1, <1>2

LEMMA TypeInit == Init => TypeOK
<1> SUFFICES ASSUME Init PROVE TypeOK
  OBVIOUS
<1>1. state = "start-up" /\ autonomous \in BOOLEAN /\ up = TRUE
  BY DEF Init, StateInit
<1>2. << >> \in Seq(Message(Readings)) /\ << >> \in Seq(Message(Modes)) /\ Len(<< >>) = 0
  OBVIOUS
<1>3. ModeName(autonomous) \in Modes
  BY DEF ModeName, Modes
<1>4. stateWire \in Seq(Message(Readings)) /\ Len(stateWire) <= Depth
  <2>1. state \in States /\ Len(<< >>) <= Depth
    BY <1>1, <1>2, StackAssumption DEF States
  <2>2. /\ Push(<< >>, Reading(state)) \in Seq(Message(Readings))
        /\ Len(Push(<< >>, Reading(state))) <= Depth
    BY <1>2, <2>1, ReadingResult, PushResult
  <2>3. stateWire = << >> \/ stateWire = Push(<< >>, Reading(state))
    BY DEF Init
  <2> QED
    BY <1>2, <2>1, <2>2, <2>3
<1>5. modeWire \in Seq(Message(Modes)) /\ Len(modeWire) <= Depth
  <2>1. Len(<< >>) <= Depth
    BY <1>2, StackAssumption
  <2>2. /\ Push(<< >>, ModeName(autonomous)) \in Seq(Message(Modes))
        /\ Len(Push(<< >>, ModeName(autonomous))) <= Depth
    BY <1>2, <1>3, <2>1, PushResult
  <2>3. modeWire = << >> \/ modeWire = Push(<< >>, ModeName(autonomous))
    BY DEF Init
  <2> QED
    BY <1>2, <2>1, <2>2, <2>3
<1>6. seenMode \in Modes \cup {"none"} /\ seenState = "none" /\ stateAge = 0 /\ modeAge = 0
  BY GuardAssumption DEF Init, GuardInit, Modes
<1>7. republishIn = Period /\ toRepublish = {}
  BY DEF Init
<1>8. FlagsTypeOK
  BY <1>1 DEF FlagsTypeOK
<1>9. DataTypeOK
  BY <1>1, <1>4, <1>5, <1>6, <1>7, StackAssumption, GuardAssumption DEF DataTypeOK, States, Readings
<1> QED
  BY <1>8, <1>9 DEF TypeOK

LEMMA TypeStep == TypeOK /\ [Next]_vars => TypeOK'
<1> SUFFICES ASSUME TypeOK, [Next]_vars PROVE TypeOK'
  OBVIOUS
<1> USE DEF TypeOK
<1>1. CASE RobotStep
  <2>1. state' \in States /\ autonomous' \in BOOLEAN
    BY <1>1, RobotTypes DEF RobotStep
  <2>2. /\ stateWire' \in Seq(Message(Readings)) /\ Len(stateWire') <= Depth
        /\ modeWire' \in Seq(Message(Modes)) /\ Len(modeWire') <= Depth
    BY <1>1, <2>1, PublishedTypes DEF RobotStep
  <2>3. FlagsTypeOK'
    BY <1>1, <2>1 DEF FlagsTypeOK, RobotStep
  <2>4. DataTypeOK'
    BY <1>1, <2>1, <2>2 DEF DataTypeOK, RobotStep, guardVars, timerVars
  <2> QED
    BY <2>3, <2>4
<1>2. CASE RepublishState
  <2>1. stateWire' \in Seq(Message(Readings)) /\ Len(stateWire') <= Depth
    BY <1>2, ReadingResult, PushResult DEF RepublishState, DataTypeOK
  <2>2. FlagsTypeOK'
    BY <1>2 DEF FlagsTypeOK, RepublishState, stateVars
  <2>3. DataTypeOK'
    BY <1>2, <2>1 DEF DataTypeOK, RepublishState, stateVars, guardVars
  <2> QED
    BY <2>2, <2>3
<1>3. CASE RepublishMode
  <2>1. ModeName(autonomous) \in Modes
    BY DEF ModeName, Modes
  <2>2. modeWire' \in Seq(Message(Modes)) /\ Len(modeWire') <= Depth
    BY <1>3, <2>1, PushResult DEF RepublishMode, DataTypeOK
  <2>3. FlagsTypeOK'
    BY <1>3 DEF FlagsTypeOK, RepublishMode, stateVars
  <2>4. DataTypeOK'
    BY <1>3, <2>2 DEF DataTypeOK, RepublishMode, stateVars, guardVars
  <2> QED
    BY <2>3, <2>4
<1>4. CASE Crash
  <2>1. FlagsTypeOK'
    BY <1>4 DEF FlagsTypeOK, Crash, stateVars
  <2>2. DataTypeOK'
    BY <1>4 DEF DataTypeOK, Crash, stateVars, wireVars, guardVars
  <2> QED
    BY <2>1, <2>2
<1>5. CASE Restart
  <2>1. state' \in States
    BY <1>5 DEF Restart, States
  <2>2. ModeName(autonomous') \in Modes
    BY DEF ModeName, Modes
  <2>3. stateWire' \in Seq(Message(Readings)) /\ Len(stateWire') <= Depth
    <3>1. stateWire' = stateWire \/ stateWire' = Push(stateWire, Reading(state'))
      BY <1>5 DEF Restart
    <3>2. Reading(state') \in Readings
      BY ReadingResult
    <3>3. stateWire \in Seq(Message(Readings)) /\ Len(stateWire) <= Depth
      BY DEF DataTypeOK
    <3>4. LET new == Push(stateWire, Reading(state'))
          IN new \in Seq(Message(Readings)) /\ Len(new) <= Depth
      BY <3>2, <3>3, PushResult
    <3> QED
      BY <3>1, <3>3, <3>4
  <2>4. modeWire' \in Seq(Message(Modes)) /\ Len(modeWire') <= Depth
    <3>1. modeWire' = modeWire \/ modeWire' = Push(modeWire, ModeName(autonomous'))
      BY <1>5 DEF Restart
    <3>2. modeWire \in Seq(Message(Modes)) /\ Len(modeWire) <= Depth
      BY DEF DataTypeOK
    <3>3. LET new == Push(modeWire, ModeName(autonomous'))
          IN new \in Seq(Message(Modes)) /\ Len(new) <= Depth
      BY <2>2, <3>2, PushResult
    <3> QED
      BY <3>1, <3>2, <3>3
  <2>5. FlagsTypeOK'
    BY <1>5 DEF FlagsTypeOK, Restart
  <2>6. DataTypeOK'
    BY <1>5, <2>1, <2>3, <2>4, StackAssumption DEF DataTypeOK, Restart, guardVars
  <2> QED
    BY <2>5, <2>6
<1>6. CASE DeliverState
  <2>1. Head(stateWire) \in Message(Readings) /\ Tail(stateWire) \in Seq(Message(Readings))
        /\ Len(Tail(stateWire)) <= Depth
    BY <1>6, StackAssumption DEF DeliverState, DataTypeOK
  <2>2. FlagsTypeOK'
    BY <1>6 DEF FlagsTypeOK, DeliverState, stateVars
  <2>3. seenState' \in Readings \cup {"none"} /\ stateAge' \in 0 .. UpdateTimeout + 1
    BY <1>6, <2>1, GuardAssumption DEF DeliverState, StateCallback, Message
  <2>4. DataTypeOK'
    BY <1>6, <2>1, <2>3 DEF DataTypeOK, DeliverState, StateCallback, stateVars, timerVars
  <2> QED
    BY <2>2, <2>4
<1>7. CASE DeliverMode
  <2>1. Head(modeWire) \in Message(Modes) /\ Tail(modeWire) \in Seq(Message(Modes))
        /\ Len(Tail(modeWire)) <= Depth
    BY <1>7, StackAssumption DEF DeliverMode, DataTypeOK
  <2>2. FlagsTypeOK'
    BY <1>7 DEF FlagsTypeOK, DeliverMode, stateVars
  <2>3. seenMode' \in Modes \cup {"none"} /\ modeAge' \in 0 .. UpdateTimeout + 1
    BY <1>7, <2>1, GuardAssumption DEF DeliverMode, ModeCallback, Message
  <2>4. DataTypeOK'
    BY <1>7, <2>1, <2>3 DEF DataTypeOK, DeliverMode, ModeCallback, stateVars, timerVars
  <2> QED
    BY <2>2, <2>4
<1>8. CASE Tick
  <2>1. stateWire' \in Seq(Message(Readings)) /\ Len(stateWire') <= Depth
    BY <1>8, AgedResult DEF Tick, DataTypeOK
  <2>2. modeWire' \in Seq(Message(Modes)) /\ Len(modeWire') <= Depth
    BY <1>8, AgedResult DEF Tick, DataTypeOK
  <2>3. stateAge' \in 0 .. UpdateTimeout + 1 /\ modeAge' \in 0 .. UpdateTimeout + 1
    BY <1>8, GuardAssumption DEF Tick, GuardTick, GuardOlder, DataTypeOK
  <2>4. republishIn' \in 0 .. Period /\ toRepublish' \subseteq Topics
    BY <1>8, StackAssumption DEF Tick, DataTypeOK
  <2>5. FlagsTypeOK'
    BY <1>8 DEF FlagsTypeOK, Tick, stateVars
  <2>6. DataTypeOK'
    BY <1>8, <2>1, <2>2, <2>3, <2>4 DEF DataTypeOK, Tick, GuardTick, stateVars
  <2> QED
    BY <2>5, <2>6
<1>9. CASE UNCHANGED vars
  <2>1. FlagsTypeOK'
    BY <1>9 DEF FlagsTypeOK, vars, stateVars
  <2>2. DataTypeOK'
    BY <1>9 DEF DataTypeOK, vars, stateVars, guardVars, wireVars, timerVars
  <2> QED
    BY <2>1, <2>2
<1> QED
  BY <1>1, <1>2, <1>3, <1>4, <1>5, <1>6, <1>7, <1>8, <1>9 DEF Next

\* Without their history the steps are those of the stack.
LEMMA HistoryIsHarmless == [HNext]_hvars => [Next]_vars
BY DEF HNext, RobotSide, GuardSide, TickStep, Next, hvars

\* Every variable of the stack keeps its type, whatever the timeouts, the delay
\* and the depth of the queues.
THEOREM TypeCorrect == HSpec => []TypeOK
<1>1. HInit => TypeOK
  BY TypeInit DEF HInit
<1>2. TypeOK /\ [HNext]_hvars => TypeOK'
  BY TypeStep, HistoryIsHarmless
<1> QED
  BY <1>1, <1>2, PTL DEF HSpec

----------------------------------------------------------------------------
(* How the messages of a queue witness the past of the robot.              *)

\* A message that says value is no younger than the last time it was true.
Recent(wire, value, since) ==
  \A i \in 1 .. Len(wire) : wire[i].value = value => since <= wire[i].age

\* What the guard has seen when message i arrives.
Before(wire, seen, i) == IF i = 1 THEN seen ELSE wire[i - 1].value

\* The message that follows value was published when value ceased to be true or
\* later, and the last message of all says what is true now.
Prompt(wire, seen, value, now, since) ==
  /\ \A i \in 1 .. Len(wire) : Before(wire, seen, i) = value => since <= wire[i].age
  /\ Len(wire) # 0 => wire[Len(wire)].value = now
  /\ Len(wire) = 0 /\ seen = value => now = value

LEMMA MessageAges ==
  ASSUME NEW V, NEW wire \in Seq(Message(V))
  PROVE  \A i \in 1 .. Len(wire) : wire[i].age \in Nat
<1> TAKE i \in 1 .. Len(wire)
<1>1. wire[i] \in Message(V)
  BY ElementOfSeq
<1> QED
  BY <1>1, StackAssumption DEF Message

LEMMA PushRecent ==
  ASSUME NEW V, NEW wire \in Seq(Message(V)), Len(wire) <= Depth,
         NEW value, NEW pushed \in V, NEW since \in Nat, NEW since2 \in Nat,
         Recent(wire, value, since), since2 <= since,
         pushed = value => since2 = 0
  PROVE  Recent(Push(wire, pushed), value, since2)
<1> DEFINE new == Push(wire, pushed)
           m == [value |-> pushed, age |-> 0]
<1> HIDE DEF new
<1>1. \A i \in 1 .. Len(wire) : wire[i].age \in Nat
  BY MessageAges
<1>2. \A i \in 1 .. Len(wire) : wire[i].value = value => since2 <= wire[i].age
  BY <1>1 DEF Recent
<1>3. CASE new = Append(wire, m)
  <2>1. Len(new) = Len(wire) + 1 /\ new[Len(wire) + 1] = m
    BY <1>3
  <2>2. \A i \in 1 .. Len(wire) : new[i] = wire[i]
    BY <1>3
  <2>3. m.value = value => since2 <= m.age
    OBVIOUS
  <2>4. ASSUME NEW i \in 1 .. Len(new), new[i].value = value PROVE since2 <= new[i].age
    <3>1. CASE i = Len(wire) + 1
      BY <2>1, <2>3, <2>4, <3>1
    <3>2. CASE i \in 1 .. Len(wire)
      BY <2>2, <2>4, <3>2, <1>1, <1>2
    <3> QED
      BY <2>1, <3>1, <3>2
  <2> QED
    BY <2>4 DEF Recent, new
<1>4. CASE /\ Len(new) = Len(wire) /\ Len(wire) \in Nat \ {0}
           /\ new[Len(new)] = m
           /\ \A i \in 1 .. Len(new) - 1 : new[i] = wire[i + 1]
  <2>1. m.value = value => since2 <= m.age
    OBVIOUS
  <2>2. ASSUME NEW i \in 1 .. Len(new), new[i].value = value PROVE since2 <= new[i].age
    <3>1. CASE i = Len(new)
      BY <1>4, <2>1, <2>2, <3>1
    <3>2. CASE i \in 1 .. Len(new) - 1
      BY <1>4, <2>2, <3>2, <1>1, <1>2
    <3> QED
      BY <1>4, <3>1, <3>2
  <2> QED
    BY <2>2 DEF Recent, new
<1> QED
  BY <1>3, <1>4, PushResult DEF new

LEMMA AgedRecent ==
  ASSUME NEW V, NEW wire \in Seq(Message(V)), InTime(wire),
         NEW value, NEW since \in Nat, NEW since2 \in Nat,
         Recent(wire, value, since), since2 <= since + 1
  PROVE  Recent(Aged(wire), value, since2)
<1>1. \A i \in 1 .. Len(wire) : wire[i].age \in Nat
  BY MessageAges
<1> QED
  BY <1>1, AgedResult DEF Recent

LEMMA TailRecent ==
  ASSUME NEW V, NEW wire \in Seq(Message(V)), wire # << >>,
         NEW value, NEW since, Recent(wire, value, since)
  PROVE  Recent(Tail(wire), value, since)
BY DEF Recent

LEMMA PushPrompt ==
  ASSUME NEW V, NEW wire \in Seq(Message(V)), Len(wire) <= Depth,
         NEW seen, NEW value, NEW now, NEW pushed \in V,
         NEW since \in Nat, NEW since2 \in Nat,
         Prompt(wire, seen, value, now, since), since2 <= since,
         now = value => since = 0,
         ~(Push(wire, pushed) # wire /\ Len(Push(wire, pushed)) = Len(wire))
  PROVE  Prompt(Push(wire, pushed), seen, value, pushed, since2)
<1> DEFINE new == Push(wire, pushed)
           m == [value |-> pushed, age |-> 0]
<1> HIDE DEF new
<1>1. \A i \in 1 .. Len(wire) : wire[i].age \in Nat
  BY MessageAges
<1>2. Len(wire) \in Nat
  OBVIOUS
<1>3. CASE new = Append(wire, m)
  <2>1. Len(new) = Len(wire) + 1 /\ new[Len(wire) + 1] = m
    BY <1>3
  <2>2. \A i \in 1 .. Len(wire) : new[i] = wire[i]
    BY <1>3
  <2>3. m.age = 0 /\ m.value = pushed
    OBVIOUS
  <2>4. ASSUME NEW i \in 1 .. Len(new), Before(new, seen, i) = value
        PROVE  since2 <= new[i].age
    <3>1. CASE i = Len(wire) + 1
      <4>1. Before(new, seen, i) = IF Len(wire) = 0 THEN seen ELSE wire[Len(wire)].value
        BY <3>1, <2>2, <1>2 DEF Before
      <4>2. now = value
        BY <4>1, <2>4, <1>2 DEF Prompt
      <4>3. since2 = 0
        BY <4>2
      <4> QED
        BY <4>3, <3>1, <2>1, <2>3
    <3>2. CASE i \in 1 .. Len(wire)
      <4>1. Before(new, seen, i) = Before(wire, seen, i)
        BY <3>2, <2>2, <1>2 DEF Before
      <4>2. since <= wire[i].age
        BY <4>1, <2>4, <3>2 DEF Prompt
      <4> QED
        BY <4>2, <3>2, <2>2, <1>1
    <3> QED
      BY <2>1, <3>1, <3>2, <1>2
  <2> QED
    BY <2>1, <2>3, <2>4, <1>2 DEF Prompt, new
<1>4. CASE /\ Len(new) = Len(wire) /\ Len(wire) \in Nat \ {0}
           /\ new[Len(new)] = m
  <2>1. new = wire
    BY <1>4 DEF new
  <2>2. m.value = pushed
    OBVIOUS
  <2>3. wire[Len(wire)].value = pushed
    BY <1>4, <2>1, <2>2
  <2>4. \A i \in 1 .. Len(wire) : Before(wire, seen, i) = value => since2 <= wire[i].age
    BY <1>1 DEF Prompt
  <2> QED
    BY <2>1, <2>3, <2>4, <1>4 DEF Prompt, new
<1> QED
  BY <1>3, <1>4, PushResult DEF new

LEMMA AgedPrompt ==
  ASSUME NEW V, NEW wire \in Seq(Message(V)), InTime(wire),
         NEW seen, NEW value, NEW now, NEW since \in Nat, NEW since2 \in Nat,
         Prompt(wire, seen, value, now, since), since2 <= since + 1
  PROVE  Prompt(Aged(wire), seen, value, now, since2)
<1>1. \A i \in 1 .. Len(wire) : wire[i].age \in Nat
  BY MessageAges
<1>2. Len(wire) \in Nat
  OBVIOUS
<1>3. /\ Len(Aged(wire)) = Len(wire)
      /\ \A i \in 1 .. Len(wire) : /\ Aged(wire)[i].value = wire[i].value
                                   /\ Aged(wire)[i].age = wire[i].age + 1
  BY AgedResult
<1>4. \A i \in 1 .. Len(wire) : Before(Aged(wire), seen, i) = Before(wire, seen, i)
  BY <1>2, <1>3 DEF Before
<1>5. \A i \in 1 .. Len(wire) : Before(wire, seen, i) = value => since2 <= wire[i].age + 1
  BY <1>1 DEF Prompt
<1> QED
  BY <1>2, <1>3, <1>4, <1>5 DEF Prompt

LEMMA TailPrompt ==
  ASSUME NEW V, NEW wire \in Seq(Message(V)), wire # << >>,
         NEW seen, NEW value, NEW now, NEW since,
         Prompt(wire, seen, value, now, since)
  PROVE  Prompt(Tail(wire), Head(wire).value, value, now, since)
<1>1. Len(wire) \in Nat \ {0} /\ Len(Tail(wire)) = Len(wire) - 1 /\ Head(wire) = wire[1]
  OBVIOUS
<1>2. \A i \in 1 .. Len(wire) - 1 : Tail(wire)[i] = wire[i + 1]
  OBVIOUS
<1>3. \A i \in 1 .. Len(wire) - 1 :
        Before(Tail(wire), Head(wire).value, i) = Before(wire, seen, i + 1)
  BY <1>1, <1>2 DEF Before
<1>4. \A i \in 1 .. Len(Tail(wire)) :
        Before(Tail(wire), Head(wire).value, i) = value => since <= Tail(wire)[i].age
  BY <1>1, <1>2, <1>3 DEF Prompt
<1>5. Len(Tail(wire)) # 0 => Tail(wire)[Len(Tail(wire))].value = now
  BY <1>1, <1>2 DEF Prompt
<1>6. Len(Tail(wire)) = 0 => Head(wire).value = now
  <2>1. Len(wire) # 0 /\ (Len(Tail(wire)) = 0 => Len(wire) = 1)
    BY <1>1
  <2> QED
    BY <2>1, <1>1 DEF Prompt
<1> QED
  BY <1>4, <1>5, <1>6 DEF Prompt

----------------------------------------------------------------------------
(* The inductive invariant.                                                *)

SinceOK ==
  /\ sinceState \in 0 .. Horizon + 1 /\ sinceAuto \in 0 .. Horizon + 1
  /\ InState => sinceState = 0
  /\ InAuto => sinceAuto = 0

\* What the guard has seen is as recent as its age and one delay say.
SeenRecent ==
  /\ seenState = RequiredState /\ Fresh(stateAge) => sinceState <= stateAge + Delay
  /\ seenMode = "autonomous" /\ Fresh(modeAge) => sinceAuto <= modeAge + Delay

Recency ==
  /\ Recent(stateWire, RequiredState, sinceState)
  /\ Recent(modeWire, "autonomous", sinceAuto)
  /\ SeenRecent

Promptness ==
  /\ up
  /\ Prompt(stateWire, seenState, RequiredState, Reading(state), sinceState)
  /\ Prompt(modeWire, seenMode, "autonomous", ModeName(autonomous), sinceAuto)

IInv ==
  /\ TypeOK /\ SinceOK /\ Recency
  /\ ~disturbed => Promptness

LEMMA HorizonIsNat == Horizon \in Nat
BY GuardAssumption, StackAssumption DEF Horizon

\* A wire is left alone, and then its topic has not changed or the state machine
\* is not up before and after, or gets the value its topic has after the step.
LEMMA PublishedWires ==
  ASSUME TypeOK, RobotSide
  PROVE  /\ \/ stateWire' = stateWire /\ (up /\ up' => state' = state)
            \/ stateWire' = Push(stateWire, Reading(state')) /\ up'
         /\ \/ modeWire' = modeWire /\ (up /\ up' => autonomous' = autonomous)
            \/ modeWire' = Push(modeWire, ModeName(autonomous')) /\ up'
         /\ UNCHANGED guardVars
<1>1. CASE RobotStep
  BY <1>1 DEF RobotStep, PublishChanges
<1>2. CASE RepublishState
  BY <1>2 DEF RepublishState, stateVars
<1>3. CASE RepublishMode
  BY <1>3 DEF RepublishMode, stateVars
<1>4. CASE Crash
  BY <1>4 DEF Crash, wireVars
<1>5. CASE Restart
  BY <1>5 DEF Restart
<1> QED
  BY <1>1, <1>2, <1>3, <1>4, <1>5 DEF RobotSide

\* The steps of the state machine bring the past nearer, never further away.
LEMMA RobotSince ==
  ASSUME SinceOK, RobotSide
  PROVE  SinceOK' /\ sinceState' <= sinceState /\ sinceAuto' <= sinceAuto
<1>1. sinceState' = Instant(sinceState, InState') /\ sinceAuto' = Instant(sinceAuto, InAuto')
  BY DEF RobotSide
<1>2. /\ InState' => sinceState' = 0
      /\ InAuto' => sinceAuto' = 0
  BY <1>1 DEF Instant
<1>3. sinceState' = 0 \/ sinceState' = sinceState
  BY <1>1 DEF Instant
<1>4. sinceAuto' = 0 \/ sinceAuto' = sinceAuto
  BY <1>1 DEF Instant
<1>5. Horizon' = Horizon
  BY DEF Horizon
<1>6. sinceState' \in 0 .. Horizon + 1 /\ sinceState' <= sinceState
  BY <1>3, HorizonIsNat DEF SinceOK
<1>7. sinceAuto' \in 0 .. Horizon + 1 /\ sinceAuto' <= sinceAuto
  BY <1>4, HorizonIsNat DEF SinceOK
<1> QED
  BY <1>2, <1>5, <1>6, <1>7 DEF SinceOK

LEMMA TickSince ==
  ASSUME SinceOK, TickStep
  PROVE  SinceOK' /\ sinceState' <= sinceState + 1 /\ sinceAuto' <= sinceAuto + 1
<1>1. /\ sinceState' = IF InState THEN 0 ELSE Later(sinceState)
      /\ sinceAuto' = IF InAuto THEN 0 ELSE Later(sinceAuto)
      /\ UNCHANGED <<state, autonomous, up>>
  BY DEF TickStep, Tick, stateVars
<1>2. (InState' <=> InState) /\ (InAuto' <=> InAuto)
  BY <1>1 DEF InState, InAuto
<1>3. sinceState' \in 0 .. Horizon + 1 /\ sinceState' <= sinceState + 1
  BY <1>1, HorizonIsNat DEF SinceOK, Later
<1>4. sinceAuto' \in 0 .. Horizon + 1 /\ sinceAuto' <= sinceAuto + 1
  BY <1>1, HorizonIsNat DEF SinceOK, Later
<1>5. (InState' => sinceState' = 0) /\ (InAuto' => sinceAuto' = 0)
  BY <1>1, <1>2
<1> QED
  BY <1>3, <1>4, <1>5 DEF SinceOK, Horizon

\* Recency: a step of the state machine.
LEMMA RobotRecency ==
  ASSUME TypeOK, SinceOK, Recency, RobotSide
  PROVE  Recency'
<1>1. SinceOK' /\ sinceState' <= sinceState /\ sinceAuto' <= sinceAuto
  BY RobotSince
<1>2. /\ sinceState \in Nat /\ sinceState' \in Nat
      /\ sinceAuto \in Nat /\ sinceAuto' \in Nat
  BY <1>1, HorizonIsNat DEF SinceOK, Horizon
<1>3. stateWire \in Seq(Message(Readings)) /\ Len(stateWire) <= Depth
      /\ modeWire \in Seq(Message(Modes)) /\ Len(modeWire) <= Depth
  BY DEF TypeOK, DataTypeOK
<1>4. state' \in States /\ autonomous' \in BOOLEAN
  <2>1. [Next]_vars
    BY DEF RobotSide, Next
  <2> QED
    BY <2>1, TypeStep DEF TypeOK, DataTypeOK, FlagsTypeOK
<1>5. ModeName(autonomous') \in Modes
  BY DEF ModeName, Modes
<1>6. Recent(stateWire', RequiredState, sinceState')
  <2>1. CASE stateWire' = stateWire
    BY <2>1, <1>1, <1>2, <1>3, MessageAges DEF Recency, Recent
  <2>2. CASE stateWire' = Push(stateWire, Reading(state')) /\ up'
    <3>1. Reading(state') \in Readings
          /\ (Reading(state') = RequiredState => sinceState' = 0)
      BY <2>2, <1>1, ReadingResult DEF SinceOK, InState
    <3> QED
      BY <2>2, <3>1, <1>1, <1>2, <1>3, PushRecent DEF Recency
  <2> QED
    BY <2>1, <2>2, PublishedWires
<1>7. Recent(modeWire', "autonomous", sinceAuto')
  <2>1. CASE modeWire' = modeWire
    BY <2>1, <1>1, <1>2, <1>3, MessageAges DEF Recency, Recent
  <2>2. CASE modeWire' = Push(modeWire, ModeName(autonomous')) /\ up'
    <3>1. ModeName(autonomous') = "autonomous" => sinceAuto' = 0
      BY <2>2, <1>1, <1>4 DEF SinceOK, InAuto, ModeName
    <3> QED
      BY <2>2, <3>1, <1>1, <1>2, <1>3, <1>5, PushRecent DEF Recency
  <2> QED
    BY <2>1, <2>2, PublishedWires
<1>8. SeenRecent'
  <2>1. UNCHANGED <<seenState, seenMode, stateAge, modeAge>>
    BY PublishedWires DEF guardVars
  <2>2. stateAge \in Nat /\ modeAge \in Nat /\ Delay \in Nat
    BY GuardAssumption, StackAssumption DEF TypeOK, DataTypeOK
  <2> QED
    BY <1>1, <1>2, <2>1, <2>2 DEF Recency, SeenRecent
<1> QED
  BY <1>6, <1>7, <1>8 DEF Recency

\* Recency: a delivery.
LEMMA GuardRecency ==
  ASSUME TypeOK, SinceOK, Recency, GuardSide
  PROVE  Recency'
<1>1. UNCHANGED <<sinceState, sinceAuto>>
  BY DEF GuardSide, histVars
<1>2. sinceState \in Nat /\ sinceAuto \in Nat /\ Delay \in Nat
  BY HorizonIsNat, StackAssumption DEF SinceOK
<1>3. CASE DeliverState
  <2>1. stateWire \in Seq(Message(Readings)) /\ stateWire # << >>
    BY <1>3 DEF TypeOK, DataTypeOK, DeliverState
  <2>2. /\ stateWire' = Tail(stateWire) /\ seenState' = Head(stateWire).value
        /\ stateAge' = 0 /\ UNCHANGED <<modeWire, seenMode, modeAge>>
    BY <1>3 DEF DeliverState, StateCallback
  <2>3. Recent(stateWire', RequiredState, sinceState')
    BY <1>1, <2>1, <2>2, TailRecent DEF Recency
  <2>4. Head(stateWire) = stateWire[1] /\ stateWire[1] \in Message(Readings) /\ Len(stateWire) >= 1
    BY <2>1
  <2>5. Head(stateWire).value = RequiredState => sinceState <= Delay
    BY <1>2, <2>4 DEF Recency, Recent, Message
  <2>6. seenState' = RequiredState => sinceState' <= stateAge' + Delay
    BY <1>1, <1>2, <2>2, <2>5
  <2> QED
    BY <1>1, <2>2, <2>3, <2>6 DEF Recency, SeenRecent
<1>4. CASE DeliverMode
  <2>1. modeWire \in Seq(Message(Modes)) /\ modeWire # << >>
    BY <1>4 DEF TypeOK, DataTypeOK, DeliverMode
  <2>2. /\ modeWire' = Tail(modeWire) /\ seenMode' = Head(modeWire).value
        /\ modeAge' = 0 /\ UNCHANGED <<stateWire, seenState, stateAge>>
    BY <1>4 DEF DeliverMode, ModeCallback
  <2>3. Recent(modeWire', "autonomous", sinceAuto')
    BY <1>1, <2>1, <2>2, TailRecent DEF Recency
  <2>4. Head(modeWire) = modeWire[1] /\ modeWire[1] \in Message(Modes) /\ Len(modeWire) >= 1
    BY <2>1
  <2>5. Head(modeWire).value = "autonomous" => sinceAuto <= Delay
    BY <1>2, <2>4 DEF Recency, Recent, Message
  <2>6. seenMode' = "autonomous" => sinceAuto' <= modeAge' + Delay
    BY <1>1, <1>2, <2>2, <2>5
  <2> QED
    BY <1>1, <2>2, <2>3, <2>6 DEF Recency, SeenRecent
<1> QED
  BY <1>3, <1>4 DEF GuardSide

\* Recency: time passes for the messages, the ages and the past alike.
LEMMA TickRecency ==
  ASSUME TypeOK, SinceOK, Recency, TickStep
  PROVE  Recency'
<1>1. SinceOK' /\ sinceState' <= sinceState + 1 /\ sinceAuto' <= sinceAuto + 1
  BY TickSince
<1>2. /\ sinceState \in Nat /\ sinceState' \in Nat
      /\ sinceAuto \in Nat /\ sinceAuto' \in Nat
  BY <1>1, HorizonIsNat DEF SinceOK, Horizon
<1>3. /\ stateWire \in Seq(Message(Readings)) /\ InTime(stateWire)
      /\ modeWire \in Seq(Message(Modes)) /\ InTime(modeWire)
      /\ stateWire' = Aged(stateWire) /\ modeWire' = Aged(modeWire)
  BY DEF TypeOK, DataTypeOK, TickStep, Tick
<1>4. Recent(stateWire', RequiredState, sinceState')
  BY <1>1, <1>2, <1>3, AgedRecent DEF Recency
<1>5. Recent(modeWire', "autonomous", sinceAuto')
  BY <1>1, <1>2, <1>3, AgedRecent DEF Recency
<1>6. SeenRecent'
  <2>1. /\ stateAge' = GuardOlder(stateAge) /\ modeAge' = GuardOlder(modeAge)
        /\ UNCHANGED <<seenState, seenMode>>
    BY DEF TickStep, Tick, GuardTick
  <2>2. /\ stateAge \in Nat /\ modeAge \in Nat /\ Delay \in Nat /\ UpdateTimeout \in Nat
    BY GuardAssumption, StackAssumption DEF TypeOK, DataTypeOK
  <2>3. stateAge' <= UpdateTimeout => stateAge' = stateAge + 1 /\ stateAge <= UpdateTimeout
    BY <2>1, <2>2 DEF GuardOlder
  <2>4. modeAge' <= UpdateTimeout => modeAge' = modeAge + 1 /\ modeAge <= UpdateTimeout
    BY <2>1, <2>2 DEF GuardOlder
  <2> QED
    BY <1>1, <1>2, <2>1, <2>2, <2>3, <2>4 DEF Recency, SeenRecent
<1> QED
  BY <1>4, <1>5, <1>6 DEF Recency
\* Promptness: a step of the state machine, if no queue overflows and it stays up.
LEMMA RobotPromptness ==
  ASSUME TypeOK, SinceOK, Promptness, RobotSide, ~disturbed'
  PROVE  Promptness'
<1>1. SinceOK' /\ sinceState' <= sinceState /\ sinceAuto' <= sinceAuto
  BY RobotSince
<1>2. /\ sinceState \in Nat /\ sinceState' \in Nat
      /\ sinceAuto \in Nat /\ sinceAuto' \in Nat
  BY <1>1, HorizonIsNat DEF SinceOK, Horizon
<1>3. /\ stateWire \in Seq(Message(Readings)) /\ Len(stateWire) <= Depth
      /\ modeWire \in Seq(Message(Modes)) /\ Len(modeWire) <= Depth
  BY DEF TypeOK, DataTypeOK
<1>4. up' /\ ~Overflows
  BY DEF RobotSide
<1>5. state' \in States /\ autonomous \in BOOLEAN /\ autonomous' \in BOOLEAN
  <2>1. [Next]_vars
    BY DEF RobotSide, Next
  <2> QED
    BY <2>1, TypeStep DEF TypeOK, DataTypeOK, FlagsTypeOK
<1>6. ModeName(autonomous') \in Modes
  BY DEF ModeName, Modes
<1>7. UNCHANGED <<seenState, seenMode>>
  BY PublishedWires DEF guardVars
<1>8. Prompt(stateWire', seenState', RequiredState, Reading(state'), sinceState')
  <2>1. CASE stateWire' = stateWire /\ (up /\ up' => state' = state)
    <3>1. \A i \in 1 .. Len(stateWire) : stateWire[i].age \in Nat
      BY <1>3, MessageAges
    <3> QED
      BY <2>1, <3>1, <1>1, <1>2, <1>4, <1>7 DEF Promptness, Prompt
  <2>2. CASE stateWire' = Push(stateWire, Reading(state')) /\ up'
    <3>1. Reading(state') \in Readings
          /\ (Reading(state) = RequiredState => sinceState = 0)
      BY ReadingResult DEF Promptness, SinceOK, InState
    <3>2. ~(stateWire' # stateWire /\ Len(stateWire') = Len(stateWire))
      BY <1>4 DEF Overflows
    <3> QED
      BY <2>2, <3>1, <3>2, <1>1, <1>2, <1>3, <1>7, PushPrompt DEF Promptness
  <2> QED
    BY <2>1, <2>2, PublishedWires
<1>9. Prompt(modeWire', seenMode', "autonomous", ModeName(autonomous'), sinceAuto')
  <2>1. CASE modeWire' = modeWire /\ (up /\ up' => autonomous' = autonomous)
    <3>1. \A i \in 1 .. Len(modeWire) : modeWire[i].age \in Nat
      BY <1>3, MessageAges
    <3>2. ModeName(autonomous') = ModeName(autonomous)
      BY <2>1, <1>4 DEF Promptness
    <3> QED
      BY <2>1, <3>1, <3>2, <1>1, <1>2, <1>7 DEF Promptness, Prompt
  <2>2. CASE modeWire' = Push(modeWire, ModeName(autonomous')) /\ up'
    <3>1. ModeName(autonomous) = "autonomous" => sinceAuto = 0
      BY <1>5 DEF Promptness, SinceOK, InAuto, ModeName
    <3>2. ~(modeWire' # modeWire /\ Len(modeWire') = Len(modeWire))
      BY <1>4 DEF Overflows
    <3> QED
      BY <2>2, <3>1, <3>2, <1>1, <1>2, <1>3, <1>6, <1>7, PushPrompt DEF Promptness
  <2> QED
    BY <2>1, <2>2, PublishedWires
<1> QED
  BY <1>4, <1>8, <1>9 DEF Promptness

\* Promptness: a delivery.
LEMMA GuardPromptness ==
  ASSUME TypeOK, Promptness, GuardSide
  PROVE  Promptness'
<1>1. UNCHANGED <<sinceState, sinceAuto>>
  BY DEF GuardSide, histVars
<1>2. CASE DeliverState
  <2>1. stateWire \in Seq(Message(Readings)) /\ stateWire # << >>
    BY <1>2 DEF TypeOK, DataTypeOK, DeliverState
  <2>2. /\ stateWire' = Tail(stateWire) /\ seenState' = Head(stateWire).value
        /\ UNCHANGED <<modeWire, seenMode, state, autonomous, up>>
    BY <1>2 DEF DeliverState, StateCallback, stateVars
  <2>3. Prompt(stateWire', seenState', RequiredState, Reading(state'), sinceState')
    BY <1>1, <2>1, <2>2, TailPrompt DEF Promptness
  <2> QED
    BY <1>1, <2>2, <2>3 DEF Promptness
<1>3. CASE DeliverMode
  <2>1. modeWire \in Seq(Message(Modes)) /\ modeWire # << >>
    BY <1>3 DEF TypeOK, DataTypeOK, DeliverMode
  <2>2. /\ modeWire' = Tail(modeWire) /\ seenMode' = Head(modeWire).value
        /\ UNCHANGED <<stateWire, seenState, state, autonomous, up>>
    BY <1>3 DEF DeliverMode, ModeCallback, stateVars
  <2>3. Prompt(modeWire', seenMode', "autonomous", ModeName(autonomous'), sinceAuto')
    BY <1>1, <2>1, <2>2, TailPrompt DEF Promptness
  <2> QED
    BY <1>1, <2>2, <2>3 DEF Promptness
<1> QED
  BY <1>2, <1>3 DEF GuardSide

\* Promptness: time passes.
LEMMA TickPromptness ==
  ASSUME TypeOK, SinceOK, Promptness, TickStep
  PROVE  Promptness'
<1>1. SinceOK' /\ sinceState' <= sinceState + 1 /\ sinceAuto' <= sinceAuto + 1
  BY TickSince
<1>2. /\ sinceState \in Nat /\ sinceState' \in Nat
      /\ sinceAuto \in Nat /\ sinceAuto' \in Nat
  BY <1>1, HorizonIsNat DEF SinceOK, Horizon
<1>3. /\ stateWire \in Seq(Message(Readings)) /\ InTime(stateWire)
      /\ modeWire \in Seq(Message(Modes)) /\ InTime(modeWire)
      /\ stateWire' = Aged(stateWire) /\ modeWire' = Aged(modeWire)
      /\ UNCHANGED <<seenState, seenMode, state, autonomous, up>>
  BY DEF TypeOK, DataTypeOK, TickStep, Tick, GuardTick, stateVars
<1>4. Prompt(stateWire', seenState', RequiredState, Reading(state'), sinceState')
  BY <1>1, <1>2, <1>3, AgedPrompt DEF Promptness
<1>5. Prompt(modeWire', seenMode', "autonomous", ModeName(autonomous'), sinceAuto')
  BY <1>1, <1>2, <1>3, AgedPrompt DEF Promptness
<1> QED
  BY <1>3, <1>4, <1>5 DEF Promptness

----------------------------------------------------------------------------
LEMMA IInvInit == HInit => IInv
<1> SUFFICES ASSUME HInit PROVE IInv
  OBVIOUS
<1>1. TypeOK
  BY TypeInit DEF HInit
<1>2. SinceOK
  BY HorizonIsNat DEF HInit, SinceOK
<1>3. /\ up /\ state = "start-up" /\ autonomous \in BOOLEAN
      /\ seenState = "none" /\ seenMode \in {"none", "manual"}
  BY GuardAssumption DEF HInit, Init, StateInit, GuardInit
<1>4. /\ << >> \in Seq(Message(Readings)) /\ << >> \in Seq(Message(Modes))
      /\ Len(<< >>) = 0 /\ Len(<< >>) <= Depth
      /\ Reading(state) \in Readings /\ ModeName(autonomous) \in Modes
  BY <1>3, ReadingResult, StackAssumption DEF Modes, ModeName
<1>5. /\ sinceState \in Nat /\ sinceAuto \in Nat
      /\ Reading(state) = RequiredState => sinceState = 0
      /\ ModeName(autonomous) = "autonomous" => sinceAuto = 0
  BY <1>2, <1>3, ReadingResult, HorizonIsNat DEF SinceOK, InState, InAuto, ModeName
<1>6. /\ Recent(<< >>, RequiredState, sinceState)
      /\ Recent(<< >>, "autonomous", sinceAuto)
  BY <1>4 DEF Recent
<1>7. /\ Push(<< >>, Reading(state)) = << [value |-> Reading(state), age |-> 0] >>
      /\ Push(<< >>, ModeName(autonomous)) = << [value |-> ModeName(autonomous), age |-> 0] >>
  BY StackAssumption DEF Push
<1>8. /\ Recent(stateWire, RequiredState, sinceState)
      /\ Recent(modeWire, "autonomous", sinceAuto)
  <2>1. Recent(Push(<< >>, Reading(state)), RequiredState, sinceState)
    BY <1>5, <1>7 DEF Recent
  <2>2. Recent(Push(<< >>, ModeName(autonomous)), "autonomous", sinceAuto)
    BY <1>5, <1>7 DEF Recent
  <2> QED
    BY <1>6, <2>1, <2>2 DEF HInit, Init
<1>9. Recency
  BY <1>3, <1>8, GuardAssumption DEF Recency, SeenRecent
<1>10. seenState # RequiredState /\ seenMode # "autonomous"
  BY <1>3, GuardAssumption
<1>11. /\ Prompt(<< >>, seenState, RequiredState, Reading(state), sinceState)
       /\ Prompt(<< >>, seenMode, "autonomous", ModeName(autonomous), sinceAuto)
  BY <1>4, <1>10 DEF Prompt
<1>12. Prompt(stateWire, seenState, RequiredState, Reading(state), sinceState)
  <2>1. Prompt(Push(<< >>, Reading(state)), seenState, RequiredState, Reading(state), sinceState)
    BY <1>7, <1>10 DEF Prompt, Before
  <2> QED
    BY <1>11, <2>1 DEF HInit, Init
<1>13. Prompt(modeWire, seenMode, "autonomous", ModeName(autonomous), sinceAuto)
  <2>1. Prompt(Push(<< >>, ModeName(autonomous)), seenMode, "autonomous",
               ModeName(autonomous), sinceAuto)
    BY <1>7, <1>10 DEF Prompt, Before
  <2> QED
    BY <1>11, <2>1 DEF HInit, Init
<1> QED
  BY <1>1, <1>2, <1>3, <1>9, <1>12, <1>13 DEF IInv, Promptness

LEMMA IInvStep == IInv /\ [HNext]_hvars => IInv'
<1> SUFFICES ASSUME IInv, [HNext]_hvars PROVE IInv'
  OBVIOUS
<1>1. TypeOK'
  BY TypeStep, HistoryIsHarmless DEF IInv
<1>2. CASE RobotSide
  <2>1. SinceOK' /\ Recency'
    BY <1>2, RobotSince, RobotRecency DEF IInv
  <2>2. ~disturbed' => ~disturbed
    BY <1>2 DEF RobotSide
  <2>3. ~disturbed' => Promptness'
    BY <1>2, <2>2, RobotPromptness DEF IInv
  <2> QED
    BY <1>1, <2>1, <2>3 DEF IInv
<1>3. CASE GuardSide
  <2>1. UNCHANGED <<sinceState, sinceAuto, disturbed, state, autonomous, up>>
    BY <1>3 DEF GuardSide, DeliverState, DeliverMode, histVars, stateVars
  <2>2. SinceOK'
    BY <2>1 DEF IInv, SinceOK, InState, InAuto, Horizon
  <2>3. Recency'
    BY <1>3, GuardRecency DEF IInv
  <2>4. ~disturbed' => Promptness'
    BY <1>3, <2>1, GuardPromptness DEF IInv
  <2> QED
    BY <1>1, <2>2, <2>3, <2>4 DEF IInv
<1>4. CASE TickStep
  <2>1. SinceOK' /\ Recency'
    BY <1>4, TickSince, TickRecency DEF IInv
  <2>2. ~disturbed' => Promptness'
    BY <1>4, TickPromptness DEF IInv, TickStep
  <2> QED
    BY <1>1, <2>1, <2>2 DEF IInv
<1>5. CASE UNCHANGED hvars
  <2>1. /\ UNCHANGED <<sinceState, sinceAuto, disturbed, state, autonomous, up>>
        /\ UNCHANGED <<stateWire, modeWire, seenState, seenMode, stateAge, modeAge>>
    BY <1>5 DEF hvars, histVars, vars, stateVars, wireVars, guardVars
  <2>2. SinceOK'
    BY <2>1 DEF IInv, SinceOK, InState, InAuto, Horizon
  <2>3. Recency'
    BY <2>1 DEF IInv, Recency, SeenRecent
  <2>4. ~disturbed' => Promptness'
    BY <2>1 DEF IInv, Promptness
  <2> QED
    BY <1>1, <2>2, <2>3, <2>4 DEF IInv
<1> QED
  BY <1>2, <1>3, <1>4, <1>5 DEF HNext

\* A guard that allows autonomy has both messages in time.
LEMMA IInvRecent == IInv => AllowedIsRecent
<1> SUFFICES ASSUME IInv, Allowed
             PROVE /\ sinceState <= Horizon
                   /\ RequireAutonomous => sinceAuto <= Horizon
  BY DEF AllowedIsRecent
<1>1. /\ stateAge \in Nat /\ modeAge \in Nat /\ Delay \in Nat /\ UpdateTimeout \in Nat
      /\ sinceState \in Nat /\ sinceAuto \in Nat
  BY HorizonIsNat, GuardAssumption, StackAssumption DEF IInv, TypeOK, DataTypeOK, SinceOK
<1>2. sinceState <= stateAge + Delay /\ stateAge <= UpdateTimeout
  BY DEF IInv, Recency, SeenRecent, Allowed, StateGranted
<1>3. RequireAutonomous => sinceAuto <= modeAge + Delay /\ modeAge <= UpdateTimeout
  BY DEF IInv, Recency, SeenRecent, Allowed, ModeGranted
<1> QED
  BY <1>1, <1>2, <1>3 DEF Horizon

\* What the guard has not seen yet is on the wire, and no older than one delay.
LEMMA PromptBound ==
  ASSUME NEW V, NEW wire \in Seq(Message(V)), NEW value, NEW now, NEW since \in Nat,
         Prompt(wire, value, value, now, since), now = value => since = 0
  PROVE  since <= Delay
<1>1. CASE Len(wire) = 0
  BY <1>1, StackAssumption DEF Prompt
<1>2. CASE Len(wire) # 0
  <2>1. 1 \in 1 .. Len(wire) /\ wire[1] \in Message(V)
    BY <1>2, ElementOfSeq
  <2>2. since <= wire[1].age
    BY <2>1 DEF Prompt, Before
  <2> QED
    BY <2>1, <2>2, StackAssumption DEF Message
<1> QED
  BY <1>1, <1>2

LEMMA IInvPrompt == IInv => StopsWithinDelay
<1> SUFFICES ASSUME IInv, Allowed, ~disturbed
             PROVE /\ sinceState <= Delay
                   /\ RequireAutonomous => sinceAuto <= Delay
  BY DEF StopsWithinDelay
<1>1. Promptness /\ SinceOK
  BY DEF IInv
<1>2. /\ stateWire \in Seq(Message(Readings)) /\ modeWire \in Seq(Message(Modes))
      /\ sinceState \in Nat /\ sinceAuto \in Nat /\ autonomous \in BOOLEAN
  BY HorizonIsNat DEF IInv, TypeOK, FlagsTypeOK, DataTypeOK, SinceOK
<1>3. sinceState <= Delay
  <2>1. seenState = RequiredState
    BY DEF Allowed, StateGranted
  <2>2. Reading(state) = RequiredState => sinceState = 0
    BY <1>1, ReadingResult DEF Promptness, SinceOK, InState
  <2> QED
    BY <1>1, <1>2, <2>1, <2>2, PromptBound DEF Promptness
<1>4. ASSUME RequireAutonomous PROVE sinceAuto <= Delay
  <2>1. seenMode = "autonomous"
    BY <1>4 DEF Allowed, ModeGranted
  <2>2. ModeName(autonomous) = "autonomous" => sinceAuto = 0
    BY <1>1, <1>2 DEF Promptness, SinceOK, InAuto, ModeName
  <2> QED
    BY <1>1, <1>2, <2>1, <2>2, PromptBound DEF Promptness
<1> QED
  BY <1>3, <1>4

\* Whatever crashes, restarts, delays and overflows, autonomy is allowed only on
\* a past no older than the timeout and one delay.
THEOREM GuardIsRecent == HSpec => []AllowedIsRecent
BY IInvInit, IInvStep, IInvRecent, PTL DEF HSpec

\* While the state machine runs and no queue overflows, a guard stops within one
\* delay of the robot.
THEOREM GuardIsPrompt == HSpec => []StopsWithinDelay
BY IInvInit, IInvStep, IInvPrompt, PTL DEF HSpec
============================================================================
