------------------------ MODULE JoyStateBridgeProofs -----------------------
(***************************************************************************)
(* A command of the joystick rests on a recent truth, for every depth of   *)
(* the queues.                                                             *)
(***************************************************************************)
EXTENDS JoyStateBridgeProps, SequenceTheorems, TLAPS

Last(queue) == queue[Len(queue)]

\* What may have been published in this period, and what may have been commanded.
StatesTold   == {s \in States : s = "disabled" => "disabled" \in was}
ModesTold    == {m \in BOOLEAN : m = TRUE => "autonomous" \in was}
StatesWanted ==
  {c \in {"enabled", "active"} :
     /\ c = "active" => "autonomous" \in was
     /\ c = "enabled" /\ heard = "before" => "disabled" \in was}

HistTypeOK ==
  /\ TypeOK
  /\ was \subseteq {"disabled", "autonomous"}
  /\ heard \in {"never", "now", "before"}

\* Everything on its way was true when it was sent, in this period.
WiresTellTruth ==
  /\ TrueNow \subseteq was
  /\ stateWire \in QueueOf(StatesTold)
  /\ modeWire \in QueueOf(ModesTold)
  /\ setState \in QueueOf(StatesWanted)

\* What the node believes is the truth, or was in this period, or the truth is on
\* its way.
ViewIsRecent ==
  /\ seenMode = TRUE => "autonomous" \in was
  /\ heard = "before" /\ seenState = "disabled" => "disabled" \in was

NewsIsUnderWay ==
  /\ stateWire # << >> => Last(stateWire) = state
  /\ modeWire # << >> => Last(modeWire) = autonomous
  /\ stateWire = << >> /\ heard # "never" => seenState = state
  /\ modeWire = << >> /\ seenMode = TRUE => autonomous = TRUE

JoyInv == HistTypeOK /\ WiresTellTruth /\ ViewIsRecent /\ NewsIsUnderWay

----------------------------------------------------------------------------
(* Queues.                                                                 *)

LEMMA QueueIsSeq ==
  ASSUME NEW V, NEW q
  PROVE  q \in QueueOf(V) <=> q \in Seq(V) /\ Len(q) <= Depth
<1>1. ASSUME q \in QueueOf(V) PROVE q \in Seq(V) /\ Len(q) <= Depth
  <2>1. PICK n \in 0 .. Depth : q \in [1 .. n -> V]
    BY <1>1 DEF QueueOf
  <2>2. q \in Seq(V)
    BY <2>1, SeqDef, DepthAssumption
  <2>3. Len(q) = n
    BY <2>1, <2>2, LenProperties, DepthAssumption
  <2>4. QED
    BY <2>1, <2>2, <2>3, DepthAssumption
<1>2. ASSUME q \in Seq(V), Len(q) <= Depth PROVE q \in QueueOf(V)
  BY <1>2, LenProperties, DepthAssumption DEF QueueOf
<1>3. QED
  BY <1>1, <1>2

LEMMA QueueGrows ==
  ASSUME NEW V, NEW W, V \subseteq W, NEW q \in QueueOf(V)
  PROVE  q \in QueueOf(W)
BY QueueIsSeq, SeqMonotonic

LEMMA EmptyQueue ==
  ASSUME NEW V
  PROVE  << >> \in QueueOf(V)
<1>1. << >> \in Seq(V) /\ Len(<< >>) <= Depth
  BY DepthAssumption
<1>2. QED
  BY <1>1, QueueIsSeq

LEMMA KeepLastIsQueue ==
  ASSUME NEW V, NEW s \in Seq(V)
  PROVE  /\ KeepLast(s) \in QueueOf(V)
         /\ s # << >> => KeepLast(s) # << >> /\ Last(KeepLast(s)) = Last(s)
         /\ Len(KeepLast(s)) = IF Len(s) > Depth THEN Depth ELSE Len(s)
<1>1. Len(s) \in Nat /\ (s # << >> => Len(s) > 0) /\ Len(<< >>) = 0
  BY LenProperties, EmptySeq
<1>2. CASE Len(s) > Depth
  <2>1. KeepLast(s) = SubSeq(s, Len(s) - Depth + 1, Len(s))
    BY <1>2 DEF KeepLast
  <2>2. \A i \in Len(s) - Depth + 1 .. Len(s) : s[i] \in V
    BY <1>1, <1>2, ElementOfSeq, DepthAssumption
  <2>3. /\ KeepLast(s) \in Seq(V) /\ Len(KeepLast(s)) = Depth
        /\ KeepLast(s)[Depth] = s[Len(s)]
    <3> HIDE DEF KeepLast
    <3>1. Len(s) - Depth + 1 \in Int /\ Len(s) \in Int
      BY <1>1, DepthAssumption
    <3>2. /\ SubSeq(s, Len(s) - Depth + 1, Len(s)) \in Seq(V)
          /\ Len(SubSeq(s, Len(s) - Depth + 1, Len(s))) =
               IF Len(s) - Depth + 1 <= Len(s) THEN Len(s) - (Len(s) - Depth + 1) + 1 ELSE 0
          /\ \A i \in 1 .. Len(s) - (Len(s) - Depth + 1) + 1 :
               SubSeq(s, Len(s) - Depth + 1, Len(s))[i] = s[Len(s) - Depth + 1 + i - 1]
      BY <2>2, <3>1, SubSeqProperties
    <3>3. Depth \in 1 .. Len(s) - (Len(s) - Depth + 1) + 1
      BY <1>1, DepthAssumption
    <3>4. Len(s) - Depth + 1 + Depth - 1 = Len(s)
      BY <1>1, DepthAssumption
    <3>5. SubSeq(s, Len(s) - Depth + 1, Len(s))[Depth] = s[Len(s)]
      BY <3>2, <3>3, <3>4
    <3>6. Len(SubSeq(s, Len(s) - Depth + 1, Len(s))) = Depth
      BY <1>1, <3>2, DepthAssumption
    <3>7. QED
      BY <2>1, <3>2, <3>5, <3>6
  <2>4. QED
    BY <1>1, <1>2, <2>3, QueueIsSeq, DepthAssumption DEF Last
<1>3. CASE ~(Len(s) > Depth)
  <2>1. KeepLast(s) = s
    BY <1>3 DEF KeepLast
  <2>2. QED
    BY <1>1, <1>3, <2>1, QueueIsSeq, DepthAssumption
<1>4. QED
  BY <1>2, <1>3

LEMMA TailOfQueue ==
  ASSUME NEW V, NEW q \in QueueOf(V), q # << >>
  PROVE  /\ Head(q) \in V
         /\ Tail(q) \in QueueOf(V)
         /\ Len(Tail(q)) < Len(q)
         /\ Tail(q) # << >> => Last(Tail(q)) = Last(q)
         /\ Tail(q) = << >> => Head(q) = Last(q)
<1>1. q \in Seq(V) /\ Len(q) <= Depth
  BY QueueIsSeq
<1>2. /\ Head(q) \in V /\ Tail(q) \in Seq(V) /\ Len(Tail(q)) = Len(q) - 1
      /\ \A i \in 1 .. Len(Tail(q)) : Tail(q)[i] = q[i+1]
  BY <1>1, HeadTailProperties
<1>3. Len(q) \in Nat \ {0}
  BY <1>1, EmptySeq
<1>4. Tail(q) \in QueueOf(V)
  <2>1. Len(Tail(q)) <= Depth
    BY <1>1, <1>2, <1>3, DepthAssumption
  <2>2. QED
    BY <1>2, <2>1, QueueIsSeq
<1>5. ASSUME Tail(q) # << >> PROVE Last(Tail(q)) = Last(q)
  <2>1. Len(Tail(q)) \in Nat \ {0}
    BY <1>2, <1>5, EmptySeq
  <2>2. Tail(q)[Len(Tail(q))] = q[Len(Tail(q)) + 1]
    BY <1>2, <2>1
  <2>3. Len(Tail(q)) + 1 = Len(q)
    BY <1>2, <1>3
  <2>4. QED
    BY <2>2, <2>3 DEF Last
<1>6. ASSUME Tail(q) = << >> PROVE Head(q) = Last(q)
  <2>1. Len(q) = 1
    BY <1>2, <1>3, <1>6, EmptySeq
  <2>2. QED
    BY <1>1, <2>1 DEF Last
<1>7. QED
  BY <1>2, <1>3, <1>4, <1>5, <1>6

LEMMA AppendToQueue ==
  ASSUME NEW V, NEW q \in QueueOf(V), NEW e \in V
  PROVE  /\ KeepLast(Append(q, e)) \in QueueOf(V)
         /\ KeepLast(Append(q, e)) # << >>
         /\ Last(KeepLast(Append(q, e))) = e
         /\ Len(KeepLast(Append(q, e))) >= Len(q)
<1>1. q \in Seq(V) /\ Len(q) \in Nat /\ Len(q) <= Depth
  BY QueueIsSeq, LenProperties
<1>2. /\ Append(q, e) \in Seq(V) /\ Append(q, e) # << >>
      /\ Len(Append(q, e)) = Len(q) + 1 /\ Append(q, e)[Len(q) + 1] = e
  BY <1>1, AppendProperties
<1>3. Last(Append(q, e)) = e
  BY <1>2 DEF Last
<1>4. /\ KeepLast(Append(q, e)) \in QueueOf(V)
      /\ KeepLast(Append(q, e)) # << >>
      /\ Last(KeepLast(Append(q, e))) = Last(Append(q, e))
      /\ Len(KeepLast(Append(q, e))) = IF Len(q) + 1 > Depth THEN Depth ELSE Len(q) + 1
  BY <1>2, KeepLastIsQueue
<1>5. Len(KeepLast(Append(q, e))) >= Len(q)
  BY <1>1, <1>4, DepthAssumption
<1>6. QED
  BY <1>3, <1>4, <1>5

LEMMA ConcatToQueue ==
  ASSUME NEW V, NEW q \in QueueOf(V), NEW s \in Seq(V)
  PROVE  q \o s \in Seq(V)
<1>1. q \in Seq(V)
  BY QueueIsSeq
<1>2. QED
  BY <1>1, ConcatProperties

LEMMA AsksIsSeq ==
  ASSUME NEW V, NEW pressed, NEW command \in V
  PROVE  Asks(pressed, command) \in Seq(V)
BY DEF Asks

LEMMA QueueOfOne ==
  ASSUME NEW V, NEW v \in V
  PROVE  <<v>> \in QueueOf(V) /\ <<v>> # << >> /\ Last(<<v>>) = v
<1>1. <<v>> \in Seq(V) /\ Len(<<v>>) = 1
  OBVIOUS
<1>2. Len(<<v>>) <= Depth
  BY <1>1, DepthAssumption
<1>3. <<v>> \in QueueOf(V)
  BY <1>1, <1>2, QueueIsSeq
<1>4. QED
  BY <1>1, <1>3 DEF Last

LEMMA TailIsOther ==
  ASSUME NEW V, NEW q \in QueueOf(V), q # << >>,
         NEW r \in QueueOf(V), Len(r) >= Len(q)
  PROVE  r # Tail(q)
<1>1. Len(q) \in Nat /\ Len(r) \in Nat
  BY QueueIsSeq, LenProperties
<1>2. Tail(q) \in QueueOf(V) /\ Len(Tail(q)) < Len(q)
  BY TailOfQueue
<1>3. Len(Tail(q)) \in Nat
  BY <1>2, QueueIsSeq, LenProperties
<1>4. QED
  BY <1>1, <1>2, <1>3

----------------------------------------------------------------------------
(* What was true and what may be told.                                     *)

\* What was told may still be told later in the period.
LEMMA ToldGrows ==
  ASSUME was \subseteq was', heard' = "before" => heard = "before"
  PROVE  /\ StatesTold \subseteq StatesTold'
         /\ ModesTold \subseteq ModesTold'
         /\ StatesWanted \subseteq StatesWanted'
BY DEF StatesTold, ModesTold, StatesWanted

LEMMA TruthIsTold ==
  ASSUME TrueNow \subseteq was
  PROVE  /\ state \in States => state \in StatesTold
         /\ autonomous \in BOOLEAN => autonomous \in ModesTold
BY DEF TrueNow, StatesTold, ModesTold

LEMMA TruthIsToldNext ==
  ASSUME TrueNow' \subseteq was'
  PROVE  /\ state' \in States => state' \in StatesTold'
         /\ autonomous' \in BOOLEAN => autonomous' \in ModesTold'
BY DEF TrueNow, StatesTold, ModesTold

\* How a step moves the histories.
LEMMA HistoryStep ==
  ASSUME HistTypeOK, HStep
  PROVE  /\ was \subseteq was' /\ TrueNow' \subseteq was'
         /\ was' \subseteq {"disabled", "autonomous"}
         /\ heard' \in {"never", "now", "before"}
         /\ heard' = "before" => heard = "before"
         /\ ~Hears => heard' = heard
<1>1. was' = was \cup TrueNow'
  BY DEF HStep
<1>2. TrueNow' \subseteq {"disabled", "autonomous"}
  BY DEF TrueNow
<1>3. heard' = IF heard = "never" /\ Hears THEN "now" ELSE heard
  BY DEF HStep
<1>4. QED
  BY <1>1, <1>2, <1>3 DEF HistTypeOK

\* The part of the invariant that types the variables which travel nowhere.
PlainTypeOK ==
  /\ state \in States /\ autonomous \in BOOLEAN
  /\ lastButtons \subseteq Buttons
  /\ seenState \in States /\ seenMode \in BOOLEAN
  /\ setMode \in QueueOf({"manual", "autonomous"})

LEMMA TypesFollow ==
  ASSUME PlainTypeOK', WiresTellTruth',
         was' \subseteq {"disabled", "autonomous"}, heard' \in {"never", "now", "before"}
  PROVE  HistTypeOK'
<1>1. /\ StatesTold' \subseteq States /\ ModesTold' \subseteq BOOLEAN
      /\ StatesWanted' \subseteq {"enabled", "active"}
  BY DEF StatesTold, ModesTold, StatesWanted
<1>2. /\ stateWire' \in QueueOf(StatesTold') /\ modeWire' \in QueueOf(ModesTold')
      /\ setState' \in QueueOf(StatesWanted')
  BY DEF WiresTellTruth, QueueOf
<1>3. stateWire' \in QueueOf(States)
  BY <1>1, <1>2, QueueGrows
<1>4. modeWire' \in QueueOf(BOOLEAN)
  BY <1>1, <1>2, QueueGrows
<1>5. setState' \in QueueOf({"enabled", "active"})
  BY <1>1, <1>2, QueueGrows
<1>6. TypeOK'
  BY <1>3, <1>4, <1>5, Zenon DEF PlainTypeOK, TypeOK, QueueOf, States, Buttons
<1>7. QED
  BY <1>6 DEF HistTypeOK

\* What the invariant says before a step, with the wires already typed by what may
\* be told after it.
LEMMA WiresStillTrue ==
  ASSUME JoyInv, HStep
  PROVE  /\ stateWire \in QueueOf(StatesTold')
         /\ modeWire \in QueueOf(ModesTold')
         /\ setState \in QueueOf(StatesWanted')
<1>1. /\ StatesTold \subseteq StatesTold' /\ ModesTold \subseteq ModesTold'
      /\ StatesWanted \subseteq StatesWanted'
  BY HistoryStep, ToldGrows DEF JoyInv
<1>2. /\ stateWire \in QueueOf(StatesTold) /\ modeWire \in QueueOf(ModesTold)
      /\ setState \in QueueOf(StatesWanted)
  BY DEF JoyInv, WiresTellTruth
<1>3. stateWire \in QueueOf(StatesTold')
  BY <1>1, <1>2, QueueGrows
<1>4. modeWire \in QueueOf(ModesTold')
  BY <1>1, <1>2, QueueGrows
<1>5. setState \in QueueOf(StatesWanted')
  BY <1>1, <1>2, QueueGrows
<1>6. QED
  BY <1>3, <1>4, <1>5

----------------------------------------------------------------------------
(* The invariant, step by step.                                            *)

LEMMA InitJoyInv == HInit => JoyInv
<1> SUFFICES ASSUME HInit PROVE JoyInv
  OBVIOUS
<1>1. /\ state \in States /\ autonomous \in BOOLEAN
      /\ stateWire \in {<< >>, <<state>>} /\ modeWire \in {<< >>, <<autonomous>>}
      /\ lastButtons = {} /\ seenState = "disabled" /\ seenMode = FALSE
      /\ setState = << >> /\ setMode = << >>
      /\ was = TrueNow /\ heard = "never"
  BY Zenon DEF HInit, Init
<1>2. state \in StatesTold /\ autonomous \in ModesTold
  BY <1>1, TruthIsTold
<1>3. /\ stateWire \in QueueOf(StatesTold)
      /\ stateWire # << >> => Last(stateWire) = state
  BY <1>1, <1>2, EmptyQueue, QueueOfOne
<1>4. /\ modeWire \in QueueOf(ModesTold)
      /\ modeWire # << >> => Last(modeWire) = autonomous
  BY <1>1, <1>2, EmptyQueue, QueueOfOne, Zenon
<1>5. WiresTellTruth
  BY <1>1, <1>3, <1>4, EmptyQueue DEF WiresTellTruth
<1>6. ViewIsRecent /\ NewsIsUnderWay
  BY <1>1, <1>3, <1>4 DEF ViewIsRecent, NewsIsUnderWay
<1>7. HistTypeOK
  <2>1. stateWire \in QueueOf(States)
    BY <1>3, QueueGrows DEF StatesTold
  <2>2. modeWire \in QueueOf(BOOLEAN)
    BY <1>4, QueueGrows DEF ModesTold
  <2>3. setState \in QueueOf({"enabled", "active"}) /\ setMode \in QueueOf({"manual", "autonomous"})
    BY <1>1, EmptyQueue
  <2>4. was \subseteq {"disabled", "autonomous"}
    BY <1>1 DEF TrueNow
  <2>5. seenState \in States
    BY <1>1 DEF States
  <2>6. QED
    BY <1>1, <2>1, <2>2, <2>3, <2>4, <2>5, Zenon DEF HistTypeOK, TypeOK
<1>8. QED
  BY <1>5, <1>6, <1>7 DEF JoyInv

LEMMA JoyStep ==
  ASSUME JoyInv, HStep, NEW down \in SUBSET Buttons, JoyCallback(down)
  PROVE  JoyInv'
<1>1. HistTypeOK /\ WiresTellTruth /\ ViewIsRecent /\ NewsIsUnderWay
  BY DEF JoyInv
<1>2. UNCHANGED <<stateVars, viewVars, newsVars>> /\ lastButtons' = down
  BY DEF JoyCallback
<1>3. UNCHANGED <<state, autonomous, seenState, seenMode, stateWire, modeWire>>
  BY <1>2 DEF stateVars, viewVars, newsVars
<1>4. ~Hears
  <2>1. SUFFICES ASSUME Hears PROVE FALSE
    OBVIOUS
  <2>2. stateWire # << >> /\ stateWire \in QueueOf(States) /\ stateWire = Tail(stateWire)
    BY <1>1, <1>3, <2>1 DEF Hears, HistTypeOK, TypeOK
  <2>3. Len(stateWire) \in Nat
    BY <2>2, QueueIsSeq, LenProperties
  <2>4. QED
    BY <2>2, <2>3, TailIsOther
<1>5. /\ was \subseteq was' /\ TrueNow' \subseteq was' /\ heard' = heard
      /\ was' \subseteq {"disabled", "autonomous"} /\ heard' \in {"never", "now", "before"}
  BY <1>1, <1>4, HistoryStep
<1>6. /\ stateWire \in QueueOf(StatesTold') /\ modeWire \in QueueOf(ModesTold')
      /\ setState \in QueueOf(StatesWanted')
  BY WiresStillTrue
<1>7. setState' \in QueueOf(StatesWanted')
  <2> DEFINE Wanted == IF "activate" \in down \ lastButtons THEN Meaning ELSE << >>
  <2>1. setState' = KeepLast(setState \o Wanted)
    BY DEF JoyCallback
  <2>2. Meaning \in Seq(StatesWanted)
    <3>1. CASE seenState = "disabled"
      BY <1>1, <3>1 DEF Meaning, ViewIsRecent, StatesWanted
    <3>2. CASE seenState = "enabled" /\ seenMode
      BY <1>1, <3>2 DEF Meaning, ViewIsRecent, StatesWanted
    <3>3. CASE seenState # "disabled" /\ ~(seenState = "enabled" /\ seenMode)
      BY <3>3 DEF Meaning
    <3>4. QED
      BY <3>1, <3>2, <3>3
  <2>3. StatesWanted \subseteq StatesWanted'
    BY <1>5, ToldGrows
  <2>4. Meaning \in Seq(StatesWanted')
    BY <2>2, <2>3, SeqMonotonic
  <2>5. Wanted \in Seq(StatesWanted')
    BY <2>4
  <2> HIDE DEF Wanted
  <2>6. setState \o Wanted \in Seq(StatesWanted')
    BY <1>6, <2>5, ConcatToQueue
  <2>7. QED
    BY <2>1, <2>6, KeepLastIsQueue
<1>8. PlainTypeOK'
  <2> DEFINE Modes == Asks("manual" \in down \ lastButtons, "manual")
                     \o Asks("autonomous" \in down \ lastButtons, "autonomous")
             V == {"manual", "autonomous"}
  <2>1. setMode' = KeepLast(setMode \o Modes)
    BY DEF JoyCallback
  <2>2. Modes \in Seq(V)
    <3>1. /\ Asks("manual" \in down \ lastButtons, "manual") \in Seq(V)
          /\ Asks("autonomous" \in down \ lastButtons, "autonomous") \in Seq(V)
      BY AsksIsSeq
    <3>2. QED
      BY <3>1, ConcatProperties
  <2> HIDE DEF Modes
  <2>3. setMode \o Modes \in Seq(V)
    <3>1. setMode \in QueueOf(V)
      BY <1>1 DEF HistTypeOK, TypeOK
    <3>2. QED
      BY <2>2, <3>1, ConcatToQueue
  <2>4. setMode' \in QueueOf(V)
    BY <2>1, <2>3, KeepLastIsQueue
  <2>5. QED
    BY <1>1, <1>2, <1>3, <2>4, Zenon DEF HistTypeOK, TypeOK, PlainTypeOK, States, Buttons, QueueOf
<1>9. WiresTellTruth'
  BY <1>3, <1>5, <1>6, <1>7, Zenon DEF WiresTellTruth, QueueOf
<1>10. ViewIsRecent' /\ NewsIsUnderWay'
  BY <1>1, <1>3, <1>5 DEF ViewIsRecent, NewsIsUnderWay, Last
<1>11. QED
  BY <1>5, <1>8, <1>9, <1>10, TypesFollow DEF JoyInv

LEMMA StateNewsStep ==
  ASSUME JoyInv, HStep, RobotStateCallback
  PROVE  JoyInv'
<1>1. HistTypeOK /\ WiresTellTruth /\ ViewIsRecent /\ NewsIsUnderWay
  BY DEF JoyInv
<1>2. /\ stateWire # << >> /\ seenState' = Head(stateWire) /\ stateWire' = Tail(stateWire)
      /\ UNCHANGED <<state, autonomous, lastButtons, seenMode, modeWire, setState, setMode>>
  BY DEF RobotStateCallback, stateVars, commandVars
<1>3. /\ was \subseteq was' /\ TrueNow' \subseteq was'
      /\ was' \subseteq {"disabled", "autonomous"} /\ heard' \in {"never", "now", "before"}
      /\ heard' = "before" => heard = "before"
  BY <1>1, HistoryStep
<1>4. /\ stateWire \in QueueOf(StatesTold') /\ modeWire \in QueueOf(ModesTold')
      /\ setState \in QueueOf(StatesWanted')
  BY WiresStillTrue
<1>5. /\ Head(stateWire) \in StatesTold'
      /\ Tail(stateWire) \in QueueOf(StatesTold')
      /\ Tail(stateWire) # << >> => Last(Tail(stateWire)) = Last(stateWire)
      /\ Tail(stateWire) = << >> => Head(stateWire) = Last(stateWire)
  BY <1>2, <1>4, TailOfQueue
<1>6. WiresTellTruth'
  BY <1>2, <1>3, <1>4, <1>5, Zenon DEF WiresTellTruth, QueueOf
<1>7. seenState' \in StatesTold'
  BY <1>2, <1>5
<1>8. ViewIsRecent'
  BY <1>1, <1>2, <1>3, <1>7 DEF ViewIsRecent, StatesTold
<1>9. NewsIsUnderWay'
  BY <1>1, <1>2, <1>5 DEF NewsIsUnderWay, Last
<1>10. PlainTypeOK'
  <2>1. seenState' \in States
    BY <1>7 DEF StatesTold, States
  <2>2. QED
    BY <1>1, <1>2, <2>1, Zenon DEF HistTypeOK, TypeOK, PlainTypeOK, States, Buttons, QueueOf
<1>11. QED
  BY <1>3, <1>6, <1>8, <1>9, <1>10, TypesFollow DEF JoyInv

\* A step that leaves the states on their way alone, or adds to them, hears nothing.
LEMMA NothingHeard ==
  ASSUME JoyInv, HStep,
         \/ stateWire = << >>
         \/ stateWire' \in QueueOf(States) /\ Len(stateWire') >= Len(stateWire)
  PROVE  heard' = heard
<1>1. HistTypeOK /\ stateWire \in QueueOf(States)
  BY DEF JoyInv, HistTypeOK, TypeOK
<1>2. ~Hears
  BY <1>1, TailIsOther DEF Hears
<1>3. QED
  BY <1>1, <1>2, HistoryStep

LEMMA LengthOfSame ==
  ASSUME JoyInv
  PROVE  stateWire \in QueueOf(States) /\ Len(stateWire) >= Len(stateWire)
<1>1. stateWire \in QueueOf(States)
  BY DEF JoyInv, HistTypeOK, TypeOK
<1>2. Len(stateWire) \in Nat
  BY <1>1, QueueIsSeq, LenProperties
<1>3. QED
  BY <1>1, <1>2

LEMMA ModeNewsStep ==
  ASSUME JoyInv, HStep, AutonomousModeCallback
  PROVE  JoyInv'
<1>1. HistTypeOK /\ WiresTellTruth /\ ViewIsRecent /\ NewsIsUnderWay
  BY DEF JoyInv
<1>2. /\ modeWire # << >> /\ seenMode' = Head(modeWire) /\ modeWire' = Tail(modeWire)
      /\ UNCHANGED <<state, autonomous, lastButtons, seenState, stateWire, setState, setMode>>
  BY Zenon DEF AutonomousModeCallback, stateVars, commandVars
<1>3. /\ was \subseteq was' /\ TrueNow' \subseteq was'
      /\ was' \subseteq {"disabled", "autonomous"} /\ heard' \in {"never", "now", "before"}
  BY <1>1, HistoryStep
<1>4. heard' = heard
  <2>1. stateWire' = stateWire
    BY <1>2, Zenon
  <2>2. QED
    BY <2>1, LengthOfSame, NothingHeard
<1>5. /\ stateWire \in QueueOf(StatesTold') /\ modeWire \in QueueOf(ModesTold')
      /\ setState \in QueueOf(StatesWanted')
  BY WiresStillTrue
<1>6. /\ Head(modeWire) \in ModesTold'
      /\ Tail(modeWire) \in QueueOf(ModesTold')
      /\ Tail(modeWire) # << >> => Last(Tail(modeWire)) = Last(modeWire)
      /\ Tail(modeWire) = << >> => Head(modeWire) = Last(modeWire)
  BY <1>2, <1>5, TailOfQueue, Zenon
<1>7. WiresTellTruth'
  BY <1>2, <1>3, <1>5, <1>6, Zenon DEF WiresTellTruth, QueueOf
<1>8. seenMode' \in ModesTold'
  BY <1>2, <1>6, Zenon
<1>9. ViewIsRecent'
  <2>1. seenMode' = TRUE => "autonomous" \in was'
    BY <1>8, Zenon DEF ModesTold
  <2>2. heard' = "before" /\ seenState' = "disabled" => "disabled" \in was'
    BY <1>1, <1>2, <1>3, <1>4, Zenon DEF ViewIsRecent
  <2>3. QED
    BY <2>1, <2>2, Zenon DEF ViewIsRecent
<1>10. NewsIsUnderWay'
  BY <1>1, <1>2, <1>4, <1>6, Zenon DEF NewsIsUnderWay, Last
<1>11. PlainTypeOK'
  <2>1. seenMode' \in BOOLEAN
    BY <1>8, Zenon DEF ModesTold
  <2>2. QED
    BY <1>1, <1>2, <2>1, Zenon DEF HistTypeOK, TypeOK, PlainTypeOK, States, Buttons, QueueOf
<1>12. QED
  BY <1>3, <1>7, <1>9, <1>10, <1>11, TypesFollow DEF JoyInv

\* What the publications of a step of the robot leave on the wires.
LEMMA PublishResult ==
  ASSUME JoyInv, HStep, PublishChanges, state' \in States, autonomous' \in BOOLEAN
  PROVE  /\ stateWire' \in QueueOf(StatesTold') /\ modeWire' \in QueueOf(ModesTold')
         /\ stateWire' # << >> => Last(stateWire') = state'
         /\ modeWire' # << >> => Last(modeWire') = autonomous'
         /\ stateWire' = << >> => stateWire = << >> /\ state' = state
         /\ modeWire' = << >> => modeWire = << >> /\ autonomous' = autonomous
         /\ heard' = heard
<1>1. /\ HistTypeOK /\ NewsIsUnderWay
  BY DEF JoyInv
<1>2. TrueNow' \subseteq was'
  BY <1>1, HistoryStep
<1>3. state' \in StatesTold' /\ autonomous' \in ModesTold'
  BY <1>2, TruthIsToldNext
<1>4. stateWire \in QueueOf(StatesTold') /\ modeWire \in QueueOf(ModesTold')
  BY WiresStillTrue
<1>5. /\ stateWire' \in QueueOf(StatesTold')
      /\ stateWire' # << >> => Last(stateWire') = state'
      /\ stateWire' = << >> => stateWire = << >> /\ state' = state
      /\ Len(stateWire') >= Len(stateWire)
  <2>1. CASE state' # state
    <3>1. stateWire' = KeepLast(Append(stateWire, state'))
      BY <2>1 DEF PublishChanges
    <3>2. QED
      BY <1>3, <1>4, <3>1, AppendToQueue
  <2>2. CASE state' = state
    <3>1. stateWire' = stateWire
      BY <2>2 DEF PublishChanges
    <3>2. QED
      BY <1>1, <1>4, <2>2, <3>1, LengthOfSame DEF NewsIsUnderWay
  <2>3. QED
    BY <2>1, <2>2
<1>6. /\ modeWire' \in QueueOf(ModesTold')
      /\ modeWire' # << >> => Last(modeWire') = autonomous'
      /\ modeWire' = << >> => modeWire = << >> /\ autonomous' = autonomous
  <2>1. CASE autonomous' # autonomous
    <3>1. modeWire' = KeepLast(Append(modeWire, autonomous'))
      BY <2>1, Zenon DEF PublishChanges
    <3>2. QED
      BY <1>3, <1>4, <3>1, AppendToQueue, Zenon
  <2>2. CASE autonomous' = autonomous
    <3>1. modeWire' = modeWire
      BY <2>2, Zenon DEF PublishChanges
    <3>2. QED
      BY <1>1, <1>4, <2>2, <3>1, Zenon DEF NewsIsUnderWay
  <2>3. QED
    BY <2>1, <2>2, Zenon
<1>7. heard' = heard
  <2>1. stateWire' \in QueueOf(States)
    BY <1>5, QueueGrows DEF StatesTold
  <2>2. QED
    BY <1>5, <2>1, NothingHeard
<1>8. QED
  BY <1>5, <1>6, <1>7, Zenon

\* A step of the robot, on its own or at a command.
LEMMA RobotStep ==
  ASSUME JoyInv, HStep, PublishChanges, state' \in States, autonomous' \in BOOLEAN,
         UNCHANGED <<lastButtons, seenState, seenMode>>,
         setState' \in QueueOf(StatesWanted'),
         setMode' \in QueueOf({"manual", "autonomous"})
  PROVE  JoyInv'
<1>1. HistTypeOK /\ WiresTellTruth /\ ViewIsRecent /\ NewsIsUnderWay
  BY DEF JoyInv
<1>2. /\ was \subseteq was' /\ TrueNow' \subseteq was'
      /\ was' \subseteq {"disabled", "autonomous"} /\ heard' \in {"never", "now", "before"}
  BY <1>1, HistoryStep
<1>3. /\ stateWire' \in QueueOf(StatesTold') /\ modeWire' \in QueueOf(ModesTold')
      /\ stateWire' # << >> => Last(stateWire') = state'
      /\ modeWire' # << >> => Last(modeWire') = autonomous'
      /\ stateWire' = << >> => stateWire = << >> /\ state' = state
      /\ modeWire' = << >> => modeWire = << >> /\ autonomous' = autonomous
      /\ heard' = heard
  BY PublishResult, Zenon
<1>4. WiresTellTruth'
  BY <1>2, <1>3, Zenon DEF WiresTellTruth, QueueOf
<1>5. ViewIsRecent'
  BY <1>1, <1>2, <1>3 DEF ViewIsRecent
<1>6. NewsIsUnderWay'
  BY <1>1, <1>3, Zenon DEF NewsIsUnderWay, Last
<1>7. PlainTypeOK'
  BY <1>1, Zenon DEF HistTypeOK, TypeOK, PlainTypeOK, States, Buttons, QueueOf
<1>8. QED
  BY <1>2, <1>4, <1>5, <1>6, <1>7, TypesFollow DEF JoyInv

LEMMA RobotTypes ==
  ASSUME state \in States, autonomous \in BOOLEAN, StateNext
  PROVE  state' \in States /\ autonomous' \in BOOLEAN
<1>1. state' \in States
  BY DEF StateNext, Disable, Enable, Activate, Suspend, ChangeMode, States
<1>2. autonomous' \in BOOLEAN
  BY DEF StateNext, Disable, Enable, Activate, Suspend, ChangeMode
<1>3. QED
  BY <1>1, <1>2

LEMMA OwnJoyStep ==
  ASSUME JoyInv, HStep, OwnStep
  PROVE  JoyInv'
<1>1. HistTypeOK
  BY DEF JoyInv
<1>2. state' \in States /\ autonomous' \in BOOLEAN
  BY <1>1, RobotTypes DEF OwnStep, HistTypeOK, TypeOK
<1>3. /\ PublishChanges
      /\ UNCHANGED <<lastButtons, seenState, seenMode>> /\ UNCHANGED <<setState, setMode>>
  BY Zenon DEF OwnStep, viewVars, commandVars
<1>4. setState' \in QueueOf(StatesWanted') /\ setMode' \in QueueOf({"manual", "autonomous"})
  BY <1>1, <1>3, WiresStillTrue DEF HistTypeOK, TypeOK
<1>5. QED
  BY <1>2, <1>3, <1>4, RobotStep, Zenon

LEMMA StateCommandStep ==
  ASSUME JoyInv, HStep, SetStateSelector
  PROVE  JoyInv'
<1>1. HistTypeOK
  BY DEF JoyInv
<1>2. /\ StateNext \/ UNCHANGED stateVars
      /\ PublishChanges /\ setState # << >> /\ setState' = Tail(setState)
      /\ UNCHANGED <<lastButtons, seenState, seenMode>> /\ UNCHANGED setMode
  BY Zenon DEF SetStateSelector, StateNext, viewVars
<1>3. state' \in States /\ autonomous' \in BOOLEAN
  BY <1>1, <1>2, RobotTypes, Zenon DEF HistTypeOK, TypeOK, stateVars
<1>4. setState' \in QueueOf(StatesWanted')
  BY <1>2, WiresStillTrue, TailOfQueue
<1>5. setMode' \in QueueOf({"manual", "autonomous"})
  BY <1>1, <1>2 DEF HistTypeOK, TypeOK
<1>6. QED
  BY <1>2, <1>3, <1>4, <1>5, RobotStep, Zenon

LEMMA ModeCommandStep ==
  ASSUME JoyInv, HStep, SetModeSelector
  PROVE  JoyInv'
<1>1. HistTypeOK
  BY DEF JoyInv
<1>2. /\ StateNext \/ UNCHANGED stateVars
      /\ PublishChanges /\ setMode # << >> /\ setMode' = Tail(setMode)
      /\ UNCHANGED <<lastButtons, seenState, seenMode>> /\ UNCHANGED setState
  BY Zenon DEF SetModeSelector, StateNext, viewVars
<1>3. state' \in States /\ autonomous' \in BOOLEAN
  BY <1>1, <1>2, RobotTypes, Zenon DEF HistTypeOK, TypeOK, stateVars
<1>4. setState' \in QueueOf(StatesWanted')
  BY <1>2, WiresStillTrue
<1>5. setMode' \in QueueOf({"manual", "autonomous"})
  BY <1>1, <1>2, TailOfQueue DEF HistTypeOK, TypeOK
<1>6. QED
  BY <1>2, <1>3, <1>4, <1>5, RobotStep, Zenon

\* A repetition of the state or of the mode tells the truth and leaves the robot.
LEMMA RepublishStep ==
  ASSUME JoyInv, HStep, RepublishState \/ RepublishMode
  PROVE  JoyInv'
<1>1. HistTypeOK /\ WiresTellTruth /\ ViewIsRecent /\ NewsIsUnderWay
  BY DEF JoyInv
<1>2. /\ was \subseteq was' /\ TrueNow' \subseteq was'
      /\ was' \subseteq {"disabled", "autonomous"} /\ heard' \in {"never", "now", "before"}
  BY <1>1, HistoryStep
<1>3. UNCHANGED <<state, autonomous, lastButtons, seenState, seenMode, setState, setMode>>
  BY Zenon DEF RepublishState, RepublishMode, stateVars, viewVars, commandVars
<1>4. /\ stateWire \in QueueOf(StatesTold') /\ modeWire \in QueueOf(ModesTold')
      /\ setState \in QueueOf(StatesWanted')
  BY WiresStillTrue
<1>5. state \in StatesTold' /\ autonomous \in ModesTold'
  BY <1>1, <1>2, <1>3, TruthIsToldNext DEF HistTypeOK, TypeOK
<1>6. heard' = heard
  <2>1. stateWire = << >> \/ stateWire' = stateWire
    BY Zenon DEF RepublishState, RepublishMode
  <2>2. QED
    BY <2>1, LengthOfSame, NothingHeard
<1>7. /\ stateWire' \in QueueOf(StatesTold')
      /\ stateWire' # << >> => Last(stateWire') = state
      /\ stateWire' = << >> => stateWire = << >>
  <2>1. stateWire' = <<state>> \/ stateWire' = stateWire
    BY Zenon DEF RepublishState, RepublishMode
  <2>2. QED
    BY <1>1, <1>4, <1>5, <2>1, QueueOfOne DEF NewsIsUnderWay
<1>8. /\ modeWire' \in QueueOf(ModesTold')
      /\ modeWire' # << >> => Last(modeWire') = autonomous
      /\ modeWire' = << >> => modeWire = << >>
  <2>1. modeWire' = <<autonomous>> \/ modeWire' = modeWire
    BY Zenon DEF RepublishState, RepublishMode
  <2>2. QED
    BY <1>1, <1>4, <1>5, <2>1, QueueOfOne, Zenon DEF NewsIsUnderWay
<1>9. WiresTellTruth'
  BY <1>2, <1>3, <1>4, <1>7, <1>8, Zenon DEF WiresTellTruth, QueueOf
<1>10. ViewIsRecent'
  BY <1>1, <1>2, <1>3, <1>6 DEF ViewIsRecent
<1>11. NewsIsUnderWay'
  BY <1>1, <1>3, <1>6, <1>7, <1>8, Zenon DEF NewsIsUnderWay, Last
<1>12. PlainTypeOK'
  BY <1>1, <1>3, Zenon DEF HistTypeOK, TypeOK, PlainTypeOK, States, Buttons, QueueOf
<1>13. QED
  BY <1>2, <1>9, <1>10, <1>11, <1>12, TypesFollow DEF JoyInv

\* When nothing is under way the node's view is the truth of the next period.
LEMMA PeriodStep ==
  ASSUME JoyInv, EndOfPeriod
  PROVE  JoyInv'
<1>1. HistTypeOK /\ WiresTellTruth /\ ViewIsRecent /\ NewsIsUnderWay
  BY DEF JoyInv
<1>2. /\ stateWire = << >> /\ modeWire = << >> /\ setState = << >>
      /\ was' = TrueNow' /\ heard' = IF heard = "now" THEN "before" ELSE heard
      /\ UNCHANGED <<state, autonomous, lastButtons, seenState, seenMode, stateWire, modeWire,
                     setState, setMode>>
  <2>1. UNCHANGED <<state, autonomous, lastButtons, seenState, seenMode, stateWire, modeWire,
                    setState, setMode>>
    BY Zenon DEF EndOfPeriod, vars, stateVars, viewVars, newsVars, commandVars
  <2>2. TrueNow' = TrueNow
    BY <2>1, Zenon DEF TrueNow
  <2>3. QED
    BY <2>1, <2>2, Zenon DEF EndOfPeriod
<1>3. /\ was' \subseteq {"disabled", "autonomous"} /\ heard' \in {"never", "now", "before"}
      /\ heard' # "never" => heard # "never"
  BY <1>1, <1>2 DEF HistTypeOK, TrueNow
<1>4. WiresTellTruth'
  <2>1. /\ stateWire' \in QueueOf(StatesTold') /\ modeWire' \in QueueOf(ModesTold')
        /\ setState' \in QueueOf(StatesWanted')
    BY <1>2, EmptyQueue
  <2>2. QED
    BY <1>2, <2>1, Zenon DEF WiresTellTruth, QueueOf
<1>5. ViewIsRecent'
  <2>1. seenMode' = TRUE => "autonomous" \in TrueNow'
    BY <1>1, <1>2 DEF NewsIsUnderWay, TrueNow
  <2>2. heard' # "never" /\ seenState' = "disabled" => "disabled" \in TrueNow'
    BY <1>1, <1>2, <1>3 DEF NewsIsUnderWay, TrueNow
  <2>3. QED
    BY <1>2, <2>1, <2>2 DEF ViewIsRecent
<1>6. NewsIsUnderWay'
  BY <1>1, <1>2, <1>3 DEF NewsIsUnderWay
<1>7. PlainTypeOK'
  BY <1>1, <1>2, Zenon DEF HistTypeOK, TypeOK, PlainTypeOK, States, Buttons, QueueOf
<1>8. QED
  BY <1>3, <1>4, <1>5, <1>6, <1>7, TypesFollow DEF JoyInv

LEMMA JoyInvariant == HSpec => []JoyInv
<1>1. HInit => JoyInv
  BY InitJoyInv
<1>2. JoyInv /\ [HNext]_hvars => JoyInv'
  <2> SUFFICES ASSUME JoyInv, [HNext]_hvars PROVE JoyInv'
    OBVIOUS
  <2>1. CASE HStep
    <3>1. ASSUME NEW down \in SUBSET Buttons, JoyCallback(down) PROVE JoyInv'
      BY <2>1, <3>1, JoyStep
    <3>2. CASE RobotStateCallback \/ AutonomousModeCallback
      BY <2>1, <3>2, StateNewsStep, ModeNewsStep
    <3>3. CASE OwnStep \/ SetStateSelector \/ SetModeSelector
      BY <2>1, <3>3, OwnJoyStep, StateCommandStep, ModeCommandStep
    <3>4. CASE RepublishState \/ RepublishMode
      BY <2>1, <3>4, RepublishStep
    <3>5. Next
      BY <2>1 DEF HStep
    <3>6. QED
      BY <3>1, <3>2, <3>3, <3>4, <3>5, Zenon DEF Next
  <2>2. CASE EndOfPeriod
    BY <2>2, PeriodStep
  <2>3. CASE UNCHANGED hvars
    <3>1. UNCHANGED <<state, autonomous, lastButtons, seenState, seenMode, stateWire, modeWire,
                      setState, setMode, was, heard>>
      BY <2>3, Zenon DEF hvars, vars, stateVars, viewVars, newsVars, commandVars
    <3>2. HistTypeOK'
      BY <3>1, Zenon DEF JoyInv, HistTypeOK, TypeOK, States, Buttons, QueueOf
    <3>3. WiresTellTruth'
      <4>1. /\ TrueNow' = TrueNow /\ StatesTold' = StatesTold /\ ModesTold' = ModesTold
            /\ StatesWanted' = StatesWanted
        BY <3>1, Zenon DEF TrueNow, StatesTold, ModesTold, StatesWanted, States
      <4>2. QED
        BY <3>1, <4>1, Zenon DEF JoyInv, WiresTellTruth, QueueOf
    <3>4. ViewIsRecent' /\ NewsIsUnderWay'
      BY <3>1, Zenon DEF JoyInv, ViewIsRecent, NewsIsUnderWay, Last
    <3>5. QED
      BY <3>2, <3>3, <3>4 DEF JoyInv
  <2>4. QED
    BY <2>1, <2>2, <2>3 DEF HNext
<1>3. QED
  BY <1>1, <1>2, PTL DEF HSpec

----------------------------------------------------------------------------
\* Every variable keeps its type; no queue grows beyond its depth
\* (joy_robot_state_machine.py 46-60).
THEOREM JoyTypeCorrect == HSpec => []TypeOK
<1>1. JoyInv => TypeOK
  BY DEF JoyInv, HistTypeOK
<1>2. QED
  BY <1>1, JoyInvariant, PTL

\* However the button, the news of the robot and the commands overtake one another,
\* a command that changes the robot has a reason that was true in the period of the
\* change (joy_robot_state_machine.py 64-118).
THEOREM CommandsAreRecent == HSpec => CommandsRestOnRecentTruth
<1>1. ASSUME JoyInv, [HNext]_hvars, SetStateSelector, state' # state
      PROVE  /\ state' = "active" => "autonomous" \in was
             /\ state' = "enabled" /\ heard = "before" => "disabled" \in was
  <2>1. setState # << >> /\ setState \in QueueOf(StatesWanted)
    BY <1>1 DEF SetStateSelector, JoyInv, WiresTellTruth
  <2>2. Head(setState) \in StatesWanted
    BY <2>1, TailOfQueue
  <2>3. \/ Head(setState) = "enabled" /\ state' = "enabled"
        \/ Head(setState) = "active" /\ state' = "active"
    BY <1>1 DEF SetStateSelector, Enable, Suspend, Activate, stateVars
  <2>4. QED
    BY <2>2, <2>3 DEF StatesWanted
<1>2. JoyInv /\ [HNext]_hvars =>
        [SetStateSelector /\ state' # state =>
           /\ state' = "active" => "autonomous" \in was
           /\ state' = "enabled" /\ heard = "before" => "disabled" \in was]_hvars
  BY <1>1, Zenon
<1>3. QED
  BY <1>2, JoyInvariant, PTL DEF HSpec, CommandsRestOnRecentTruth
============================================================================
