---------------------------- MODULE CCLineProofs ----------------------------
(***************************************************************************)
(* The reads of CCLine that wait without a limit: for any number of lines  *)
(* thrown on a stop and of deaths of the process, a line is on its way.    *)
(* Then the limits of the power, which GetE takes from an answer to E for  *)
(* any number of deaths, and the row, which answers itself if at most one  *)
(* death comes before it.                                                  *)
(***************************************************************************)
EXTENDS CCLine, SequenceTheorems, TLAPS

(* A COMPLETE. that is not the last line, nor among those that are read    *)
(* before it is waited for.                                                *)
CompleteAhead ==
  \E i \in (IF phase = "read" THEN 3 - got ELSE 1) .. (Len(line) - 1) : line[i] = Complete

(* What is still owed of the answers to the questions asked: at least the  *)
(* lines the exchange is going to read.                                    *)
Owed ==
  /\ phase = "ask" => got = 0
  /\ phase = "first" => step \in Timed /\ Len(line) >= Wanted(step)
  /\ phase = "read" =>
       /\ step \in Exchanges
       /\ got < Wanted(step) /\ Len(line) >= Wanted(step) - got
       /\ step = "PowerOff" => CompleteAhead
  /\ phase = "throw" => step = "PowerOff" /\ CompleteAhead
  /\ phase = "extra" => step = "PowerOff" /\ Len(line) >= 1

IInv == TypeOK /\ Owed
-----------------------------------------------------------------------------
(* The table of what follows what, and the exchanges. *)
LEMMA Tables ==
  /\ Exchanges \subseteq DOMAIN Follows
  /\ \A s \in DOMAIN Follows : Follows[s] \subseteq Steps
  /\ Timed \subseteq Exchanges /\ "PowerOff" \in Exchanges
  /\ "PowerOff" \notin Timed
  /\ "UpdateMysql" \in DOMAIN Follows
BY DEF Exchanges, Question, Follows, Steps, Timed, Polls

LEMMA AnswerIsLines ==
  ASSUME NEW x \in Exchanges
  PROVE  /\ Length(Question[x]) \in Nat
         /\ Answer(Question[x]) \in Seq(Lines)
         /\ Len(Answer(Question[x])) = Length(Question[x])
         /\ \A i \in 1 .. Length(Question[x]) : Answer(Question[x])[i] = <<Question[x], i>>
<1> DEFINE q == Question[x]
<1>1. q \in Questions
  BY DEF Questions
<1>2. Length(q) \in Nat /\ Length(q) <= Thrown + 4
  BY CCLineAssumption DEF Length
<1> HIDE DEF q
<1>3. Answer(q) \in [1 .. Length(q) -> Lines]
  BY <1>1, <1>2, CCLineAssumption DEF Answer, Lines
<1>4. Answer(q) \in Seq(Lines) /\ Len(Answer(q)) = Length(q)
  BY <1>2, <1>3
<1> QED BY <1>2, <1>4 DEF Answer, q

LEMMA WantedBounds ==
  ASSUME NEW x \in Exchanges
  PROVE  Wanted(x) \in 2 .. 4 /\ Wanted(x) <= Length(Question[x])
BY CCLineAssumption DEF Wanted, Length, Question, Exchanges

(* Reading one line: what is owed moves one line nearer. *)
LEMMA TakeOne ==
  ASSUME TypeOK, Take
  PROVE  /\ Len(line) \in Nat /\ Len(line) >= 1 /\ Head(line) \in Lines /\ Head(line) = line[1]
         /\ line' \in Seq(Lines) /\ Len(line') = Len(line) - 1
         /\ here' \in 0 .. Len(line')
         /\ \A i \in 1 .. Len(line') : line'[i] = line[i + 1]
BY HeadTailProperties DEF TypeOK, Take

LEMMA OneNearer ==
  ASSUME TypeOK, Take, NEW m \in Nat \ {0},
         \E i \in m .. (Len(line) - 1) : line[i] = Complete,
         m > 1 \/ Head(line) # Complete
  PROVE  \E i \in (IF m > 1 THEN m - 1 ELSE 1) .. (Len(line') - 1) : line'[i] = Complete
<1>1. PICK i \in m .. (Len(line) - 1) : line[i] = Complete
  OBVIOUS
<1>2. Head(line) = line[1] /\ Len(line) \in Nat /\ Len(line') = Len(line) - 1
  BY TakeOne
<1>3. i > 1
  BY <1>1, <1>2
<1>4. line'[i - 1] = Complete
  BY <1>1, <1>2, <1>3, TakeOne
<1>5. i - 1 \in (IF m > 1 THEN m - 1 ELSE 1) .. (Len(line') - 1)
  BY <1>1, <1>2, <1>3
<1> QED BY <1>4, <1>5

(* Where the exchange goes on, nothing is owed until it asks again. *)
LEMMA Onward ==
  ASSUME TypeOK, step \in DOMAIN Follows, Proceed
  PROVE  step' \in Steps /\ phase' = "ask" /\ got' = 0 /\ Owed'
<1>1. step' \in Steps /\ phase' = "ask" /\ got' = 0
  BY Tables DEF Proceed
<1> QED BY <1>1 DEF Owed

LEMMA Elsewhere ==
  ASSUME NEW s, Goes(s)
  PROVE  step' = s /\ phase' = "ask" /\ got' = 0 /\ Owed'
BY DEF Goes, Owed
-----------------------------------------------------------------------------
(* The constructor starts with nothing asked and nothing on the line. *)
THEOREM Initial == Init => IInv
<1> SUFFICES ASSUME Init PROVE IInv
  OBVIOUS
<1>1. line \in Seq(Lines) /\ here \in 0 .. Len(line)
  BY EmptySeq DEF Init
<1>2. kept \in [Fields -> Lines \cup {NoLine}]
  BY DEF Init, Nothing
<1>3. step \in Steps
  BY DEF Init, Steps, Follows
<1>4. TypeOK
  BY <1>1, <1>2, <1>3, CCLineAssumption DEF Init, Unset, TypeOK
<1>5. Owed
  BY DEF Init, Owed
<1> QED BY <1>4, <1>5 DEF IInv

LEMMA AskKeeps == IInv /\ Ask => IInv'
<1> SUFFICES ASSUME TypeOK, Owed, Ask PROVE TypeOK' /\ Owed'
  BY DEF IInv
<1> DEFINE q == Question[step]
           n == Length(q)
<1>1. step \in Exchanges /\ line \in Seq(Lines) /\ Len(line) \in Nat
  BY LenProperties DEF Ask, TypeOK
<1>2. /\ line' = line \o Answer(q)
      /\ phase' = IF step \in Timed THEN "first" ELSE "read"
      /\ UNCHANGED <<step, got, here, kept, Status, deaths>>
  BY DEF Ask
<1>3. /\ n \in Nat /\ Answer(q) \in Seq(Lines) /\ Len(Answer(q)) = n
      /\ \A i \in 1 .. n : Answer(q)[i] = <<q, i>>
  BY <1>1, AnswerIsLines
<1>4. /\ line' \in Seq(Lines) /\ Len(line') = Len(line) + n
      /\ \A i \in 1 .. n : line'[Len(line) + i] = <<q, i>>
  <2>1. \A i \in 1 .. Len(line) + n : line'[i] = IF i <= Len(line) THEN line[i]
                                                 ELSE Answer(q)[i - Len(line)]
    BY <1>1, <1>2, <1>3, ConcatProperties
  <2>2. line' \in Seq(Lines) /\ Len(line') = Len(line) + n
    BY <1>1, <1>2, <1>3, ConcatProperties
  <2>3. ASSUME NEW i \in 1 .. n PROVE line'[Len(line) + i] = <<q, i>>
    <3>1. /\ Len(line) + i \in 1 .. Len(line) + n
          /\ ~(Len(line) + i <= Len(line)) /\ Len(line) + i - Len(line) = i
      BY <1>1, <1>3
    <3> HIDE DEF q, n
    <3>2. line'[Len(line) + i] = Answer(q)[i]
      BY <2>1, <3>1
    <3> QED BY <1>3, <3>2
  <2> QED BY <2>2, <2>3
<1>5. TypeOK'
  BY <1>1, <1>2, <1>3, <1>4 DEF TypeOK
<1>6. step = "PowerOff" => \E i \in 3 .. (Len(line') - 1) : line'[i] = Complete
  <2> SUFFICES ASSUME step = "PowerOff"
               PROVE  \E i \in 3 .. (Len(line') - 1) : line'[i] = Complete
    OBVIOUS
  <2>1. q = "SSTOP=1" /\ n = Thrown + 4
    BY DEF Question, Length
  <2>2. line'[Len(line) + (Thrown + 3)] = Complete
    BY <1>4, <2>1, CCLineAssumption DEF Complete
  <2>3. Len(line) + (Thrown + 3) \in 3 .. (Len(line') - 1)
    BY <1>1, <1>4, <2>1, CCLineAssumption
  <2> QED BY <2>2, <2>3
<1>7. Wanted(step) \in 2 .. 4 /\ Wanted(step) <= n
  BY <1>1, WantedBounds
<1>8. Len(line') >= Wanted(step) /\ step' = step /\ got' = got
  BY <1>1, <1>2, <1>3, <1>4, <1>7
<1>9. CASE step \in Timed
  <2>1. Owed'
    BY <1>2, <1>8, <1>9 DEF Owed
  <2> QED BY <1>5, <2>1
<1>10. CASE step \notin Timed
  <2>1. phase' = "read" /\ got' = 0
    BY <1>2, <1>10 DEF Owed, Ask
  <2>2. step = "PowerOff" => CompleteAhead'
    BY <1>6, <2>1 DEF CompleteAhead
  <2>3. got' < Wanted(step) /\ Len(line') >= Wanted(step) - got'
    BY <1>1, <1>7, <1>8, <2>1
  <2>4. Owed'
    BY <1>1, <1>8, <2>1, <2>2, <2>3 DEF Owed
  <2> QED BY <1>5, <2>4
<1> QED BY <1>9, <1>10

LEMMA ReadKeeps == IInv /\ (FirstLine \/ ReadLine) => IInv'
<1>1. ASSUME TypeOK, Owed, FirstLine PROVE TypeOK' /\ Owed'
  <2>1. /\ step \in Timed /\ Len(line) >= Wanted(step) /\ step \in Exchanges
        /\ step # "PowerOff"
    BY <1>1, Tables DEF Owed, FirstLine
  <2>2. /\ phase' = "read" /\ got' = 1
        /\ UNCHANGED <<step, kept, Status, deaths>>
    BY <1>1 DEF FirstLine
  <2>3. /\ Len(line) \in Nat /\ line' \in Seq(Lines) /\ Len(line') = Len(line) - 1
        /\ here' \in 0 .. Len(line')
    BY <1>1, TakeOne DEF FirstLine
  <2>4. TypeOK'
    BY <1>1, <2>2, <2>3 DEF TypeOK
  <2>5. Wanted(step) \in 2 .. 4
    BY <2>1, WantedBounds
  <2>6. got' < Wanted(step) /\ Len(line') >= Wanted(step) - got'
    BY <2>1, <2>2, <2>3, <2>5
  <2>7. step' = step
    BY <2>2
  <2>8. Owed'
    BY <2>1, <2>2, <2>6, <2>7 DEF Owed, Wanted
  <2> QED BY <2>4, <2>8
<1>2. ASSUME TypeOK, Owed, ReadLine PROVE TypeOK' /\ Owed'
  <2>1. /\ step \in Exchanges /\ step \in DOMAIN Follows
        /\ got < Wanted(step) /\ Len(line) >= Wanted(step) - got
        /\ step = "PowerOff" => CompleteAhead
        /\ got \in 0 .. 3
    BY <1>2, Tables DEF Owed, ReadLine, TypeOK
  <2>2. /\ Len(line) \in Nat /\ Head(line) \in Lines
        /\ line' \in Seq(Lines) /\ Len(line') = Len(line) - 1
        /\ here' \in 0 .. Len(line')
    BY <1>2, TakeOne DEF ReadLine
  <2>3. kept' \in [Fields -> Lines \cup {NoLine}]
    BY <1>2, <2>2 DEF ReadLine, TypeOK
  <2>4. Status' = Status /\ deaths' = deaths /\ phase = "read" /\ Take /\ ReadOn
    BY <1>2 DEF ReadLine
  <2>5. Wanted(step) \in 2 .. 4 /\ (step = "PowerOff" => Wanted(step) = 2)
    BY <2>1, WantedBounds DEF Wanted
  <2>6. CASE got + 1 < Wanted(step)
    <3>1. step' = step /\ phase' = phase /\ got' = got + 1
      BY <2>4, <2>6 DEF ReadOn
    <3>2. TypeOK'
      BY <1>2, <2>1, <2>2, <2>3, <2>4, <2>5, <2>6, <3>1 DEF TypeOK
    <3>3. ASSUME step = "PowerOff" PROVE CompleteAhead'
      <4>1. got = 0 /\ got' = 1
        BY <2>1, <2>5, <2>6, <3>1, <3>3
      <4>2. \E i \in 3 .. (Len(line) - 1) : line[i] = Complete
        BY <2>1, <2>4, <3>3, <4>1 DEF CompleteAhead
      <4>3. \E i \in (IF 3 > 1 THEN 3 - 1 ELSE 1) .. (Len(line') - 1) : line'[i] = Complete
        <5> 3 \in Nat \ {0} /\ 3 > 1
          OBVIOUS
        <5> QED BY <1>2, <2>4, <4>2, OneNearer
      <4> QED BY <2>4, <3>1, <4>1, <4>3 DEF CompleteAhead
    <3>4. got' < Wanted(step') /\ Len(line') >= Wanted(step') - got'
      BY <2>1, <2>2, <2>5, <2>6, <3>1
    <3>5. Owed'
      BY <2>1, <2>4, <3>1, <3>3, <3>4 DEF Owed
    <3> QED BY <3>2, <3>5
  <2>7. CASE ~(got + 1 < Wanted(step)) /\ step = "PowerOff"
    <3>1. step' = step /\ phase' = "throw" /\ got' = 0
      BY <2>4, <2>7 DEF ReadOn
    <3>2. TypeOK'
      BY <1>2, <2>2, <2>3, <2>4, <3>1 DEF TypeOK
    <3>3. \E i \in 2 .. (Len(line) - 1) : line[i] = Complete
      <4>1. got = 1
        BY <2>1, <2>5, <2>7
      <4> QED BY <2>1, <2>4, <2>7, <4>1 DEF CompleteAhead
    <3>4. \E i \in (IF 2 > 1 THEN 2 - 1 ELSE 1) .. (Len(line') - 1) : line'[i] = Complete
      <4> 2 \in Nat \ {0} /\ 2 > 1
        OBVIOUS
      <4> QED BY <1>2, <2>4, <3>3, OneNearer
    <3>5. CompleteAhead'
      BY <3>1, <3>4 DEF CompleteAhead
    <3>6. Owed'
      BY <2>7, <3>1, <3>5 DEF Owed
    <3> QED BY <3>2, <3>6
  <2>8. CASE ~(got + 1 < Wanted(step)) /\ step # "PowerOff"
    <3>1. Proceed
      BY <2>4, <2>8 DEF ReadOn
    <3>2. step' \in Steps /\ phase' = "ask" /\ got' = 0 /\ Owed'
      BY <1>2, <2>1, <3>1, Onward
    <3>3. TypeOK'
      BY <1>2, <2>2, <2>3, <2>4, <3>2 DEF TypeOK
    <3> QED BY <3>2, <3>3
  <2> QED BY <2>6, <2>7, <2>8
<1> QED BY <1>1, <1>2 DEF IInv

(* Throwing lines away until COMPLETE. comes, and one line after it. *)
LEMMA ThrowKeeps == IInv /\ (Throw \/ ExtraLine) => IInv'
<1>1. ASSUME TypeOK, Owed, Throw PROVE TypeOK' /\ Owed'
  <2>1. /\ step = "PowerOff" /\ phase = "throw" /\ Take
        /\ phase' = IF Head(line) = Complete THEN "extra" ELSE "throw"
        /\ UNCHANGED <<step, got, kept, Status, deaths>>
    BY <1>1 DEF Throw, Owed
  <2>2. /\ Len(line) \in Nat /\ line' \in Seq(Lines) /\ Len(line') = Len(line) - 1
        /\ here' \in 0 .. Len(line')
    BY <1>1, <2>1, TakeOne
  <2>3. TypeOK'
    BY <1>1, <2>1, <2>2 DEF TypeOK
  <2>4. \E i \in 1 .. (Len(line) - 1) : line[i] = Complete
    BY <1>1, <2>1 DEF Owed, CompleteAhead
  <2>5. Len(line') >= 1
    BY <2>2, <2>4
  <2>6. ASSUME Head(line) # Complete PROVE CompleteAhead'
    <3>1. \E i \in (IF 1 > 1 THEN 1 - 1 ELSE 1) .. (Len(line') - 1) : line'[i] = Complete
      <4> 1 \in Nat \ {0}
        OBVIOUS
      <4> QED BY <1>1, <2>1, <2>4, <2>6, OneNearer
    <3> QED BY <2>1, <2>6, <3>1 DEF CompleteAhead
  <2>7. Owed'
    BY <2>1, <2>5, <2>6 DEF Owed
  <2> QED BY <2>3, <2>7
<1>2. ASSUME TypeOK, Owed, ExtraLine PROVE TypeOK' /\ Owed'
  <2>1. step = "PowerOff" /\ Take /\ Proceed /\ UNCHANGED <<kept, Status, deaths>>
    BY <1>2 DEF ExtraLine, Owed
  <2>2. step' \in Steps /\ phase' = "ask" /\ got' = 0 /\ Owed'
    BY <1>2, <2>1, Onward, Tables
  <2>3. line' \in Seq(Lines) /\ here' \in 0 .. Len(line')
    BY <1>2, <2>1, TakeOne
  <2>4. TypeOK'
    BY <1>2, <2>1, <2>2, <2>3 DEF TypeOK
  <2> QED BY <2>2, <2>4
<1> QED BY <1>1, <1>2 DEF IInv

(* An exchange given up: nobody waited for it, or its line did not parse. *)
LEMMA GiveUpKeeps == IInv /\ (TimesOut \/ Unparsed) => IInv'
<1> SUFFICES ASSUME TypeOK, Owed, TimesOut \/ Unparsed PROVE TypeOK' /\ Owed'
  BY DEF IInv
<1>1. step \in DOMAIN Follows
  BY Tables DEF TimesOut, Unparsed, Owed
<1>2. /\ Goes("Loop") \/ Proceed
      /\ Status' \in {-1, -2} \/ Status' = Status
      /\ UNCHANGED <<kept, deaths>>
  BY DEF TimesOut, Unparsed
<1>3. line' \in Seq(Lines) /\ here' \in 0 .. Len(line')
  <2>1. CASE TimesOut
    BY <2>1 DEF TimesOut, TypeOK
  <2>2. CASE Unparsed
    BY <2>2, TakeOne DEF Unparsed
  <2> QED BY <2>1, <2>2
<1>4. step' \in Steps /\ phase' = "ask" /\ got' = 0 /\ Owed'
  <2>1. "Loop" \in Steps
    BY DEF Steps
  <2> QED BY <1>1, <1>2, <2>1, Onward, Elsewhere
<1>5. TypeOK'
  BY <1>2, <1>3, <1>4 DEF TypeOK
<1> QED BY <1>4, <1>5

(* The loop between the exchanges, the resets, the deaths and the cooler. *)
LEMMA LoopKeeps ==
  IInv /\ (UpdateMysql \/ LoopAgain \/ Reset \/ Die \/ Start \/ Arrive) => IInv'
<1> SUFFICES ASSUME TypeOK, Owed,
                    UpdateMysql \/ LoopAgain \/ Reset \/ Die \/ Start \/ Arrive
             PROVE  TypeOK' /\ Owed'
  BY DEF IInv
<1>1. line \in Seq(Lines) /\ Len(line) \in Nat /\ here \in 0 .. Len(line)
  BY LenProperties DEF TypeOK
<1>2. CASE Arrive
  <2>1. here < Len(line) /\ here' = here + 1
        /\ UNCHANGED <<step, phase, got, line, kept, Status, deaths>>
    BY <1>2 DEF Arrive
  <2>2. TypeOK'
    BY <1>1, <2>1 DEF TypeOK
  <2>3. Owed'
    BY <2>1 DEF Owed, CompleteAhead
  <2> QED BY <2>2, <2>3
<1>3. CASE UpdateMysql
  <2>1. step = "UpdateMysql" /\ Proceed /\ deaths' = 0 /\ UNCHANGED <<line, here, kept, Status>>
    BY <1>3 DEF UpdateMysql
  <2>2. step' \in Steps /\ phase' = "ask" /\ got' = 0 /\ Owed'
    BY <2>1, Onward, Tables
  <2>3. TypeOK'
    BY <1>1, <2>1, <2>2, CCLineAssumption DEF TypeOK
  <2> QED BY <2>2, <2>3
<1>4. CASE LoopAgain \/ Die
  <2>1. /\ Goes("GetTC") \/ Goes("dead")
        /\ deaths' = deaths \/ (deaths < MaxDeaths /\ deaths' = deaths + 1)
        /\ UNCHANGED <<line, here, kept, Status>>
    BY <1>4 DEF LoopAgain, Die
  <2>2. step' \in Steps /\ phase' = "ask" /\ got' = 0 /\ Owed'
    <3>1. "GetTC" \in Steps /\ "dead" \in Steps
      BY DEF Steps, Follows
    <3> QED BY <2>1, <3>1, Elsewhere
  <2>3. deaths' \in 0 .. MaxDeaths
    BY <2>1, CCLineAssumption DEF TypeOK
  <2>4. TypeOK'
    BY <1>1, <2>1, <2>2, <2>3 DEF TypeOK
  <2> QED BY <2>2, <2>4
<1>5. CASE Reset \/ Start
  <2>1. /\ Goes("Construct") /\ Flushed /\ kept' = Nothing
        /\ Status' = Status \/ Status' \in {0, -1}
        /\ deaths' = deaths
    BY <1>5 DEF Reset, Start, Unset
  <2>2. step' \in Steps /\ phase' = "ask" /\ got' = 0 /\ Owed'
    <3>1. "Construct" \in Steps
      BY DEF Steps, Follows
    <3> QED BY <2>1, <3>1, Elsewhere
  <2>3. line' \in Seq(Lines) /\ here' \in 0 .. Len(line')
    <3>1. line' = SubSeq(line, here + 1, Len(line)) /\ here' = 0
      BY <2>1 DEF Flushed
    <3>2. \A i \in (here + 1) .. Len(line) : line[i] \in Lines
      BY <1>1, ElementOfSeq
    <3>3. here + 1 \in Int /\ Len(line) \in Int
      BY <1>1
    <3>4. line' \in Seq(Lines)
      BY <3>1, <3>2, <3>3, SubSeqProperties
    <3> QED BY <3>1, <3>4, LenProperties
  <2>4. kept' \in [Fields -> Lines \cup {NoLine}]
    BY <2>1 DEF Nothing
  <2>5. TypeOK'
    BY <2>1, <2>2, <2>3, <2>4 DEF TypeOK
  <2> QED BY <2>2, <2>5
<1> QED BY <1>2, <1>3, <1>4, <1>5

LEMMA Inductive == IInv /\ [Next]_vars => IInv'
<1>1. IInv /\ Next => IInv'
  BY AskKeeps, ReadKeeps, ThrowKeeps, GiveUpKeeps, LoopKeeps DEF Next
<1>2. IInv /\ UNCHANGED vars => IInv'
  BY DEF vars, IInv, TypeOK, Owed, CompleteAhead
<1> QED BY <1>1, <1>2

(* The lines that every exchange of ReadLine waits for are on their way. *)
THEOREM Invariant == Spec => []IInv
BY Initial, Inductive, PTL DEF Spec

(* The places of the loop and the lines of the line, for any number of     *)
(* lines that ReadLineThrowR throws away.                                  *)
THEOREM TypeCorrect == Spec => []TypeOK
<1>1. IInv => TypeOK
  BY DEF IInv
<1> QED BY <1>1, Invariant, PTL

(* ReadLine and ReadLineThrowR, which have no time limit, are only called  *)
(* when another line is on its way, however the answers are shifted.       *)
THEOREM NeverInVain == Spec => []NeverWaitsInVain
<1>1. IInv => NeverWaitsInVain
  <2> SUFFICES ASSUME TypeOK, Owed, phase \in {"read", "throw", "extra"}
               PROVE  line # <<>>
    BY DEF IInv, NeverWaitsInVain
  <2>1. line \in Seq(Lines) /\ Len(line) \in Nat /\ got \in 0 .. 3
    BY LenProperties DEF TypeOK
  <2>2. CASE phase = "read"
    <3>1. Wanted(step) \in 2 .. 4 /\ got < Wanted(step) /\ Len(line) >= Wanted(step) - got
      BY <2>2, WantedBounds DEF Owed
    <3>2. Len(line) >= 1
      BY <2>1, <3>1
    <3> QED BY <2>1, <3>2, EmptySeq
  <2>3. CASE phase = "throw"
    <3>1. \E i \in 1 .. (Len(line) - 1) : line[i] = Complete
      BY <2>3 DEF Owed, CompleteAhead
    <3>2. Len(line) >= 1
      BY <2>1, <3>1
    <3> QED BY <2>1, <3>2, EmptySeq
  <2>4. CASE phase = "extra"
    BY <2>1, <2>4, EmptySeq DEF Owed
  <2> QED BY <2>2, <2>3, <2>4
<1> QED BY <1>1, Invariant, PTL
-----------------------------------------------------------------------------
(***************************************************************************)
(* The limits of the cooler's power.  The lines of the line follow each    *)
(* other as the answers do, whatever is missing in front: so three numbers *)
(* in a row, which GetE needs, are those of an answer to E.                *)
(***************************************************************************)
(* What comes after a line: the next one of its answer, or an echo. *)
Linked(a, b) == b[2] = 1 \/ (b[1] = a[1] /\ b[2] = a[2] + 1)
Chained ==
  /\ \A i \in 1 .. Len(line) : line[i][2] <= Length(line[i][1])
  /\ \A i \in 1 .. Len(line) - 1 : Linked(line[i], line[i + 1])

(* The answer to the question asked comes last. *)
OwnLast ==
  /\ phase = "first" => got = 0
  /\ phase \in {"first", "read"} =>
       \A j \in 1 .. Length(Question[step]) :
         LET i == Len(line) - Length(Question[step]) + j
         IN  i >= 1 => line[i] = <<Question[step], j>>

(* The values GetE has read follow each other, and the next line them; what *)
(* it leaves are the limits of an answer to E.                              *)
Number(l) == TRUE \in Parses(l)
EChain ==
  step = "GetE" =>
    /\ got >= 2 => Number(kept.PMax)
    /\ got = 2 => Linked(kept.PMax, line[1])
    /\ got = 3 => /\ Number(kept.PMin) /\ Linked(kept.PMax, kept.PMin)
                  /\ Linked(kept.PMin, line[1])
LimitsLeft ==
  step \in (Exchanges \ {"Construct", "GetTC", "GetP", "GetE"}) \cup {"UpdateMysql"} =>
    kept.PMax = <<"E", 2>> /\ kept.PMin = <<"E", 3>>

Lined == Chained /\ OwnLast /\ EChain /\ LimitsLeft
-----------------------------------------------------------------------------
(* No line of an answer to q; the k-th line of an answer to E among the    *)
(* first k + n.                                                            *)
NoneOf(q) == \A i \in 1 .. Len(line) : line[i][1] # q
Within(n) == \A i \in 1 .. Len(line) : line[i][1] = "E" => i <= line[i][2] + n

(* The line without its first k lines. *)
Without(k) == /\ k \in 0 .. Len(line) /\ Len(line') = Len(line) - k
              /\ \A i \in 1 .. Len(line') : line'[i] = line[i + k]

(* The flush throws away what has arrived, a read one line. *)
LEMMA FlushedSome ==
  ASSUME TypeOK, Flushed
  PROVE  Without(here)
<1>1. /\ line \in Seq(Lines) /\ Len(line) \in Nat /\ here \in 0 .. Len(line)
      /\ line' = SubSeq(line, here + 1, Len(line))
  BY LenProperties DEF TypeOK, Flushed
<1>2. \A i \in (here + 1) .. Len(line) : line[i] \in Lines
  BY <1>1, ElementOfSeq
<1>3. here + 1 \in Int /\ Len(line) \in Int
  BY <1>1
<1>4. /\ Len(line') = IF here + 1 <= Len(line) THEN Len(line) - (here + 1) + 1 ELSE 0
      /\ \A i \in 1 .. (Len(line) - (here + 1) + 1) : line'[i] = line[(here + 1) + i - 1]
  BY <1>1, <1>2, <1>3, SubSeqProperties
<1>5. Len(line') = Len(line) - here
  BY <1>1, <1>4
<1>6. ASSUME NEW i \in 1 .. Len(line') PROVE line'[i] = line[i + here]
  <2>1. i \in 1 .. (Len(line) - (here + 1) + 1) /\ (here + 1) + i - 1 = i + here
    BY <1>1, <1>5
  <2> QED BY <1>4, <2>1
<1> QED BY <1>1, <1>5, <1>6 DEF Without

LEMMA TakenOne ==
  ASSUME TypeOK, Take
  PROVE  Without(1)
BY TakeOne DEF Without

LEMMA SameLine ==
  ASSUME TypeOK, line' = line
  PROVE  Without(0)
<1>1. Len(line) \in Nat
  BY LenProperties DEF TypeOK
<1> QED BY <1>1 DEF Without

(* What is true of all lines stays true of those that are left. *)
LEMMA LeftOver ==
  ASSUME TypeOK, NEW k, Without(k)
  PROVE  /\ Chained => Chained'
         /\ \A q : NoneOf(q) => NoneOf(q)'
         /\ \A n \in Int : Within(n) => \A m \in Int : m >= n - k => Within(m)'
<1>1. /\ Len(line) \in Nat /\ Len(line') \in Nat /\ k \in 0 .. Len(line)
      /\ Len(line') = Len(line) - k
      /\ \A i \in 1 .. Len(line') : line'[i] = line[i + k] /\ i + k \in 1 .. Len(line)
      /\ \A i \in 1 .. Len(line) : line[i][2] \in Nat
  BY LenProperties, ElementOfSeq, CCLineAssumption DEF TypeOK, Without, Lines
<1>2. Chained => Chained'
  <2> SUFFICES ASSUME Chained PROVE Chained'
    OBVIOUS
  <2>1. ASSUME NEW i \in 1 .. Len(line') PROVE line'[i][2] <= Length(line'[i][1])
    BY <1>1, <2>1 DEF Chained
  <2>2. ASSUME NEW i \in 1 .. Len(line') - 1 PROVE Linked(line'[i], line'[i + 1])
    <3>1. i \in 1 .. Len(line') /\ i + 1 \in 1 .. Len(line')
      BY <1>1
    <3>2. i + k \in 1 .. Len(line) - 1 /\ (i + 1) + k = (i + k) + 1
      BY <1>1
    <3>3. line'[i] = line[i + k] /\ line'[i + 1] = line[(i + k) + 1]
      BY <1>1, <3>1, <3>2
    <3> QED BY <3>2, <3>3 DEF Chained
  <2> QED BY <2>1, <2>2 DEF Chained, Linked
<1>3. ASSUME NEW q, NoneOf(q) PROVE NoneOf(q)'
  BY <1>1, <1>3 DEF NoneOf
<1>4. ASSUME NEW n \in Int, Within(n), NEW m \in Int, m >= n - k PROVE Within(m)'
  BY <1>1, <1>4 DEF Within
<1> QED BY <1>2, <1>3, <1>4

(* The answer is put behind the lines of the line. *)
LEMMA Asked ==
  ASSUME TypeOK, Owed, Ask
  PROVE  LET q == Question[step] IN
         /\ step \in Exchanges /\ phase = "ask" /\ got = 0 /\ step' = step /\ got' = 0
         /\ phase' = IF step \in Timed THEN "first" ELSE "read"
         /\ kept' = kept /\ Status' = Status /\ deaths' = deaths
         /\ Len(line) \in Nat /\ Length(q) \in Nat /\ Length(q) >= 2
         /\ Len(line') = Len(line) + Length(q)
         /\ \A i \in 1 .. Len(line) : line'[i] = line[i]
         /\ \A i \in 1 .. Len(line') : i > Len(line) => line'[i] = <<q, i - Len(line)>>
<1> DEFINE q == Question[step]
           n == Length(q)
<1>1. step \in Exchanges /\ line \in Seq(Lines) /\ Len(line) \in Nat
  BY LenProperties DEF Ask, TypeOK
<1>2. /\ n \in Nat /\ Answer(q) \in Seq(Lines) /\ Len(Answer(q)) = n
      /\ \A i \in 1 .. n : Answer(q)[i] = <<q, i>>
  BY <1>1, AnswerIsLines
<1>3. n >= 2
  BY <1>1, <1>2, WantedBounds
<1>4. /\ Len(line') = Len(line) + n
      /\ \A i \in 1 .. Len(line) + n : line'[i] = IF i <= Len(line) THEN line[i]
                                                   ELSE Answer(q)[i - Len(line)]
  BY <1>1, <1>2, ConcatProperties DEF Ask
<1>5. /\ phase = "ask" /\ got = 0 /\ step' = step /\ got' = 0
      /\ phase' = IF step \in Timed THEN "first" ELSE "read"
      /\ kept' = kept /\ Status' = Status /\ deaths' = deaths
  BY DEF Ask, Owed
<1> HIDE DEF n, q
<1>6. \A i \in 1 .. Len(line) : line'[i] = line[i]
  BY <1>1, <1>2, <1>4
<1>7. ASSUME NEW i \in 1 .. Len(line'), i > Len(line) PROVE line'[i] = <<q, i - Len(line)>>
  BY <1>1, <1>2, <1>4, <1>7
<1> QED BY <1>1, <1>2, <1>3, <1>4, <1>5, <1>6, <1>7 DEF n, q

(* The steps by what they do to the exchange: a line of it is read, the    *)
(* last one is, it is given up by a poll (the pass ends) or by another     *)
(* exchange (the pass goes on), and lines of a stop are thrown away.       *)
Keeps == UNCHANGED <<Status, deaths>>
More == /\ phase \in {"first", "read"} /\ Take /\ phase' = "read"
        /\ step' = step /\ got' = got + 1 /\ got' < Wanted(step) /\ Keeps
        /\ \/ phase = "first" /\ got' = 1 /\ kept' = kept
           \/ phase = "read" /\ ReadLine
LastLine == /\ phase = "read" /\ ReadLine /\ Proceed /\ Keeps
            /\ step \in Exchanges \ {"PowerOff"} /\ got = Wanted(step) - 1
GivenUp == /\ step \in Polls \ {"checkIfON"} \/ (step = "checkIfON" /\ phase = "first")
           /\ phase \in {"first", "read"}
           /\ Goes("Loop") /\ Status' # 0 /\ UNCHANGED <<kept, deaths>>
PassedBy == /\ step \in {"GetPIDState", "SetCryoMode", "ShutdownCheck"} /\ Proceed
            /\ \/ phase = "first" /\ line' = line
               \/ phase = "read" /\ got = 1 /\ Take
            /\ Keeps /\ kept' = kept
Stops == /\ step = "PowerOff" /\ step' = step /\ Take /\ Keeps /\ kept' = kept
         /\ \/ phase = "read" /\ phase' = "throw"
            \/ /\ phase = "throw"
               /\ phase' = IF Head(line) = Complete THEN "extra" ELSE "throw"
Stopped == /\ step = "PowerOff" /\ phase = "extra" /\ Take /\ Proceed /\ Keeps /\ kept' = kept
Rests == \/ UpdateMysql \/ LoopAgain \/ Die

LEMMA Moves ==
  ASSUME IInv, OwnLast, Next
  PROVE  \/ Ask \/ UNCHANGED <<step, phase, got, line, kept, Status, deaths>>
         \/ More \/ LastLine \/ GivenUp \/ PassedBy \/ Stops \/ Stopped
         \/ Rests \/ Reset \/ Start
<1>1. TypeOK /\ Owed
  BY DEF IInv
<1>2. CASE FirstLine
  <2>1. step \in Timed /\ step \in Exchanges
    BY <1>1, <1>2, Tables DEF Owed, FirstLine
  <2>2. Wanted(step) \in 2 .. 4
    BY <2>1, WantedBounds
  <2>3. got = 0
    BY <1>2 DEF OwnLast, FirstLine
  <2> QED BY <1>2, <2>2, <2>3 DEF FirstLine, More, Keeps
<1>3. CASE ReadLine
  <2>1. /\ step \in Exchanges /\ got < Wanted(step) /\ got \in 0 .. 3
        /\ Wanted(step) \in 2 .. 4 /\ phase = "read" /\ Take /\ ReadOn
        /\ UNCHANGED <<Status, deaths>>
    BY <1>1, <1>3, WantedBounds DEF Owed, ReadLine, TypeOK
  <2>2. CASE got + 1 < Wanted(step)
    BY <1>3, <2>1, <2>2 DEF ReadOn, More, Keeps
  <2>3. CASE ~(got + 1 < Wanted(step)) /\ step = "PowerOff"
    <3>1. kept' = kept
      BY <1>1, <1>3, <2>3 DEF ReadLine, Sets, TypeOK
    <3> QED BY <2>1, <2>3, <3>1 DEF ReadOn, Stops, Keeps
  <2>4. CASE ~(got + 1 < Wanted(step)) /\ step # "PowerOff"
    BY <1>3, <2>1, <2>4 DEF ReadOn, LastLine, Keeps
  <2> QED BY <2>2, <2>3, <2>4
<1>4. CASE TimesOut
  BY <1>1, <1>4 DEF TimesOut, Owed, Timed, Polls, GivenUp, PassedBy, Keeps
<1>5. CASE Unparsed
  <2>1. /\ step \in Exchanges /\ got < Wanted(step) /\ got \in 0 .. 3
        /\ phase = "read" /\ Take /\ Sets(step, got + 1) # {}
        /\ step \notin {"checkIfON", "PowerOn"}
        /\ UNCHANGED <<kept, deaths>>
    BY <1>1, <1>5 DEF Owed, Unparsed, TypeOK
  <2>2. CASE step \in LooksAt
    BY <1>5, <2>1, <2>2 DEF Unparsed, GivenUp, LooksAt, Polls
  <2>3. CASE step \notin LooksAt
    <3>1. step \in {"GetPIDState", "SetCryoMode", "ShutdownCheck"}
      BY <2>1, <2>3 DEF LooksAt, Sets
    <3>2. got = 1
      BY <2>1, <3>1 DEF Wanted, Sets
    <3> QED BY <1>5, <2>1, <2>3, <3>1, <3>2 DEF Unparsed, PassedBy, Keeps
  <2> QED BY <2>2, <2>3
<1>6. CASE Throw \/ ExtraLine
  BY <1>1, <1>6 DEF Throw, ExtraLine, Owed, Stops, Stopped, Keeps
<1>7. CASE UpdateMysql \/ LoopAgain \/ Die \/ Reset \/ Start \/ Ask
  BY <1>7 DEF Rests
<1>8. CASE Arrive
  BY <1>8 DEF Arrive
<1> QED BY <1>2, <1>3, <1>4, <1>5, <1>6, <1>7, <1>8 DEF Next

(* Where the drone is after a step, and which lines are left. *)
LEMMA LinesLeft ==
  ASSUME IInv, OwnLast, Next, ~Ask
  PROVE  \E k : Without(k)
<1>1. TypeOK
  BY DEF IInv
<1>2. CASE line' = line
  BY <1>1, <1>2, SameLine
<1>3. CASE Take
  BY <1>1, <1>3, TakenOne
<1>4. CASE Flushed
  BY <1>1, <1>4, FlushedSome
<1>5. line' = line \/ Take \/ Flushed
  BY Moves DEF More, LastLine, ReadLine, GivenUp, PassedBy, Stops, Stopped, Rests,
     UpdateMysql, LoopAgain, Die, Reset, Start, Next, Arrive, FirstLine, TimesOut,
     Unparsed, Throw, ExtraLine
<1> QED BY <1>2, <1>3, <1>4, <1>5

(* What a line read is kept as. *)
LEMMA KeptAs ==
  ASSUME TypeOK, ReadLine
  PROVE  \A f \in Fields : kept'[f] = IF f \in Sets(step, got + 1) THEN Head(line) ELSE kept[f]
BY DEF ReadLine

(* A line that the exchange goes on after is the first, or one of GetE.    *)
LEMMA KeptInside ==
  ASSUME IInv, OwnLast, More
  PROVE  \A f \in Fields : kept'[f] = kept[f]
           \/ (step = "GetE" /\ f \in {"PMax", "PMin"})
<1>1. TypeOK /\ Owed /\ got \in 0 .. 3 /\ got + 1 < Wanted(step)
  BY DEF IInv, TypeOK, More
<1>2. CASE kept' = kept
  BY <1>2
<1>3. CASE ReadLine
  <2>1. Sets(step, got + 1) \subseteq (IF step = "GetE" THEN {"PMax", "PMin"} ELSE {})
    BY <1>1 DEF Sets, Wanted
  <2> QED BY <1>1, <1>3, <2>1, KeptAs
<1> QED BY <1>2, <1>3 DEF More

(* The lines of an answer stay in a row: only the first lines ever leave. *)
LEMMA ChainedKept == IInv /\ Lined /\ Next => Chained'
<1> SUFFICES ASSUME IInv, Lined, Next PROVE Chained'
  OBVIOUS
<1>1. TypeOK /\ Owed /\ OwnLast /\ Chained
  BY DEF IInv, Lined
<1>2. CASE ~Ask
  <2>1. PICK k : Without(k)
    BY <1>1, <1>2, LinesLeft
  <2> QED BY <1>1, <2>1, LeftOver
<1>3. CASE Ask
  <2> DEFINE q == Question[step]
  <2>1. /\ Len(line) \in Nat /\ Length(q) \in Nat
        /\ Len(line') = Len(line) + Length(q)
        /\ \A i \in 1 .. Len(line) : line'[i] = line[i]
        /\ \A i \in 1 .. Len(line') : i > Len(line) => line'[i] = <<q, i - Len(line)>>
    BY <1>1, <1>3, Asked
  <2>2. /\ \A i \in 1 .. Len(line) : line[i][2] <= Length(line[i][1])
        /\ \A i \in 1 .. Len(line) - 1 : Linked(line[i], line[i + 1])
    BY <1>1 DEF Chained
  <2> HIDE DEF q
  <2>3. ASSUME NEW i \in 1 .. Len(line') PROVE line'[i][2] <= Length(line'[i][1])
    <3>1. CASE i <= Len(line)
      <4>1. i \in 1 .. Len(line)
        BY <2>1, <3>1
      <4> QED BY <2>1, <2>2, <4>1
    <3>2. CASE i > Len(line)
      <4>1. line'[i] = <<q, i - Len(line)>> /\ i - Len(line) <= Length(q)
        BY <2>1, <3>2
      <4> QED BY <4>1
    <3> QED BY <2>1, <3>1, <3>2
  <2>4. ASSUME NEW i \in 1 .. Len(line') - 1 PROVE Linked(line'[i], line'[i + 1])
    <3>1. CASE i < Len(line)
      <4>1. i \in 1 .. Len(line) - 1 /\ i \in 1 .. Len(line) /\ i + 1 \in 1 .. Len(line)
        BY <2>1, <3>1
      <4> QED BY <2>1, <2>2, <4>1
    <3>2. CASE i = Len(line)
      <4>1. i + 1 \in 1 .. Len(line') /\ i + 1 > Len(line) /\ (i + 1) - Len(line) = 1
        BY <2>1, <3>2
      <4>2. line'[i + 1] = <<q, 1>>
        BY <2>1, <4>1
      <4> QED BY <4>2 DEF Linked
    <3>3. CASE i > Len(line)
      <4>1. /\ i \in 1 .. Len(line') /\ i + 1 \in 1 .. Len(line') /\ i + 1 > Len(line)
            /\ (i + 1) - Len(line) = (i - Len(line)) + 1
        BY <2>1, <3>3
      <4>2. line'[i] = <<q, i - Len(line)>> /\ line'[i + 1] = <<q, (i - Len(line)) + 1>>
        BY <2>1, <3>3, <4>1
      <4> QED BY <4>2 DEF Linked
    <3> QED BY <2>1, <3>1, <3>2, <3>3
  <2> QED BY <2>3, <2>4 DEF Chained, Linked
<1> QED BY <1>2, <1>3

(* Nothing comes onto the line behind the answer to the question asked. *)
LEMMA OwnLastKept == IInv /\ Lined /\ Next => OwnLast'
<1> SUFFICES ASSUME IInv, Lined, Next PROVE OwnLast'
  OBVIOUS
<1>1. TypeOK /\ Owed /\ OwnLast
  BY DEF IInv, Lined
<1>2. CASE Ask
  <2> DEFINE n == Length(Question[step])
  <2>1. /\ Len(line) \in Nat /\ n \in Nat
        /\ Len(line') = Len(line) + n /\ step' = step /\ got' = 0
        /\ \A i \in 1 .. Len(line') : i > Len(line) => line'[i] = <<Question[step], i - Len(line)>>
    BY <1>1, <1>2, Asked
  <2> HIDE DEF n
  <2>2. ASSUME NEW j \in 1 .. n PROVE line'[(Len(line') - n) + j] = <<Question[step], j>>
    <3>1. /\ (Len(line') - n) + j \in 1 .. Len(line') /\ (Len(line') - n) + j > Len(line)
          /\ ((Len(line') - n) + j) - Len(line) = j
      BY <2>1
    <3> QED BY <2>1, <3>1
  <2> QED BY <2>1, <2>2 DEF OwnLast, n
<1>3. CASE UNCHANGED <<step, phase, got, line, kept, Status, deaths>>
  BY <1>1, <1>3 DEF OwnLast
<1>4. CASE More
  <2> DEFINE n == Length(Question[step])
  <2>1. /\ step \in Exchanges /\ step' = step /\ phase' = "read" /\ phase \in {"first", "read"}
        /\ Without(1)
    BY <1>1, <1>4, TakenOne, Tables DEF More, Owed
  <2>2. n \in Nat /\ Len(line) \in Nat /\ Len(line') = Len(line) - 1 /\ Len(line') \in Nat
        /\ \A i \in 1 .. Len(line') : line'[i] = line[i + 1]
    BY <1>1, <2>1, AnswerIsLines, LenProperties DEF Without, TypeOK
  <2>3. \A j \in 1 .. n : (Len(line) - n) + j >= 1
                            => line[(Len(line) - n) + j] = <<Question[step], j>>
    BY <1>1, <2>1 DEF OwnLast
  <2> HIDE DEF n
  <2>4. ASSUME NEW j \in 1 .. n, (Len(line') - n) + j >= 1
        PROVE  line'[(Len(line') - n) + j] = <<Question[step], j>>
    <3>1. /\ (Len(line') - n) + j \in 1 .. Len(line')
          /\ ((Len(line') - n) + j) + 1 = (Len(line) - n) + j /\ (Len(line) - n) + j >= 1
      BY <2>2, <2>4
    <3> QED BY <2>2, <2>3, <3>1
  <2> QED BY <2>1, <2>4 DEF OwnLast, n
<1>5. CASE phase' \notin {"first", "read"}
  BY <1>5 DEF OwnLast
<1>6. \/ Ask \/ UNCHANGED <<step, phase, got, line, kept, Status, deaths>> \/ More
      \/ phase' \notin {"first", "read"}
  BY <1>1, Moves DEF LastLine, GivenUp, PassedBy, Stops, Stopped, Rests,
     UpdateMysql, LoopAgain, Die, Reset, Start, Goes, Proceed
<1> QED BY <1>2, <1>3, <1>4, <1>5, <1>6

(* Three numbers that follow each other: only an answer to E has them. *)
LEMMA ThreeNumbers ==
  ASSUME NEW a \in Lines \cup {NoLine}, NEW b \in Lines \cup {NoLine}, NEW c \in Lines,
         Number(a), Number(b), Number(c), Linked(a, b), Linked(b, c),
         c[2] <= Length(c[1])
  PROVE  a = <<"E", 2>> /\ b = <<"E", 3>> /\ c = <<"E", 4>>
<1>1. a[2] \in Nat /\ b[2] \in Nat /\ c[2] \in Nat
  BY CCLineAssumption DEF Lines, NoLine
<1>2. a[2] # 1 /\ b[2] # 1 /\ c[2] # 1
  <2>1. ASSUME NEW l, Number(l) PROVE l[2] # 1
    BY <2>1 DEF Number, Parses
  <2> QED BY <2>1
<1>3. b[1] = a[1] /\ b[2] = a[2] + 1 /\ c[1] = b[1] /\ c[2] = b[2] + 1
  BY <1>2 DEF Linked
<1>4. a[2] # 0
  BY <1>1, <1>2, <1>3
<1>5. a \in Lines /\ b \in Lines
  <2>1. NoLine[2] = 0
    BY DEF NoLine
  <2>2. a # NoLine /\ b # NoLine
    BY <1>1, <1>3, <1>4, <2>1
  <2> QED BY <2>2
<1>6. c[2] >= 4
  BY <1>1, <1>2, <1>3, <1>4
<1>7. c[1] # "SSTOP=1"
  <2>1. c[2] > 2
    BY <1>1, <1>6
  <2>2. ASSUME c[1] = "SSTOP=1" PROVE Parses(c) = {FALSE}
    BY <2>1, <2>2 DEF Parses
  <2> QED BY <2>2 DEF Number
<1>8. c[1] = "E" /\ c[2] = 4
  <2>1. Length(c[1]) = IF c[1] = "E" THEN 4 ELSE 2
    BY <1>7 DEF Length
  <2> QED BY <1>1, <1>6, <2>1
<1>9. a = <<a[1], a[2]>> /\ b = <<b[1], b[2]>> /\ c = <<c[1], c[2]>>
  BY <1>5 DEF Lines
<1>10. /\ a[1] = "E" /\ b[1] = "E" /\ a[2] = 2 /\ b[2] = 3
  BY <1>1, <1>3, <1>8
<1> QED BY <1>8, <1>9, <1>10

(* GetE, when it succeeds, has read the numbers of an answer to E. *)
LEMMA EReadInOrder ==
  ASSUME IInv, Lined, LastLine, step = "GetE"
  PROVE  /\ kept.PMax = <<"E", 2>> /\ kept.PMin = <<"E", 3>>
         /\ Len(line) \in Nat /\ Len(line) >= 1 /\ line[1] = <<"E", 4>>
         /\ phase = "read" /\ got = 3 /\ Len(line') = Len(line) - 1
<1>1. /\ TypeOK /\ Take /\ phase = "read" /\ got = 3 /\ Wanted(step) = 4
  BY DEF IInv, LastLine, ReadLine, Wanted
<1>2. /\ Len(line) \in Nat /\ Len(line) >= 1 /\ Head(line) = line[1] /\ line[1] \in Lines
      /\ Len(line') = Len(line) - 1
  BY <1>1, TakeOne
<1>3. Number(line[1])
  <2>1. Sets(step, got + 1) # {}
    BY <1>1 DEF Sets
  <2>2. TRUE \in Parses(Head(line))
    BY <2>1 DEF LastLine, ReadLine
  <2> QED BY <1>2, <2>2 DEF Number
<1>4. /\ Number(kept.PMax) /\ Number(kept.PMin) /\ Linked(kept.PMax, kept.PMin)
      /\ Linked(kept.PMin, line[1])
  BY <1>1 DEF Lined, EChain
<1>5. kept.PMax \in Lines \cup {NoLine} /\ kept.PMin \in Lines \cup {NoLine}
  BY <1>1 DEF TypeOK, Fields
<1>6. line[1][2] <= Length(line[1][1])
  BY <1>2 DEF Lined, Chained
<1>7. kept.PMax = <<"E", 2>> /\ kept.PMin = <<"E", 3>> /\ line[1] = <<"E", 4>>
  BY <1>2, <1>3, <1>4, <1>5, <1>6, ThreeNumbers
<1> QED BY <1>1, <1>2, <1>7

(* GetE goes on only after a number, and so reads numbers in a row. *)
LEMMA EChainKept == IInv /\ Lined /\ Next => EChain'
<1> SUFFICES ASSUME IInv, Lined, Next, step' = "GetE"
             PROVE  /\ got' >= 2 => Number(kept'.PMax)
                    /\ got' = 2 => Linked(kept'.PMax, line'[1])
                    /\ got' = 3 => /\ Number(kept'.PMin) /\ Linked(kept'.PMax, kept'.PMin)
                                   /\ Linked(kept'.PMin, line'[1])
  BY DEF EChain, Number, Parses, Linked
<1>1. TypeOK /\ Owed /\ OwnLast /\ Chained /\ EChain /\ got \in 0 .. 3
  BY DEF IInv, Lined, TypeOK
<1>2. CASE UNCHANGED <<step, phase, got, line, kept, Status, deaths>>
  BY <1>1, <1>2 DEF EChain
<1>3. CASE got' = 0
  BY <1>3
<1>4. CASE More
  <2>1. CASE got' = 1
    BY <2>1
  <2>2. CASE got' # 1
    <3>1. /\ step = "GetE" /\ phase = "read" /\ ReadLine /\ Take /\ got' = got + 1
          /\ Wanted(step) = 4 /\ Len(line) >= 4 - got /\ got' < 4
      BY <1>1, <1>4, <2>2 DEF More, Owed, Wanted
    <3>2. got \in {1, 2}
      BY <1>1, <2>2, <3>1
    <3>3. /\ Len(line) \in Nat /\ Head(line) = line[1] /\ Len(line') = Len(line) - 1
          /\ \A i \in 1 .. Len(line') : line'[i] = line[i + 1]
      BY <1>1, <3>1, TakeOne
    <3>4. Linked(line[1], line'[1])
      <4>1. 1 \in 1 .. Len(line') /\ 1 \in 1 .. Len(line) - 1
        BY <3>1, <3>2, <3>3
      <4>2. Linked(line[1], line[1 + 1])
        BY <1>1, <4>1 DEF Chained
      <4> QED BY <3>3, <4>1, <4>2
    <3>5. Number(line[1])
      <4>1. Sets(step, got + 1) # {}
        BY <3>1, <3>2 DEF Sets
      <4>2. TRUE \in Parses(Head(line))
        BY <3>1, <4>1 DEF ReadLine
      <4> QED BY <3>3, <4>2 DEF Number
    <3>6. \A f \in Fields : kept'[f] = IF f \in Sets(step, got + 1) THEN line[1] ELSE kept[f]
      BY <1>1, <3>1, <3>3, KeptAs
    <3>7. CASE got = 1
      <4>1. kept'.PMax = line[1]
        BY <3>1, <3>6, <3>7 DEF Sets, Fields
      <4> QED BY <3>1, <3>4, <3>5, <3>7, <4>1
    <3>8. CASE got = 2
      <4>1. kept'.PMin = line[1] /\ kept'.PMax = kept.PMax
        BY <3>1, <3>6, <3>8 DEF Sets, Fields
      <4>2. Number(kept.PMax) /\ Linked(kept.PMax, line[1])
        BY <1>1, <3>1, <3>8 DEF EChain
      <4> QED BY <3>1, <3>4, <3>5, <3>8, <4>1, <4>2
    <3> QED BY <3>2, <3>7, <3>8
  <2> QED BY <2>1, <2>2
<1>5. UNCHANGED <<step, phase, got, line, kept, Status, deaths>> \/ got' = 0 \/ More
  <2>1. Ask => got' = 0
    BY <1>1 DEF Ask, Owed
  <2>2. ~Stops
    BY DEF Stops
  <2> QED BY <1>1, <2>1, <2>2, Moves DEF LastLine, GivenUp, PassedBy, Stopped, Rests, UpdateMysql,
          LoopAgain, Die, Reset, Start, Goes, Proceed
<1> QED BY <1>2, <1>3, <1>4, <1>5

(* Once GetE has succeeded, nothing sets its limits until it asks again. *)
LEMMA LimitsLeftKept == IInv /\ Lined /\ Next => LimitsLeft'
<1> DEFINE Later == (Exchanges \ {"Construct", "GetTC", "GetP", "GetE"}) \cup {"UpdateMysql"}
<1> SUFFICES ASSUME IInv, Lined, Next, step' \in Later
             PROVE  kept'.PMax = <<"E", 2>> /\ kept'.PMin = <<"E", 3>>
  BY DEF LimitsLeft
<1>1. TypeOK /\ OwnLast /\ LimitsLeft /\ {"PMax", "PMin"} \subseteq Fields
  BY DEF IInv, Lined, Fields
<1>2. step \in Later => kept.PMax = <<"E", 2>> /\ kept.PMin = <<"E", 3>>
  BY <1>1 DEF LimitsLeft
<1>3. CASE LastLine /\ step = "GetE"
  <2>1. kept.PMax = <<"E", 2>> /\ kept.PMin = <<"E", 3>>
    BY <1>3, EReadInOrder
  <2>2. got = 3
    BY <1>3, EReadInOrder
  <2>3. kept'.PMax = kept.PMax /\ kept'.PMin = kept.PMin
    BY <1>1, <1>3, <2>2, KeptAs DEF LastLine, Sets
  <2> QED BY <2>1, <2>3
<1>4. CASE LastLine /\ step # "GetE"
  <2>1. step \in Exchanges /\ step' \in Follows[step]
    BY <1>4 DEF LastLine, Proceed
  <2>2. step \in Later
    BY <1>4, <2>1 DEF Follows, Exchanges, Question
  <2>3. kept'.PMax = kept.PMax /\ kept'.PMin = kept.PMin
    BY <1>1, <1>4, KeptAs DEF LastLine, Sets
  <2> QED BY <1>2, <2>2, <2>3
<1>5. CASE More
  <2>1. step' = step /\ step # "GetE"
    BY <1>5 DEF More
  <2>2. kept'.PMax = kept.PMax /\ kept'.PMin = kept.PMin
    BY <1>1, <1>5, <2>1, KeptInside
  <2> QED BY <1>2, <2>1, <2>2
<1>6. CASE kept' = kept /\ step' = step
  BY <1>2, <1>6
<1>7. CASE PassedBy \/ Stopped \/ UpdateMysql
  <2>1. step \in Later /\ kept' = kept
    BY <1>7 DEF PassedBy, Stopped, UpdateMysql, Exchanges, Question
  <2> QED BY <1>2, <2>1
<1>8. ~GivenUp /\ ~LoopAgain /\ ~Die /\ ~Reset /\ ~Start
  BY DEF GivenUp, LoopAgain, Die, Reset, Start, Goes, Exchanges, Question
<1> QED BY <1>1, <1>3, <1>4, <1>5, <1>6, <1>7, <1>8, Moves DEF Ask, Stops, Rests

(* The first section of the invariant, at the start and over every step. *)
LEMMA LinedInitially == Init => Lined
<1> SUFFICES ASSUME Init PROVE Lined
  OBVIOUS
<1>1. /\ step = "Construct" /\ phase = "ask" /\ got = 0 /\ Len(line) = 0
  BY EmptySeq DEF Init
<1> QED BY <1>1 DEF Lined, Chained, OwnLast, EChain, LimitsLeft

LEMMA LinedKept == IInv /\ Lined /\ [Next]_vars => Lined'
<1> SUFFICES ASSUME IInv, Lined, [Next]_vars PROVE Lined'
  OBVIOUS
<1>1. CASE Next
  BY <1>1, ChainedKept, OwnLastKept, EChainKept, LimitsLeftKept DEF Lined
<1>2. CASE UNCHANGED vars
  BY <1>2 DEF vars, Lined, Chained, OwnLast, EChain, LimitsLeft
<1> QED BY <1>1, <1>2

(* AdjustCryoPower clamps the power to a maximum and a minimum that the    *)
(* cooler reported as such, for any number of deaths and whatever old      *)
(* answers the polls have read.                                            *)
THEOREM LimitsCorrect == Spec => []LimitsAreReported
<1>1. Init => IInv /\ Lined
  BY Initial, LinedInitially
<1>2. (IInv /\ Lined) /\ [Next]_vars => (IInv /\ Lined)'
  BY Inductive, LinedKept
<1>3. IInv /\ Lined => LimitsAreReported
  BY DEF Lined, LimitsLeft, LimitsAreReported, Exchanges, Question
<1> QED BY <1>1, <1>2, <1>3, PTL DEF Spec
-----------------------------------------------------------------------------
(***************************************************************************)
(* A row answers itself, with at most one death of the process between two *)
(* rows.  A line left over shifts the exchanges that follow, and GetE, the *)
(* only one to read three numbers in a row, meets an echo unless nothing   *)
(* is left over.  The invariant says where old lines can be.               *)
(***************************************************************************)
(* Lines that the exchange is not going to read. *)
Late == Len(line) - (IF phase \in {"first", "read"} THEN Wanted(step) - got ELSE 0)

(* After a death only a start and the polls come before the row.  No       *)
(* start repairs a Status, and nothing is asked for while it is an error.  *)
Places ==
  /\ deaths \in {0, 1}
  /\ deaths = 1 => step \in {"dead", "Construct", "Loop", "UpdateMysql"} \cup Polls
  /\ step = "dead" => deaths = 1
  /\ Status # 0 => step \in {"dead", "Construct", "Loop"}

(* An answer to E is behind two lines at most.  It is gone before GetE     *)
(* asks again: the constructor and the first two polls read six lines.     *)
EClear == /\ Within(2)
          /\ (Status = 0 /\ step # "GetE") => NoneOf("E")
EAfterDeath ==
  /\ step = "dead" => Within(2)
  /\ Status = 0 => /\ step = "Construct" => Within(2 - got)
                   /\ step = "Loop" => Within(0)
                   /\ step = "GetTC" => Within(0 - got)
                   /\ step = "GetP" => Within((0 - 2) - got)
EWithin == (deaths = 0 => EClear) /\ (deaths = 1 => EAfterDeath)
EOwn ==
  step = "GetE" =>
    IF phase = "ask" THEN NoneOf("E")
    ELSE \A i \in 1 .. Len(line) : line[i][1] = "E" => i = (Len(line) - 4) + line[i][2]

(* A stop is read to its end, unless the process dies. *)
StopPlaced ==
  /\ (deaths = 0 /\ Status = 0 /\ (step # "PowerOff" \/ phase = "ask")) => NoneOf("SSTOP=1")
  /\ (step = "PowerOff" /\ phase \in {"read", "throw"}) =>
       \A i \in 1 .. Len(line) : line[i] = Complete => i = Len(line) - 1
  /\ phase = "extra" => Len(line) = 1

(* Without a death or an error only the exchanges after the row leave      *)
(* lines behind, one answer of two lines at most.                          *)
FewLate ==
  /\ step \in {"checkIfON", "UpdateMysql"} => Late = 0
  /\ (deaths = 0 /\ Status = 0) =>
       /\ step \in {"Construct", "AdjustCryoPower", "GetPIDState", "SetCryoMode"} => Late = 0
       /\ step \in {"Loop", "GetTC", "GetP", "GetE", "PowerOn", "ShutdownCheck", "AdjustAgain"}
            => Late <= 2
       /\ (step = "PowerOff" /\ phase = "ask") => Late <= 2

(* What is kept is what was asked for, as long as no line is left over.    *)
PollsKept(n) ==
  /\ n >= 1 => kept.TC = <<"TC", 2>>
  /\ n >= 2 => kept.PCurrent = <<"P", 2>>
  /\ n >= 3 => kept.PMax = <<"E", 2>> /\ kept.PMin = <<"E", 3>>
  /\ n >= 4 => kept.isON = <<"SSTOP", 2>>
ValuesOwn ==
  /\ kept.ControllerMode \in {NoLine, <<"PID", 2>>, <<"PID=0", 2>>}
  /\ (step = "GetP" /\ Late = 0) => PollsKept(1)
  /\ (step = "GetE" /\ Late = 0) => PollsKept(2)
  /\ step = "checkIfON" => PollsKept(3)
  /\ step = "UpdateMysql" => PollsKept(4)
Sync == Lined /\ Places /\ EWithin /\ EOwn /\ StopPlaced /\ FewLate /\ ValuesOwn
-----------------------------------------------------------------------------
(* Status and deaths. *)
LEMMA PlacesKept == MaxDeaths <= 1 => (IInv /\ Sync /\ Next => Places')
<1> SUFFICES ASSUME MaxDeaths <= 1, IInv, Sync, Next PROVE Places'
  OBVIOUS
<1>1. TypeOK /\ Owed /\ OwnLast /\ Places
  BY DEF IInv, Sync, Lined
<1>2. deaths' \in {0, 1}
  <2>1. IInv'
    BY Inductive
  <2> QED BY <2>1, CCLineAssumption DEF IInv, TypeOK
<1>3. CASE Ask \/ UNCHANGED <<step, phase, got, line, kept, Status, deaths>> \/ More \/ Stops
  BY <1>1, <1>2, <1>3 DEF Ask, More, Stops, Keeps, Places
<1>4. CASE LastLine \/ PassedBy \/ Stopped
  <2>1. /\ Proceed /\ Status' = Status /\ deaths' = deaths
        /\ step \in Exchanges
    BY <1>4 DEF LastLine, PassedBy, Stopped, Keeps, Exchanges, Question
  <2> QED BY <1>1, <1>2, <2>1 DEF Places, Proceed, Follows, Exchanges, Question, Polls
<1>5. CASE GivenUp \/ Reset \/ Start
  BY <1>1, <1>2, <1>5 DEF GivenUp, Reset, Start, Goes, Places, Polls
<1>6. CASE Rests
  BY <1>1, <1>2, <1>6, CCLineAssumption DEF Rests, UpdateMysql, LoopAgain, Die, Goes, Proceed,
     Follows, Places, Polls, TypeOK
<1> QED BY <1>1, <1>3, <1>4, <1>5, <1>6, Moves

(* A step inside an exchange leaves no more lines behind than there were. *)
LEMMA LateMoves ==
  ASSUME IInv, OwnLast
  PROVE  /\ (Ask /\ step # "PowerOff") => Late = Len(line) /\ Late' = Late
         /\ More => Late' = Late
         /\ LastLine => Late' = Late /\ Late = Len(line')
         /\ PassedBy => Late' = IF phase = "first" THEN Late + 2 ELSE Late
         /\ phase = "ask" => Late = Len(line)
         /\ Late \in Int
<1>1. /\ TypeOK /\ Owed /\ Len(line) \in Nat /\ got \in 0 .. 3
  BY LenProperties DEF IInv, TypeOK
<1>2. ASSUME step \in Exchanges PROVE Wanted(step) \in 2 .. 4
  BY <1>2, WantedBounds
<1>3. phase \in {"first", "read"} => step \in Exchanges
  BY <1>1, Tables DEF Owed
<1>4. Late \in Int /\ (phase = "ask" => Late = Len(line))
  BY <1>1, <1>2, <1>3 DEF Late
<1>5. ASSUME Ask, step # "PowerOff" PROVE Late = Len(line) /\ Late' = Late
  <2>1. /\ step \in Exchanges /\ phase = "ask" /\ step' = step /\ got' = 0
        /\ phase' \in {"first", "read"} /\ Len(line') = Len(line) + Length(Question[step])
    BY <1>1, <1>5, Asked
  <2>2. Length(Question[step]) = Wanted(step)
    BY <1>5, <2>1 DEF Length, Question, Wanted, Exchanges
  <2> QED BY <1>1, <1>2, <1>4, <2>1, <2>2 DEF Late
<1>6. ASSUME Take PROVE Len(line') = Len(line) - 1
  BY <1>1, <1>6, TakeOne
<1>7. More => Late' = Late
  BY <1>1, <1>2, <1>3, <1>6 DEF More, Late
<1>8. LastLine => Late' = Late /\ Late = Len(line')
  BY <1>1, <1>2, <1>6 DEF LastLine, ReadLine, Proceed, Late
<1>9. PassedBy => Late' = IF phase = "first" THEN Late + 2 ELSE Late
  <2> SUFFICES ASSUME PassedBy PROVE Late' = IF phase = "first" THEN Late + 2 ELSE Late
    OBVIOUS
  <2>1. phase' = "ask" /\ Wanted(step) = 2
    BY DEF PassedBy, Proceed, Wanted
  <2>2. CASE phase = "first" /\ line' = line
    BY <1>1, <2>1, <2>2 DEF Late, OwnLast
  <2>3. CASE phase = "read" /\ got = 1 /\ Take
    BY <1>1, <1>6, <2>1, <2>3 DEF Late
  <2> QED BY <2>2, <2>3 DEF PassedBy
<1> QED BY <1>4, <1>5, <1>7, <1>8, <1>9

(* With nothing left over, the last line read is the last of the answer. *)
LEMMA LastIsOwn ==
  ASSUME IInv, OwnLast, LastLine, Late = 0
  PROVE  /\ Len(line) = 1 /\ Len(line') = 0
         /\ Head(line) = <<Question[step], Wanted(step)>>
<1>1. /\ TypeOK /\ step \in Exchanges \ {"PowerOff"} /\ phase = "read" /\ Take
  BY DEF IInv, LastLine, ReadLine
<1>2. Len(line') = 0
  BY LateMoves
<1>3. Len(line) = 1 /\ Head(line) = line[1]
  BY <1>1, <1>2, TakeOne
<1>4. Wanted(step) = Length(Question[step]) /\ Wanted(step) \in Nat \ {0}
  BY <1>1 DEF Length, Question, Wanted, Exchanges
<1>5. \A j \in 1 .. Wanted(step) : (1 - Wanted(step)) + j >= 1
         => line[(1 - Wanted(step)) + j] = <<Question[step], j>>
  BY <1>1, <1>3, <1>4 DEF OwnLast
<1>6. Wanted(step) \in 1 .. Wanted(step) /\ (1 - Wanted(step)) + Wanted(step) = 1
  BY <1>4
<1>7. line[1] = <<Question[step], Wanted(step)>>
  BY <1>5, <1>6
<1> QED BY <1>2, <1>3, <1>7

(* GetE, when it succeeds, has read its own answer and the end of the line. *)
LEMMA EReadOwn ==
  ASSUME IInv, Sync, LastLine, step = "GetE"
  PROVE  /\ kept.PMax = <<"E", 2>> /\ kept.PMin = <<"E", 3>>
         /\ Late = 0 /\ Len(line') = 0
<1>1. /\ kept.PMax = <<"E", 2>> /\ kept.PMin = <<"E", 3>>
      /\ Len(line) \in Nat /\ Len(line) >= 1 /\ line[1] = <<"E", 4>>
      /\ phase = "read" /\ got = 3 /\ Len(line') = Len(line) - 1
  BY EReadInOrder DEF Sync
<1>2. Len(line) = 1
  <2>1. 1 \in 1 .. Len(line) /\ line[1][1] = "E" /\ line[1][2] = 4
    BY <1>1
  <2>2. 1 = (Len(line) - 4) + 4
    BY <1>1, <2>1 DEF Sync, EOwn
  <2>3. Len(line) \in Nat
    BY <1>1
  <2> QED BY <2>2, <2>3
<1>3. Wanted(step) = 4
  BY DEF Wanted
<1>4. Late = 0
  BY <1>1, <1>2, <1>3 DEF Late
<1> QED BY <1>1, <1>2, <1>4

(* What no line is, or where the lines of E are, when another question is  *)
(* asked and when lines are read.                                          *)
LEMMA AskedElse ==
  ASSUME TypeOK, Owed, Ask, NEW r, r # Question[step]
  PROVE  /\ NoneOf(r) => NoneOf(r)'
         /\ r = "E" => \A n : Within(n) => Within(n)'
<1> DEFINE q == Question[step]
<1>1. /\ Len(line) \in Nat /\ Length(q) \in Nat
      /\ Len(line') = Len(line) + Length(q)
      /\ \A i \in 1 .. Len(line) : line'[i] = line[i]
      /\ \A i \in 1 .. Len(line') : i > Len(line) => line'[i] = <<q, i - Len(line)>>
  BY Asked
<1>2. q # r
  OBVIOUS
<1> HIDE DEF q
<1>3. ASSUME NEW i \in 1 .. Len(line')
      PROVE  line'[i][1] # r \/ (i \in 1 .. Len(line) /\ line'[i] = line[i])
  <2>1. CASE i > Len(line)
    <3>1. line'[i][1] = q
      BY <1>1, <2>1
    <3> QED BY <1>2, <3>1
  <2>2. CASE ~(i > Len(line))
    BY <1>1, <2>2
  <2> QED BY <2>1, <2>2
<1> QED BY <1>3 DEF NoneOf, Within

(* What a read does to the places of the lines that are left. *)
LEMMA StillNone ==
  ASSUME IInv, OwnLast, Next, ~Ask
  PROVE  /\ \A q : NoneOf(q) => NoneOf(q)'
         /\ \A n \in Int : Within(n) => Within(n)'
<1>1. TypeOK
  BY DEF IInv
<1>2. PICK k : Without(k)
  BY LinesLeft
<1>3. k \in Nat
  BY <1>2 DEF Without
<1> QED BY <1>1, <1>2, <1>3, LeftOver

LEMMA OneOff ==
  ASSUME TypeOK, Take
  PROVE  \A n \in Int : Within(n) => Within(n - 1)'
BY TakenOne, LeftOver

(* The line is empty where the row is inserted. *)
LEMMA EmptyLine ==
  ASSUME Len(line) = 0
  PROVE  (\A q : NoneOf(q)) /\ (\A n : Within(n))
BY DEF NoneOf, Within

(* The row is inserted with nothing left on the line. *)
LEMMA RowEmpty ==
  ASSUME IInv, Sync, step = "UpdateMysql"
  PROVE  Len(line) = 0 /\ phase = "ask"
<1>1. phase = "ask"
  BY Tables DEF IInv, TypeOK, Owed, Question, Exchanges
<1>2. Late = Len(line) /\ Late = 0
  BY <1>1, LateMoves DEF Sync, Lined, FewLate
<1> QED BY <1>1, <1>2

(* Where the lines of an old answer to E can be, without a death before. *)
LEMMA EClearKept == MaxDeaths <= 1 => (IInv /\ Sync /\ Next /\ deaths' = 0 => EClear')
<1> SUFFICES ASSUME MaxDeaths <= 1, IInv, Sync, Next, deaths' = 0
             PROVE  Within(2)' /\ ((Status' = 0 /\ step' # "GetE") => NoneOf("E")')
  BY DEF EClear
<1>1. TypeOK /\ Owed /\ OwnLast /\ Places /\ EWithin /\ EOwn /\ FewLate
  BY DEF IInv, Sync, Lined
<1>2. CASE Ask /\ step # "GetE"
  <2>1. "E" # Question[step] /\ step' = step /\ deaths = 0 /\ Status' = Status
    BY <1>2, Asked DEF Ask, Question, Exchanges
  <2>2. Within(2) /\ ((Status = 0 /\ step # "GetE") => NoneOf("E"))
    BY <1>1, <2>1 DEF EWithin, EClear
  <2>3. (Within(2) => Within(2)') /\ (NoneOf("E") => NoneOf("E")')
    BY <1>1, <1>2, <2>1, AskedElse
  <2> QED BY <2>1, <2>2, <2>3
<1>3. CASE Ask /\ step = "GetE"
  <2>1. /\ Len(line) \in Nat /\ step' = step /\ phase = "ask" /\ deaths = 0
        /\ Len(line') = Len(line) + Length(Question[step]) /\ Length(Question[step]) \in Nat
        /\ \A i \in 1 .. Len(line) : line'[i] = line[i]
        /\ \A i \in 1 .. Len(line') : i > Len(line) => line'[i] = <<Question[step], i - Len(line)>>
    BY <1>1, <1>3, Asked
  <2>2. Status = 0
    BY <1>1, <1>3 DEF Places
  <2>3. Late <= 2 /\ Late = Len(line)
    BY <1>1, <1>3, <2>1, <2>2, LateMoves DEF FewLate, IInv
  <2>4. ASSUME NEW i \in 1 .. Len(line'), line'[i][1] = "E" PROVE i <= line'[i][2] + 2
    <3>1. NoneOf("E")
      BY <1>1, <1>3, <2>1 DEF EOwn
    <3>2. i > Len(line)
      BY <2>1, <2>4, <3>1 DEF NoneOf
    <3>3. line'[i][2] = i - Len(line)
      BY <2>1, <3>2
    <3> QED BY <2>1, <2>3, <3>3
  <2> QED BY <1>3, <2>1, <2>4 DEF Within
<1>4. CASE UpdateMysql
  <2>1. Len(line') = 0
    BY <1>4, RowEmpty DEF UpdateMysql
  <2> QED BY <2>1, EmptyLine DEF Within, NoneOf
<1>5. CASE ~Ask /\ ~UpdateMysql
  <2>1. deaths = 0
    BY <1>1, <1>5, Moves DEF More, LastLine, GivenUp, PassedBy, Stops, Stopped, Rests,
       LoopAgain, Die, Reset, Start, Keeps, Places
  <2>2. Within(2) /\ ((Status = 0 /\ step # "GetE") => NoneOf("E"))
    BY <1>1, <2>1 DEF EWithin, EClear
  <2>3. Within(2)'
    BY <1>1, <1>5, <2>2, StillNone
  <2>4. ASSUME Status' = 0, step' # "GetE" PROVE NoneOf("E")'
    <3>1. CASE LastLine /\ step = "GetE"
      BY <3>1, EReadOwn DEF NoneOf
    <3>2. CASE ~(LastLine /\ step = "GetE")
      <4>1. Status = 0
        BY <1>1, <1>5, <2>1, <2>4, Moves DEF More, LastLine, GivenUp, PassedBy, Stops,
           Stopped, Rests, LoopAgain, Die, Reset, Start, Keeps, Places
      <4>2. step # "GetE"
        BY <1>1, <1>5, <2>1, <2>4, <3>2, Moves DEF More, GivenUp, PassedBy, Stops,
           Stopped, Rests, LoopAgain, Die, Reset, Start, Keeps, Places
      <4> QED BY <1>1, <1>5, <2>2, <4>1, <4>2, StillNone
    <3> QED BY <3>1, <3>2
  <2> QED BY <2>3, <2>4
<1> QED BY <1>2, <1>3, <1>4, <1>5

(* The same between a death and the row: constructor and polls read on. *)
LEMMA EAfterDeathKept == MaxDeaths <= 1 => (IInv /\ Sync /\ Next /\ deaths' = 1 => EAfterDeath')
<1> SUFFICES ASSUME MaxDeaths <= 1, IInv, Sync, Next, deaths' = 1
             PROVE  /\ step' = "dead" => Within(2)'
                    /\ Status' = 0 => /\ step' = "Construct" => Within(2 - got)'
                                      /\ step' = "Loop" => Within(0)'
                                      /\ step' = "GetTC" => Within(0 - got)'
                                      /\ step' = "GetP" => Within((0 - 2) - got)'
  BY DEF EAfterDeath
<1>1. TypeOK /\ Owed /\ OwnLast /\ Places /\ EWithin
  BY DEF IInv, Sync, Lined
<1>2. CASE Die
  <2>1. deaths = 0
    BY <1>1, <1>2 DEF Die, Places
  <2>2. Within(2) /\ line' = line /\ step' = "dead"
    BY <1>1, <1>2, <2>1 DEF EWithin, EClear, Die, Goes
  <2> QED BY <2>2 DEF Within
<1>3. CASE ~Die
  <2>1. deaths = 1 /\ ~UpdateMysql
    BY <1>1, <1>3, Moves DEF Ask, More, LastLine, GivenUp, PassedBy, Stops, Stopped, Rests,
       UpdateMysql, LoopAgain, Reset, Start, Keeps, Places
  <2>2. /\ step = "dead" => Within(2)
        /\ Status = 0 => /\ step = "Construct" => Within(2 - got)
                         /\ step = "Loop" => Within(0)
                         /\ step = "GetTC" => Within(0 - got)
                         /\ step = "GetP" => Within((0 - 2) - got)
    BY <1>1, <2>1 DEF EWithin, EAfterDeath
  <2>3. step \in {"dead", "Construct", "Loop", "UpdateMysql"} \cup Polls
    BY <1>1, <2>1 DEF Places
  <2>4. CASE Ask
    <3>1. step' = step /\ got' = got /\ Status' = Status /\ step \in Exchanges
      BY <2>4 DEF Ask
    <3>2. CASE step \in {"Construct", "GetTC", "GetP"}
      <4>1. "E" # Question[step]
        BY <3>1, <3>2 DEF Question
      <4>2. \A n : Within(n) => Within(n)'
        BY <1>1, <2>4, <4>1, AskedElse
      <4>3. ASSUME Status = 0, step = "Construct" PROVE Within(2 - got)'
        BY <2>2, <3>1, <4>2, <4>3 DEF Within
      <4>4. ASSUME Status = 0, step = "GetTC" PROVE Within(0 - got)'
        BY <2>2, <3>1, <4>2, <4>4 DEF Within
      <4>5. ASSUME Status = 0, step = "GetP" PROVE Within((0 - 2) - got)'
        BY <2>2, <3>1, <4>2, <4>5 DEF Within
      <4> QED BY <3>1, <3>2, <4>3, <4>4, <4>5
    <3>3. CASE step \notin {"Construct", "GetTC", "GetP"}
      BY <3>1, <3>3 DEF Exchanges, Question
    <3> QED BY <3>2, <3>3
  <2>5. CASE UNCHANGED <<step, phase, got, line, kept, Status, deaths>>
    BY <2>2, <2>5 DEF Within
  <2>6. CASE More
    <3>1. /\ step' = step /\ got' = got + 1 /\ Status' = Status /\ got' < Wanted(step)
          /\ Take /\ got \in 0 .. 3
      BY <1>1, <2>6 DEF More, Keeps, TypeOK
    <3>2. CASE step \in {"Construct", "GetTC", "GetP"}
      <4>1. got = 0 /\ got' = 1
        BY <3>1, <3>2 DEF Wanted
      <4>2. ASSUME NEW n \in Int, Within(n) PROVE Within(n - 1)'
        BY <1>1, <3>1, <4>2, OneOff
      <4>3. ASSUME Status = 0, step = "Construct" PROVE Within(2 - got)'
        BY <2>2, <4>1, <4>2, <4>3 DEF Within
      <4>4. ASSUME Status = 0, step = "GetTC" PROVE Within(0 - got)'
        BY <2>2, <4>1, <4>2, <4>4 DEF Within
      <4>5. ASSUME Status = 0, step = "GetP" PROVE Within((0 - 2) - got)'
        BY <2>2, <4>1, <4>2, <4>5 DEF Within
      <4> QED BY <3>1, <3>2, <4>3, <4>4, <4>5
    <3>3. CASE step \notin {"Construct", "GetTC", "GetP"}
      <4>1. step # "Loop" /\ step # "dead"
        BY <1>1, <2>6, Tables DEF More, Owed, Exchanges, Question
      <4> QED BY <3>1, <3>3, <4>1
    <3> QED BY <3>2, <3>3
  <2>7. CASE LastLine
    <3>1. /\ Take /\ got = Wanted(step) - 1 /\ step' \in Follows[step] /\ got' = 0
          /\ Status' = Status /\ step \in Exchanges
      BY <2>7 DEF LastLine, ReadLine, Keeps, Proceed
    <3>2. ASSUME NEW n \in Int, Within(n) PROVE Within(n - 1)'
      BY <1>1, <3>1, <3>2, OneOff
    <3>3. CASE step = "Construct"
      <4>1. step' = "Loop" /\ got = 1
        BY <3>1, <3>3 DEF Follows, Wanted
      <4>2. Status = 0 => Within(1)
        BY <2>2, <3>3, <4>1 DEF Within
      <4>3. Status = 0 => Within(0)'
        <5> 1 \in Int /\ 1 - 1 = 0
          OBVIOUS
        <5> QED BY <3>2, <4>2
      <4> QED BY <3>1, <4>1, <4>3
    <3>4. CASE step = "GetTC"
      <4>1. step' = "GetP" /\ got = 1
        BY <3>1, <3>4 DEF Follows, Wanted
      <4>2. ASSUME Status = 0 PROVE Within((0 - 2) - got)'
        <5>1. Within(0 - 1)
          BY <2>2, <3>4, <4>1, <4>2 DEF Within
        <5>2. Within((0 - 1) - 1)'
          BY <3>2, <5>1
        <5> QED BY <3>1, <5>2 DEF Within
      <4> QED BY <3>1, <4>1, <4>2
    <3>5. CASE step \in {"GetP", "GetE", "checkIfON"}
      <4>1. step' \in {"GetE", "checkIfON", "UpdateMysql"}
        BY <3>1, <3>5 DEF Follows
      <4> QED BY <4>1
    <3> QED BY <2>3, <3>1, <3>3, <3>4, <3>5 DEF Polls, Exchanges, Question
  <2>8. CASE GivenUp
    BY <2>8 DEF GivenUp, Goes
  <2>9. CASE PassedBy \/ Stops \/ Stopped
    BY <2>3, <2>9 DEF PassedBy, Stops, Stopped, Polls
  <2>10. CASE LoopAgain
    <3>1. Within(0) /\ line' = line /\ step' = "GetTC" /\ got' = 0
      BY <2>2, <2>10 DEF LoopAgain, Goes
    <3> QED BY <3>1 DEF Within
  <2>11. CASE Reset
    BY <2>11 DEF Reset, Goes
  <2>12. CASE Start
    <3>1. step' = "Construct" /\ got' = 0 /\ Within(2) /\ ~Ask
      BY <2>2, <2>12 DEF Start, Goes, Ask, Exchanges, Question
    <3>2. Within(2)'
      BY <1>1, <3>1, StillNone
    <3> QED BY <3>1, <3>2 DEF Within
  <2> QED BY <1>1, <1>3, <2>1, <2>4, <2>5, <2>6, <2>7, <2>8, <2>9, <2>10, <2>11, <2>12, Moves
          DEF Rests
<1> QED BY <1>2, <1>3

LEMMA EWithinKept == MaxDeaths <= 1 => (IInv /\ Sync /\ Next => EWithin')
BY EClearKept, EAfterDeathKept DEF EWithin

(* Only the row clears the deaths, and nothing a Status.                   *)
LEMMA ClearBefore ==
  ASSUME MaxDeaths <= 1, IInv, Sync, Next, deaths' = 0, Status' = 0, ~UpdateMysql
  PROVE  deaths = 0 /\ Status = 0 /\ ~Reset /\ ~Start /\ ~Die /\ ~GivenUp
<1>1. IInv /\ OwnLast /\ Places
  BY DEF Sync, Lined
<1>2. deaths = 0
  BY <1>1, Moves DEF Ask, More, LastLine, GivenUp, PassedBy, Stops, Stopped, Rests,
     LoopAgain, Die, Reset, Start, Keeps, Places
<1>3. Status = 0
  BY <1>1, <1>2, Moves DEF Ask, More, LastLine, GivenUp, PassedBy, Stops, Stopped, Rests,
     LoopAgain, Die, Reset, Start, Keeps, Places
<1> QED BY <1>1, <1>2, <1>3 DEF Die, Reset, Start, GivenUp, Places

(* GetE asks with no line of an old answer to E left. *)
LEMMA EOwnKept == MaxDeaths <= 1 => (IInv /\ Sync /\ Next => EOwn')
<1> SUFFICES ASSUME MaxDeaths <= 1, IInv, Sync, Next, step' = "GetE"
             PROVE  IF phase' = "ask" THEN NoneOf("E")'
                    ELSE \A i \in 1 .. Len(line') :
                           line'[i][1] = "E" => i = (Len(line') - 4) + line'[i][2]
  BY DEF EOwn
<1>1. TypeOK /\ Owed /\ OwnLast /\ Places /\ EWithin /\ EOwn /\ Len(line) \in Nat
  BY LenProperties DEF IInv, Sync, Lined, TypeOK
<1>2. CASE Ask
  <2>1. /\ step = "GetE" /\ phase = "ask" /\ phase' # "ask"
        /\ Len(line') = Len(line) + Length(Question[step])
        /\ \A i \in 1 .. Len(line) : line'[i] = line[i]
        /\ \A i \in 1 .. Len(line') : i > Len(line) => line'[i] = <<Question[step], i - Len(line)>>
    BY <1>1, <1>2, Asked
  <2>2. Len(line') = Len(line) + 4 /\ NoneOf("E")
    BY <1>1, <2>1 DEF Length, Question, EOwn
  <2>3. ASSUME NEW i \in 1 .. Len(line'), line'[i][1] = "E"
        PROVE  i = (Len(line') - 4) + line'[i][2]
    <3>1. i > Len(line)
      BY <1>1, <2>1, <2>2, <2>3 DEF NoneOf
    <3>2. line'[i][2] = i - Len(line)
      BY <2>1, <3>1
    <3> QED BY <1>1, <2>2, <3>2
  <2> QED BY <2>1, <2>3
<1>3. CASE UNCHANGED <<step, phase, got, line, kept, Status, deaths>>
  BY <1>1, <1>3 DEF EOwn, NoneOf
<1>4. CASE More
  <2>1. /\ step = "GetE" /\ phase # "ask" /\ phase' # "ask" /\ Without(1)
    BY <1>1, <1>4, TakenOne DEF More
  <2>2. /\ \A i \in 1 .. Len(line) : line[i][1] = "E" => i = (Len(line) - 4) + line[i][2]
    BY <1>1, <2>1 DEF EOwn
  <2>3. /\ Len(line') = Len(line) - 1
        /\ \A i \in 1 .. Len(line') : line'[i] = line[i + 1] /\ i + 1 \in 1 .. Len(line)
    BY <1>1, <2>1 DEF Without
  <2>4. \A i \in 1 .. Len(line) : line[i][2] \in Nat
    BY <1>1, ElementOfSeq, CCLineAssumption DEF TypeOK, Lines
  <2>5. ASSUME NEW i \in 1 .. Len(line'), line'[i][1] = "E"
        PROVE  i = (Len(line') - 4) + line'[i][2]
    <3>1. i + 1 = (Len(line) - 4) + line[i + 1][2] /\ line[i + 1][2] \in Nat
      BY <2>2, <2>3, <2>4, <2>5
    <3> QED BY <1>1, <2>3, <3>1
  <2> QED BY <2>1, <2>5
<1>5. CASE LastLine
  <2>1. /\ step \in Exchanges /\ step' \in Follows[step] /\ got = Wanted(step) - 1
        /\ Take /\ phase' = "ask" /\ ~Ask
    BY <1>5 DEF LastLine, ReadLine, Proceed, Ask
  <2>2. step = "GetP" /\ got = 1
    BY <2>1 DEF Follows, Exchanges, Question, Wanted
  <2>3. Status = 0 /\ deaths \in {0, 1}
    BY <1>1, <2>2 DEF Places
  <2>4. CASE deaths = 0
    <3>1. NoneOf("E")
      BY <1>1, <2>2, <2>3, <2>4 DEF EWithin, EClear
    <3> QED BY <1>1, <2>1, <3>1, StillNone
  <2>5. CASE deaths = 1
    <3>1. Within((0 - 2) - 1)
      BY <1>1, <2>2, <2>3, <2>5 DEF EWithin, EAfterDeath
    <3>2. Within(((0 - 2) - 1) - 1)'
      BY <1>1, <2>1, <3>1, OneOff
    <3>3. ASSUME NEW i \in 1 .. Len(line') PROVE line'[i][1] # "E"
      <4>1. line'[i][1] = "E" => i <= line'[i][2] + (((0 - 2) - 1) - 1)
        BY <3>2 DEF Within
      <4>0. Chained'
        BY ChainedKept DEF Sync
      <4>2. line'[i][2] <= Length(line'[i][1])
        BY <4>0 DEF Chained
      <4>3. line'[i][2] \in Nat
        BY <1>1, Inductive, ElementOfSeq, CCLineAssumption DEF IInv, TypeOK, Lines
      <4> QED BY <4>1, <4>2, <4>3 DEF Length
    <3> QED BY <2>1, <3>3 DEF NoneOf
  <2> QED BY <2>3, <2>4, <2>5
<1>6. ~GivenUp /\ ~PassedBy /\ ~Stops /\ ~Stopped /\ ~Rests /\ ~Reset /\ ~Start
  BY DEF GivenUp, PassedBy, Stops, Stopped, Rests, UpdateMysql, LoopAgain, Die, Reset, Start,
     Goes, Proceed, Follows
<1> QED BY <1>1, <1>2, <1>3, <1>4, <1>5, <1>6, Moves

(* A stop leaves none of its lines behind. *)
LEMMA StopPlacedKept == MaxDeaths <= 1 => (IInv /\ Sync /\ Next => StopPlaced')
<1> SUFFICES ASSUME MaxDeaths <= 1, IInv, Sync, Next PROVE StopPlaced'
  OBVIOUS
<1>1. /\ TypeOK /\ Owed /\ OwnLast /\ Places /\ StopPlaced /\ Len(line) \in Nat
      /\ \A i \in 1 .. Len(line) : line[i][2] \in Nat
  BY LenProperties, ElementOfSeq, CCLineAssumption DEF IInv, Sync, Lined, TypeOK, Lines
<1>2. ASSUME deaths' = 0, Status' = 0, step' # "PowerOff" \/ phase' = "ask"
      PROVE  NoneOf("SSTOP=1")'
  <2>1. CASE UpdateMysql
    <3>1. Len(line') = 0
      BY <2>1, RowEmpty DEF UpdateMysql
    <3> QED BY <3>1 DEF NoneOf
  <2>2. CASE Stopped
    <3>1. Len(line') = 0
      BY <1>1, <2>2, TakeOne DEF Stopped, StopPlaced
    <3> QED BY <3>1 DEF NoneOf
  <2>3. CASE ~UpdateMysql /\ ~Stopped
    <3>1. deaths = 0 /\ Status = 0
      BY <1>2, <2>3, ClearBefore
    <3>2. step # "PowerOff" \/ phase = "ask"
      BY <1>1, <1>2, <2>3, <3>1, Moves DEF Ask, More, LastLine, GivenUp, PassedBy, Stops,
         Rests, LoopAgain, Die, Reset, Start, Polls
    <3>3. NoneOf("SSTOP=1")
      BY <1>1, <3>1, <3>2 DEF StopPlaced
    <3>4. CASE Ask
      <4>1. step # "PowerOff"
        BY <1>1, <1>2, <3>4, Asked
      <4>2. "SSTOP=1" # Question[step]
        BY <3>4, <4>1 DEF Ask, Exchanges, Question
      <4> QED BY <1>1, <3>3, <3>4, <4>2, AskedElse
    <3>5. CASE ~Ask
      BY <1>1, <3>3, <3>5, StillNone
    <3> QED BY <3>4, <3>5
  <2> QED BY <2>1, <2>2, <2>3
<1>3. ASSUME step' = "PowerOff", phase' \in {"read", "throw"}
      PROVE  \A i \in 1 .. Len(line') : line'[i] = Complete => i = Len(line') - 1
  <2>1. CASE Ask
    <3>1. /\ step = "PowerOff" /\ phase = "ask"
          /\ Len(line') = Len(line) + Length(Question[step])
          /\ \A i \in 1 .. Len(line) : line'[i] = line[i]
          /\ \A i \in 1 .. Len(line') : i > Len(line) => line'[i] = <<Question[step], i - Len(line)>>
      BY <1>1, <1>3, <2>1, Asked
    <3>2. Len(line') = Len(line) + (Thrown + 4) /\ Question[step] = "SSTOP=1"
      BY <3>1 DEF Length, Question
    <3>3. deaths = 0 /\ Status = 0
      BY <1>1, <3>1 DEF Places, Polls
    <3>4. NoneOf("SSTOP=1")
      BY <1>1, <3>1, <3>3 DEF StopPlaced
    <3>5. ASSUME NEW i \in 1 .. Len(line'), line'[i] = Complete PROVE i = Len(line') - 1
      <4>1. i > Len(line)
        BY <1>1, <3>1, <3>2, <3>4, <3>5 DEF NoneOf, Complete
      <4>2. i - Len(line) = Thrown + 3
        BY <3>1, <3>5, <4>1 DEF Complete
      <4> QED BY <1>1, <3>2, <4>2, CCLineAssumption
    <3> QED BY <3>5
  <2>2. CASE UNCHANGED <<step, phase, got, line, kept, Status, deaths>>
    BY <1>1, <1>3, <2>2 DEF StopPlaced
  <2>3. CASE More \/ Stops
    <3>1. step = "PowerOff" /\ phase \in {"read", "throw"} /\ Without(1)
      BY <1>1, <1>3, <2>3, TakenOne, Tables DEF More, Stops, Owed
    <3>2. /\ Len(line') = Len(line) - 1
          /\ \A i \in 1 .. Len(line') : line'[i] = line[i + 1] /\ i + 1 \in 1 .. Len(line)
      BY <1>1, <3>1 DEF Without
    <3>3. \A i \in 1 .. Len(line) : line[i] = Complete => i = Len(line) - 1
      BY <1>1, <3>1 DEF StopPlaced
    <3> QED BY <1>1, <3>2, <3>3
  <2>4. ~LastLine /\ ~GivenUp /\ ~PassedBy /\ ~Stopped /\ ~Rests /\ ~Reset /\ ~Start
    BY <1>3 DEF LastLine, GivenUp, PassedBy, Stopped, Rests, UpdateMysql, LoopAgain, Die,
       Reset, Start, Goes, Proceed
  <2> QED BY <1>1, <2>1, <2>2, <2>3, <2>4, Moves
<1>4. ASSUME phase' = "extra" PROVE Len(line') = 1
  <2>1. CASE UNCHANGED <<step, phase, got, line, kept, Status, deaths>>
    BY <1>1, <1>4, <2>1 DEF StopPlaced
  <2>2. CASE Stops
    <3>1. step = "PowerOff" /\ phase = "throw" /\ Head(line) = Complete /\ Take
      BY <1>4, <2>2 DEF Stops
    <3>2. Len(line) >= 1 /\ Head(line) = line[1] /\ Len(line') = Len(line) - 1
      BY <1>1, <3>1, TakeOne
    <3>3. 1 = Len(line) - 1
      BY <1>1, <3>1, <3>2 DEF StopPlaced
    <3> QED BY <1>1, <3>2, <3>3
  <2>3. /\ ~Ask /\ ~More /\ ~LastLine /\ ~GivenUp /\ ~PassedBy /\ ~Stopped /\ ~Rests
        /\ ~Reset /\ ~Start
    BY <1>4 DEF Ask, More, LastLine, GivenUp, PassedBy, Stopped, Rests, UpdateMysql, LoopAgain,
       Die, Reset, Start, Goes, Proceed
  <2> QED BY <1>1, <2>1, <2>2, <2>3, Moves
<1> QED BY <1>2, <1>3, <1>4 DEF StopPlaced

(* At most one answer of two lines is left over by a pass. *)
LEMMA FewLateKept == MaxDeaths <= 1 => (IInv /\ Sync /\ Next => FewLate')
<1> SUFFICES ASSUME MaxDeaths <= 1, IInv, Sync, Next PROVE FewLate'
  OBVIOUS
<1>1. TypeOK /\ Owed /\ OwnLast /\ Places /\ StopPlaced /\ FewLate /\ Late \in Int
  BY LateMoves DEF IInv, Sync, Lined
<1>2. CASE Ask /\ step # "PowerOff"
  <2>1. Late' = Late /\ step' = step /\ UNCHANGED <<Status, deaths>>
    BY <1>1, <1>2, LateMoves DEF Ask
  <2> QED BY <1>1, <1>2, <2>1 DEF FewLate
<1>3. CASE Ask /\ step = "PowerOff"
  <2>1. step' = "PowerOff" /\ phase' # "ask"
    BY <1>3 DEF Ask
  <2> QED BY <2>1 DEF FewLate
<1>4. CASE UNCHANGED <<step, phase, got, line, kept, Status, deaths>>
  BY <1>1, <1>4 DEF FewLate, Late
<1>5. CASE More
  <2>1. /\ Late' = Late /\ step' = step /\ UNCHANGED <<Status, deaths>> /\ phase' = "read"
    BY <1>1, <1>5, LateMoves DEF More, Keeps
  <2> QED BY <1>1, <2>1 DEF FewLate
<1>6. CASE LastLine
  <2>1. /\ Late' = Late /\ step' \in Follows[step] /\ UNCHANGED <<Status, deaths>>
        /\ step \in Exchanges \ {"PowerOff"}
    BY <1>1, <1>6, LateMoves DEF LastLine, Keeps, Proceed
  <2>2. step = "GetE" => Late = 0
    BY <1>6, EReadOwn
  <2> QED BY <1>1, <2>1, <2>2 DEF FewLate, Follows, Exchanges, Question
<1>7. CASE PassedBy
  <2>1. /\ Late' = IF phase = "first" THEN Late + 2 ELSE Late
        /\ step' \in Follows[step] /\ UNCHANGED <<Status, deaths>>
        /\ step \in {"GetPIDState", "SetCryoMode", "ShutdownCheck"}
    BY <1>1, <1>7, LateMoves DEF PassedBy, Keeps, Proceed
  <2>2. step = "ShutdownCheck" => phase # "first"
    BY <1>1 DEF Owed, Timed, Polls
  <2> QED BY <1>1, <2>1, <2>2 DEF FewLate, Follows
<1>8. CASE Stops
  BY <1>8 DEF Stops, FewLate
<1>9. CASE Stopped
  <2>1. Len(line') = 0 /\ step' = "ShutdownCheck" /\ phase' = "ask"
    BY <1>1, <1>9, TakeOne DEF Stopped, StopPlaced, Proceed, Follows
  <2> QED BY <2>1 DEF FewLate, Late
<1>10. CASE UpdateMysql
  <2>1. Len(line') = 0 /\ phase' = "ask" /\ step' \in Follows["UpdateMysql"]
    BY <1>10, RowEmpty DEF UpdateMysql, Proceed
  <2> QED BY <2>1 DEF FewLate, Late, Follows
<1>11. CASE LoopAgain
  <2>1. /\ step = "Loop" /\ step' = "GetTC" /\ phase' = "ask" /\ line' = line
        /\ UNCHANGED <<Status, deaths>>
    BY <1>11 DEF LoopAgain, Goes
  <2>2. phase = "ask"
    BY <1>1, <2>1, Tables DEF TypeOK, Owed, Question, Exchanges
  <2>3. Late' = Late
    BY <2>1, <2>2 DEF Late
  <2> QED BY <1>1, <2>1, <2>3 DEF FewLate
<1>12. CASE GivenUp \/ Reset \/ Start \/ Die
  <2>1. ~(deaths' = 0 /\ Status' = 0)
    BY <1>12, ClearBefore DEF UpdateMysql, GivenUp, Reset, Start, Die, Goes, Follows, Proceed
  <2>2. step' \in {"Loop", "Construct", "dead"}
    BY <1>12 DEF GivenUp, Reset, Start, Die, Goes
  <2> QED BY <2>1, <2>2 DEF FewLate
<1> QED BY <1>1, <1>2, <1>3, <1>4, <1>5, <1>6, <1>7, <1>8, <1>9, <1>10, <1>11, <1>12, Moves
        DEF Rests

LEMMA ModeKept ==
  MaxDeaths <= 1 => (IInv /\ Sync /\ Next =>
    kept'.ControllerMode \in {NoLine, <<"PID", 2>>, <<"PID=0", 2>>})
<1> SUFFICES ASSUME MaxDeaths <= 1, IInv, Sync, Next
             PROVE  kept'.ControllerMode \in {NoLine, <<"PID", 2>>, <<"PID=0", 2>>}
  OBVIOUS
<1>1. /\ TypeOK /\ OwnLast /\ Places /\ FewLate
      /\ kept.ControllerMode \in {NoLine, <<"PID", 2>>, <<"PID=0", 2>>}
      /\ "ControllerMode" \in Fields
  BY DEF IInv, Sync, Lined, ValuesOwn, Fields
<1>2. CASE LastLine
  <2>1. kept'.ControllerMode = IF "ControllerMode" \in Sets(step, got + 1)
                               THEN Head(line) ELSE kept.ControllerMode
    BY <1>1, <1>2, KeptAs DEF LastLine
  <2>2. CASE step \in {"GetPIDState", "SetCryoMode"}
    <3>1. deaths = 0 /\ Status = 0
      BY <1>1, <2>2 DEF Places, Polls
    <3>2. Late = 0
      BY <1>1, <2>2, <3>1 DEF FewLate
    <3>3. Head(line) = <<Question[step], Wanted(step)>>
      BY <1>1, <1>2, <3>2, LastIsOwn
    <3>4. Head(line) = <<"PID", 2>> \/ Head(line) = <<"PID=0", 2>>
      BY <2>2, <3>3 DEF Question, Wanted
    <3> QED BY <1>1, <2>1, <3>4
  <2>3. CASE step \notin {"GetPIDState", "SetCryoMode"}
    <3>1. "ControllerMode" \notin Sets(step, got + 1)
      BY <2>3 DEF Sets
    <3> QED BY <1>1, <2>1, <3>1
  <2> QED BY <2>2, <2>3
<1>3. CASE More
  BY <1>1, <1>3, KeptInside
<1>4. CASE Reset \/ Start
  BY <1>1, <1>4 DEF Reset, Start, Nothing
<1>5. CASE kept' = kept
  BY <1>1, <1>5
<1> QED BY <1>1, <1>2, <1>3, <1>4, <1>5, Moves DEF Ask, GivenUp, PassedBy, Stops, Stopped,
        Rests, UpdateMysql, LoopAgain, Die

(* What the polls have set so far are the answers to what they asked. *)
LEMMA ValuesOwnKept == MaxDeaths <= 1 => (IInv /\ Sync /\ Next => ValuesOwn')
<1> SUFFICES ASSUME MaxDeaths <= 1, IInv, Sync, Next PROVE ValuesOwn'
  OBVIOUS
<1>1. /\ TypeOK /\ OwnLast /\ FewLate /\ ValuesOwn
      /\ kept'.ControllerMode \in {NoLine, <<"PID", 2>>, <<"PID=0", 2>>}
  BY ModeKept DEF IInv, Sync, Lined
<1>2. CASE UNCHANGED <<step, phase, got, line, kept, Status, deaths>>
  BY <1>1, <1>2 DEF ValuesOwn, PollsKept, Late
<1>3. CASE Ask
  <2>1. step' = step /\ kept' = kept /\ step \in Exchanges
    BY <1>3 DEF Ask
  <2>2. step # "PowerOff" => Late' = Late
    BY <1>1, <1>3, LateMoves
  <2> QED BY <1>1, <2>1, <2>2 DEF ValuesOwn, PollsKept
<1>4. CASE More
  <2>1. step' = step /\ Late' = Late /\ step \in Exchanges
    BY <1>1, <1>4, LateMoves, Tables DEF More, Owed, IInv
  <2>2. \A f \in Fields : kept'[f] = kept[f] \/ (step = "GetE" /\ f \in {"PMax", "PMin"})
    BY <1>1, <1>4, KeptInside
  <2>3. kept'.TC = kept.TC /\ kept'.PCurrent = kept.PCurrent
    BY <2>2 DEF Fields
  <2>4. step # "GetE" => \A f \in Fields : kept'[f] = kept[f]
    BY <2>2
  <2>5. step # "GetE" => /\ kept'.PMax = kept.PMax /\ kept'.PMin = kept.PMin
                         /\ kept'.isON = kept.isON
    BY <2>4 DEF Fields
  <2> QED BY <1>1, <2>1, <2>3, <2>5 DEF ValuesOwn, PollsKept
<1>5. CASE LastLine
  <2>1. /\ Late' = Late /\ step' \in Follows[step] /\ step \in Exchanges
        /\ got + 1 = Wanted(step)
    BY <1>1, <1>5, LateMoves, WantedBounds DEF LastLine, Proceed
  <2>2. \A f \in Fields : kept'[f] = IF f \in Sets(step, Wanted(step)) THEN Head(line) ELSE kept[f]
    BY <1>1, <1>5, <2>1, KeptAs DEF LastLine
  <2>3. Late = 0 => Head(line) = <<Question[step], Wanted(step)>>
    BY <1>1, <1>5, LastIsOwn
  <2>4. CASE step = "GetTC"
    <3>1. step' = "GetP" /\ Sets(step, Wanted(step)) = {"TC"}
      BY <2>1, <2>4 DEF Follows, Sets, Wanted
    <3>2. kept'.TC = Head(line)
      BY <2>2, <3>1 DEF Fields
    <3>3. Late' = 0 => kept'.TC = <<"TC", 2>>
      BY <2>1, <2>3, <2>4, <3>2 DEF Question, Wanted
    <3> QED BY <1>1, <3>1, <3>3 DEF ValuesOwn, PollsKept
  <2>5. CASE step = "GetP"
    <3>1. step' = "GetE" /\ Sets(step, Wanted(step)) = {"PCurrent"}
      BY <2>1, <2>5 DEF Follows, Sets, Wanted
    <3>2. kept'.PCurrent = Head(line) /\ kept'.TC = kept.TC
      BY <2>2, <3>1 DEF Fields
    <3>3. Late' = 0 => kept'.PCurrent = <<"P", 2>>
      BY <2>1, <2>3, <2>5, <3>2 DEF Question, Wanted
    <3>4. Late' = 0 => kept'.TC = <<"TC", 2>>
      BY <1>1, <2>1, <2>5, <3>2 DEF ValuesOwn, PollsKept
    <3> QED BY <1>1, <3>1, <3>3, <3>4 DEF ValuesOwn, PollsKept
  <2>6. CASE step = "GetE"
    <3>1. step' = "checkIfON" /\ Sets(step, Wanted(step)) = {"PSet"}
      BY <2>1, <2>6 DEF Follows, Sets, Wanted
    <3>2. /\ kept'.PCurrent = kept.PCurrent /\ kept'.TC = kept.TC
          /\ kept'.PMax = kept.PMax /\ kept'.PMin = kept.PMin
      BY <2>2, <3>1 DEF Fields
    <3>3. kept.PMax = <<"E", 2>> /\ kept.PMin = <<"E", 3>> /\ Late = 0
      BY <1>5, <2>6, EReadOwn
    <3>4. PollsKept(2)
      BY <1>1, <2>6, <3>3 DEF ValuesOwn
    <3> QED BY <1>1, <3>1, <3>2, <3>3, <3>4 DEF ValuesOwn, PollsKept
  <2>7. CASE step = "checkIfON"
    <3>1. step' = "UpdateMysql" /\ Sets(step, Wanted(step)) = {"isON"}
      BY <2>1, <2>7 DEF Follows, Sets, Wanted
    <3>2. /\ kept'.PCurrent = kept.PCurrent /\ kept'.TC = kept.TC
          /\ kept'.PMax = kept.PMax /\ kept'.PMin = kept.PMin /\ kept'.isON = Head(line)
      BY <2>2, <3>1 DEF Fields
    <3>3. kept'.isON = <<"SSTOP", 2>>
      BY <1>1, <2>3, <2>7, <3>2 DEF FewLate, Question, Wanted
    <3>4. PollsKept(3)
      BY <1>1, <2>7 DEF ValuesOwn
    <3> QED BY <1>1, <3>1, <3>2, <3>3, <3>4 DEF ValuesOwn, PollsKept
  <2>8. CASE step \notin {"GetTC", "GetP", "GetE", "checkIfON"}
    <3>1. step' \notin {"GetP", "GetE", "checkIfON", "UpdateMysql"}
      BY <2>1, <2>8 DEF Follows, Exchanges, Question
    <3> QED BY <1>1, <3>1 DEF ValuesOwn
  <2> QED BY <2>4, <2>5, <2>6, <2>7, <2>8
<1>6. CASE GivenUp \/ PassedBy \/ Stops \/ Stopped \/ Rests \/ Reset \/ Start
  <2>1. step' \notin {"GetP", "GetE", "checkIfON", "UpdateMysql"}
    BY <1>6 DEF GivenUp, PassedBy, Stops, Stopped, Rests, UpdateMysql, LoopAgain, Die, Reset,
       Start, Goes, Proceed, Follows
  <2> QED BY <1>1, <2>1 DEF ValuesOwn
<1> QED BY <1>1, <1>2, <1>3, <1>4, <1>5, <1>6, Moves

(* The whole invariant, at the start and over every step. *)
LEMMA SyncInitially == Init => Sync
<1> SUFFICES ASSUME Init PROVE Sync
  OBVIOUS
<1>1. /\ step = "Construct" /\ phase = "ask" /\ got = 0 /\ Len(line) = 0
      /\ kept = Nothing /\ deaths = 0
  BY EmptySeq DEF Init
<1>2. Places /\ EOwn /\ StopPlaced
  BY <1>1 DEF Places, EOwn, StopPlaced, NoneOf
<1>3. EWithin
  BY <1>1 DEF EWithin, EClear, Within, NoneOf
<1>4. Late = 0
  BY <1>1 DEF Late
<1>5. FewLate /\ ValuesOwn
  BY <1>1, <1>4 DEF FewLate, ValuesOwn, Nothing, Fields
<1> QED BY <1>2, <1>3, <1>5, LinedInitially DEF Sync

LEMMA SyncKept == MaxDeaths <= 1 => (IInv /\ Sync /\ [Next]_vars => Sync')
<1> SUFFICES ASSUME MaxDeaths <= 1, IInv, Sync, [Next]_vars PROVE Sync'
  OBVIOUS
<1>1. Lined'
  BY LinedKept DEF Sync
<1>2. CASE Next
  BY <1>1, <1>2, PlacesKept, EWithinKept, EOwnKept, StopPlacedKept, FewLateKept,
     ValuesOwnKept DEF Sync
<1>3. CASE UNCHANGED vars
  BY <1>1, <1>3 DEF vars, Sync, Places, EWithin, EClear, EAfterDeath, Within, NoneOf, EOwn,
     StopPlaced, FewLate, Late, ValuesOwn, PollsKept
<1> QED BY <1>2, <1>3

(* A row holds the answers to its own questions (UpdateMysql after GetTC,  *)
(* GetP, GetE and checkIfON), and no answer is left on the line, whatever  *)
(* the cooler's pace and the number of lines thrown on a stop: provided    *)
(* the process dies at most once between two rows.  With two deaths it is  *)
(* not true: enough questions are left unread for all the polls of a pass  *)
(* to read the answers to an earlier one.                                  *)
THEOREM RowCorrect == ASSUME MaxDeaths <= 1 PROVE Spec => []RowAnswersItself
<1>1. Init => IInv /\ Sync
  BY Initial, SyncInitially
<1>2. (IInv /\ Sync) /\ [Next]_vars => (IInv /\ Sync)'
  BY Inductive, SyncKept
<1>3. IInv /\ Sync => RowAnswersItself
  <2> SUFFICES ASSUME IInv, Sync, step = "UpdateMysql" PROVE RowAnswersItself
    BY DEF RowAnswersItself
  <2>1. Len(line) = 0 /\ line \in Seq(Lines)
    BY RowEmpty DEF IInv, TypeOK
  <2>2. line = <<>>
    BY <2>1, EmptySeq
  <2>3. PollsKept(4) /\ kept.ControllerMode \in {NoLine, <<"PID", 2>>, <<"PID=0", 2>>}
    BY DEF Sync, ValuesOwn
  <2> QED BY <2>2, <2>3 DEF PollsKept, RowAnswersItself
<1> QED BY <1>1, <1>2, <1>3, PTL DEF Spec
=============================================================================
