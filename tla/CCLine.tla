------------------------------- MODULE CCLine -------------------------------
(***************************************************************************)
(* The cooler drone's line (SerialDeviceT.cpp) under its loop              *)
(* (CCDroneStart.cpp, Cryocooler.cpp), line by line.  The cooler answers   *)
(* every question with an echo and one or more lines, but at its own pace. *)
(* Nothing on the line says which question a line answers: when the drone  *)
(* stops waiting for one (RReadLine waits for 5 s), the answer still comes *)
(* and is taken for the answer to the next question.  CCDrone, which       *)
(* treats an exchange as one step, relies on what is shown here.           *)
(*                                                                         *)
(* A line is <<q, i>>, the i-th line of the answer to q.  What the cooler  *)
(* does, when an exchange is due and what the row asks are left open.      *)
(***************************************************************************)
EXTENDS Integers, Sequences

CONSTANTS Thrown,               \* lines thrown before COMPLETE. on a stop
          MaxDeaths             \* deaths of the process between two rows

ASSUME CCLineAssumption == Thrown \in Nat /\ MaxDeaths \in Nat

VARIABLES step,                 \* the exchange, or where else the loop is
          phase,                \* of the exchange
          got,                  \* lines it has read
          line,                 \* answers not read yet, oldest line first
          here,                 \* how many of these lines have arrived
          kept,                 \* the line each value was read from
          Status,               \* of the last poll; 0 is success
          deaths                \* since the last row was inserted

vars == <<step, phase, got, line, here, kept, Status, deaths>>

Question ==
  [Construct |-> "VERSION", GetTC |-> "TC", GetP |-> "P", GetE |-> "E",
   checkIfON |-> "SSTOP", AdjustCryoPower |-> "PWOUT", GetPIDState |-> "PID",
   SetCryoMode |-> "PID=0", PowerOn |-> "SSTOP=0", PowerOff |-> "SSTOP=1",
   ShutdownCheck |-> "SSTOP", AdjustAgain |-> "PWOUT"]

Exchanges == DOMAIN Question
Questions == {Question[x] : x \in Exchanges}
Polls == {"GetTC", "GetP", "GetE", "checkIfON"}
Timed == Polls \cup {"GetPIDState", "SetCryoMode"}     \* with RReadLine

(* A stop is answered by echo and value, the lines thrown, COMPLETE., and  *)
(* what remains of that line after its carriage return.                    *)
Length(q) == IF q = "E" THEN 4 ELSE IF q = "SSTOP=1" THEN Thrown + 4 ELSE 2
Answer(q) == [i \in 1 .. Length(q) |-> <<q, i>>]
Complete == <<"SSTOP=1", Thrown + 3>>
Lines == Questions \X (1 .. Thrown + 4)

(* Whether a line parses as a number: an echo or a thrown line does not;   *)
(* nothing is known of the version.                                        *)
Parses(l) == IF l[2] = 1 \/ (l[1] = "SSTOP=1" /\ l[2] > 2) THEN {FALSE}
             ELSE IF l[1] = "VERSION" THEN BOOLEAN ELSE {TRUE}

WantedExtra(x) ==                      \* variant: line 302 not commented out
  IF x = "GetE" THEN 4 ELSE IF x = "ShutdownCheck" THEN 3 ELSE 2
WantedFifth(x) == IF x = "GetE" THEN 5 ELSE 2
                                       \* variant: one line too many

(* The lines an exchange reads, until COMPLETE. is waited for. *)
Wanted(x) == IF x = "GetE" THEN 4 ELSE 2

(* The value an exchange sets from the line it has read as the n-th.       *)
Fields == {"TC", "PCurrent", "PMax", "PMin", "PSet", "isON", "ControllerMode"}
Sets(x, n) ==
  IF n = 1 THEN {}
  ELSE IF x = "GetTC" THEN {"TC"}
  ELSE IF x = "GetP" THEN {"PCurrent"}
  ELSE IF x = "GetE" THEN {IF n = 2 THEN "PMax" ELSE IF n = 3 THEN "PMin" ELSE "PSet"}
  ELSE IF x \in {"checkIfON", "PowerOn", "ShutdownCheck"} THEN {"isON"}
  ELSE IF x \in {"GetPIDState", "SetCryoMode"} THEN {"ControllerMode"} ELSE {}

NoLine == <<"none", 0>>
Nothing == [f \in Fields |-> NoLine]

(* What follows what: the polls, the row, and every fifth and thirtieth    *)
(* pass the exchanges that are due then, which are never the same pass.    *)
Follows ==
  [Construct |-> {"Loop"}, GetTC |-> {"GetP"}, GetP |-> {"GetE"},
   GetE |-> {"checkIfON"}, checkIfON |-> {"UpdateMysql"},
   UpdateMysql |-> {"AdjustCryoPower", "SetCryoMode", "PowerOn", "PowerOff", "Loop"},
   AdjustCryoPower |-> {"GetPIDState"}, GetPIDState |-> {"Loop"},
   SetCryoMode |-> {"PowerOn", "PowerOff", "Loop"},
   PowerOn |-> {"AdjustAgain", "Loop"}, PowerOff |-> {"ShutdownCheck"},
   ShutdownCheck |-> {"AdjustAgain", "Loop"}, AdjustAgain |-> {"Loop"}]

Steps == DOMAIN Follows \cup {"Loop", "dead"}

Proceed == step' \in Follows[step] /\ phase' = "ask" /\ got' = 0
Goes(s) == step' = s /\ phase' = "ask" /\ got' = 0
-----------------------------------------------------------------------------
(* Status is not initialised: 0, or a value that is not. *)
Unset(s) == s \in {0, -1}

Init == /\ step = "Construct" /\ phase = "ask" /\ got = 0
        /\ line = <<>> /\ here = 0
        /\ kept = Nothing /\ Unset(Status) /\ deaths = 0

(* WriteString; the cooler's answer is on its way from now on. *)
Ask ==
  /\ step \in Exchanges /\ phase = "ask"
  /\ line' = line \o Answer(Question[step])
  /\ phase' = IF step \in Timed THEN "first" ELSE "read"
  /\ UNCHANGED <<step, got, here, kept, Status, deaths>>

Arrive == /\ here < Len(line) /\ here' = here + 1
          /\ UNCHANGED <<step, phase, got, line, kept, Status, deaths>>

Take == here > 0 /\ line' = Tail(line) /\ here' = here - 1

(* RReadLine: the first line, or 5 s without a byte of one.                *)
FirstLine ==
  /\ phase = "first" /\ Take
  /\ phase' = "read" /\ got' = 1
  /\ UNCHANGED <<step, kept, Status, deaths>>

TimesOut ==
  /\ phase = "first" /\ here = 0
  /\ IF step \in Polls THEN Status' = -1 /\ Goes("Loop")
                       ELSE Status' = Status /\ Proceed
  /\ UNCHANGED <<line, here, kept, deaths>>

(* ReadLine, which waits without a limit, and what is done with the line.  *)
ReadOn ==
  IF got + 1 < Wanted(step)
  THEN step' = step /\ phase' = phase /\ got' = got + 1
  ELSE IF step = "PowerOff" THEN step' = step /\ phase' = "throw" /\ got' = 0
  ELSE Proceed

ReadLine ==
  /\ phase = "read" /\ Take
  /\ ReadOn
  /\ LET set == Sets(step, got + 1)
     IN  /\ set # {} => TRUE \in Parses(Head(line))
         /\ kept' = [f \in Fields |-> IF f \in set THEN Head(line) ELSE kept[f]]
  /\ UNCHANGED <<Status, deaths>>

LooksAtTwo == {"GetTC", "GetP"}        \* variant: the result of GetE is not
                                       \* looked at
LooksAt == {"GetTC", "GetP", "GetE"}

(* A line that does not parse: an error status that the loop looks at for  *)
(* three of the polls; the other exchanges keep the old value.  checkIfON  *)
(* and PowerOn have no try block: Die.                                     *)
Unparsed ==
  /\ phase = "read" /\ Sets(step, got + 1) # {}
  /\ FALSE \in Parses(Head(line)) /\ Take
  /\ step \notin {"checkIfON", "PowerOn"}
  /\ IF step \in LooksAt THEN Status' = -2 /\ Goes("Loop")
                         ELSE Status' = Status /\ Proceed
  /\ UNCHANGED <<kept, deaths>>

(* PowerOff reads until COMPLETE. comes, then one line more. *)
Throw ==
  /\ phase = "throw" /\ Take
  /\ phase' = IF Head(line) = Complete THEN "extra" ELSE "throw"
  /\ UNCHANGED <<step, got, kept, Status, deaths>>

ExtraLine ==
  /\ phase = "extra" /\ Take
  /\ Proceed
  /\ UNCHANGED <<kept, Status, deaths>>

UpdateMysql ==
  /\ step = "UpdateMysql" /\ Proceed
  /\ deaths' = 0
  /\ UNCHANGED <<line, here, kept, Status>>

LoopAgain ==
  /\ step = "Loop" /\ Status = 0 /\ Goes("GetTC")
  /\ UNCHANGED <<line, here, kept, Status, deaths>>

(* The constructor drops what has arrived, not what is on its way.         *)
Flushed == line' = SubSeq(line, here + 1, Len(line)) /\ here' = 0

Reset ==
  /\ step = "Loop" /\ Status # 0 /\ Goes("Construct")
  /\ Flushed /\ kept' = Nothing
  /\ UNCHANGED <<Status, deaths>>

(* An uncaught exception: of a conversion (checkIfON, PowerOn), of the     *)
(* comparison of a line shorter than COMPLETE., or of the database.        *)
Die == /\ step # "dead" /\ deaths < MaxDeaths
       /\ Goes("dead") /\ deaths' = deaths + 1
       /\ UNCHANGED <<line, here, kept, Status>>

Start == /\ step = "dead" /\ Goes("Construct")
         /\ Flushed /\ kept' = Nothing
         /\ Unset(Status')
         /\ UNCHANGED deaths

Next == \/ Ask \/ Arrive \/ FirstLine \/ TimesOut \/ ReadLine \/ Unparsed
        \/ Throw \/ ExtraLine \/ UpdateMysql \/ LoopAgain \/ Reset
        \/ Die \/ Start

Spec == Init /\ [][Next]_vars
-----------------------------------------------------------------------------
TypeOK ==
  /\ step \in Steps
  /\ phase \in {"ask", "first", "read", "throw", "extra"}
  /\ got \in 0 .. 3
  /\ line \in Seq(Lines) /\ here \in 0 .. Len(line)
  /\ kept \in [Fields -> Lines \cup {NoLine}]
  /\ Status \in {0, -1, -2}
  /\ deaths \in 0 .. MaxDeaths

(* A row holds the answers to its own questions, and every answer has been *)
(* read when it is inserted: after an exchange that nobody waited out, the *)
(* polls of the next pass are shifted, and the one with more than one      *)
(* value meets an echo where a number should be.                           *)
RowAnswersItself ==
  step = "UpdateMysql" =>
    /\ line = <<>>
    /\ kept.TC = <<"TC", 2>> /\ kept.PCurrent = <<"P", 2>>
    /\ kept.PMax = <<"E", 2>> /\ kept.PMin = <<"E", 3>>
    /\ kept.isON = <<"SSTOP", 2>>
    /\ kept.ControllerMode \in {NoLine, <<"PID", 2>>, <<"PID=0", 2>>}

(* The limits for the power asked of the cooler are the maximum and the    *)
(* minimum of an answer to E, however many deaths have shifted the answers *)
(* and left an old one to be read: no other answer has three numbers for   *)
(* the three values of GetE.                                               *)
LimitsAreReported ==
  step \in {"AdjustCryoPower", "AdjustAgain"} =>
    kept.PMax = <<"E", 2>> /\ kept.PMin = <<"E", 3>>

(* Where the drone waits without a limit, a line is on its way: shifted    *)
(* answers, flushed lines and exchanges given up half-way never leave it   *)
(* one line short (a read that blocks for ever needs a cooler that does    *)
(* not answer).                                                            *)
NeverWaitsInVain == phase \in {"read", "throw", "extra"} => line # <<>>
=============================================================================
