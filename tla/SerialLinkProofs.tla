--------------------------- MODULE SerialLinkProofs ---------------------------
(***************************************************************************)
(* Proofs about the serial link of the ESP32, for any times, buffers,       *)
(* commands and answers: what the task and the main loop share keeps its    *)
(* type, every read is counted once, and the optional PCB is served in time *)
(* however long the main loop hangs.                                       *)
(***************************************************************************)
EXTENDS MCSerialLink, SequenceTheorems, TLAPS

\* The numbers of the assumptions, as the steps need them.
LEMMA Times ==
  /\ SERIALTIMEOUT \in Nat /\ OPTIONALPCBQUERYTIME \in Nat /\ OPTIONALPCBQUERYTIME > 0
  /\ TaskTimeout \in Nat /\ LongestWait \in Nat /\ LongestWait = TaskTimeout + 1
  /\ MaxOvertakes \in Nat /\ MaxUnanswered \in Nat /\ RxBuffer \in Nat
  /\ MAXDATA \in Nat /\ MAXDATA > 2 /\ MAXCOMMANDSINBUFFER \in Nat
  BY LinkAssumption DEF TaskTimeout, LongestWait

\* One more request that overtakes, one more wait.
LEMMA OneMoreWait ==
  ASSUME NEW n \in Nat
  PROVE  /\ Silence(n) \in Nat /\ Silence(n) >= LongestWait
         /\ Silence(n) - LongestWait >= OPTIONALPCBQUERYTIME - 1
         /\ Silence(n + 1) = Silence(n) + LongestWait
<1>1. \A a, b \in Nat : (a + 1) * b = a * b + b /\ a * b \in Nat
  OBVIOUS
<1>2. /\ (n + 1) * LongestWait = n * LongestWait + LongestWait
      /\ (n + 1 + 1) * LongestWait = (n + 1) * LongestWait + LongestWait
      /\ n * LongestWait \in Nat /\ (n + 1) * LongestWait \in Nat
  BY <1>1, Times
<1> QED BY <1>2, Times DEF Silence

LEMMA CapType == SilenceCap \in Nat
<1>1. CASE MaxOvertakes = 0
  BY <1>1, Times DEF SilenceCap, Silence
<1>2. CASE MaxOvertakes # 0
  <2>1. MaxOvertakes - 1 \in Nat
    BY <1>2, Times
  <2> QED BY <2>1, OneMoreWait DEF SilenceCap
<1> QED BY <1>1, <1>2

\* What counts to a limit stays within it.
LEMMA ElapsedType ==
  ASSUME NEW limit \in Nat, NEW age \in 0 .. limit
  PROVE  /\ Elapsed(age, limit) \in 0 .. limit
         /\ Elapsed(age, limit) = age + 1 \/ (age = limit /\ Elapsed(age, limit) = limit)
  BY DEF Elapsed

-----------------------------------------------------------------------------
(* The state is well formed and the reads add up.                           *)

LEMMA SetupType ==
  ASSUME TypeOK
  PROVE  optionalPCB \in BOOLEAN /\ waitTime \in Nat /\ setup.commands \subseteq Command
  BY LinkAssumption DEF TypeOK, optionalPCB, waitTime

\* What is read goes from one buffer to the other.
LEMMA ReceivedType ==
  ASSUME TypeOK
  PROVE  /\ Taken \in Nat /\ Taken <= Len(rx)
         /\ Received \in Seq(Part) /\ Len(Received) = Len(data) + Taken
         /\ data # <<>> => Received[1] = data[1]
         /\ SubSeq(rx, Taken + 1, Len(rx)) \in Seq(Part)
         /\ Len(SubSeq(rx, Taken + 1, Len(rx))) <= RxBuffer
<1>1. /\ rx \in Seq(Part) /\ data \in Seq(Part) /\ Len(rx) \in Nat /\ Len(data) \in Nat
      /\ Len(data) <= 2 /\ Len(rx) <= RxBuffer /\ MAXDATA \in Nat /\ MAXDATA > 2 /\ RxBuffer \in Nat
  BY Times, LenProperties DEF TypeOK
<1>2. Taken \in Nat /\ Taken <= Len(rx)
  BY <1>1 DEF Taken
<1>3. \A i \in 1 .. Len(rx) : rx[i] \in Part
  BY <1>1, ElementOfSeq
<1>4. SubSeq(rx, 1, Taken) \in Seq(Part) /\ Len(SubSeq(rx, 1, Taken)) = Taken
  <2>1. \A i \in 1 .. Taken : rx[i] \in Part
    BY <1>1, <1>2, <1>3
  <2> QED BY <2>1, <1>2, SubSeqProperties
<1>5. /\ SubSeq(rx, Taken + 1, Len(rx)) \in Seq(Part)
      /\ Len(SubSeq(rx, Taken + 1, Len(rx))) <= RxBuffer
  <2>1. \A i \in Taken + 1 .. Len(rx) : rx[i] \in Part
    BY <1>1, <1>2, <1>3
  <2>2. /\ SubSeq(rx, Taken + 1, Len(rx)) \in Seq(Part)
        /\ Len(SubSeq(rx, Taken + 1, Len(rx))) =
             IF Taken + 1 <= Len(rx) THEN Len(rx) - (Taken + 1) + 1 ELSE 0
    BY <2>1, <1>1, <1>2, SubSeqProperties
  <2> QED BY <2>2, <1>1, <1>2
<1> DEFINE new == SubSeq(rx, 1, Taken)
<1>6. Received = data \o new
  BY DEF Received
<1> HIDE DEF new
<1>7. /\ data \o new \in Seq(Part) /\ Len(data \o new) = Len(data) + Len(new)
      /\ \A i \in 1 .. Len(data) + Len(new) :
           (data \o new)[i] = IF i <= Len(data) THEN data[i] ELSE new[i - Len(data)]
  BY <1>1, <1>4, ConcatProperties DEF new
<1>8. Len(new) = Taken
  BY <1>4 DEF new
<1>9. ASSUME data # <<>>
      PROVE  (data \o new)[1] = data[1]
  <2>1. Len(data) > 0
    BY <1>1, <1>9, EmptySeq
  <2> QED BY <2>1, <1>1, <1>2, <1>7, <1>8
<1> QED BY <1>2, <1>5, <1>6, <1>7, <1>8, <1>9

\* A read that is over had begun, and one that goes on fits.
LEMMA ReadIsCounted ==
  ASSUME TypeOK, ReadsAddUp, readSerial
  PROVE  /\ data' \in Seq(Part) /\ Len(data') <= 2
         /\ readsOpen' = IF data' = <<>> THEN 0 ELSE 1
<1> DEFINE d == Received
           over == BadHeader(d) \/ TooLong(d) \/ Complete(d)
           total == readsOpen + (IF data = <<>> /\ Taken > 0 THEN 1 ELSE 0)
<1>1. /\ data' = IF over THEN <<>> ELSE d
      /\ readsOpen' = IF over THEN total - 1 ELSE total
  BY DEF readSerial
<1>2. /\ d \in Seq(Part) /\ Len(d) = Len(data) + Taken /\ Taken \in Nat /\ Len(data) \in Nat
      /\ Len(d) \in Nat /\ data \in Seq(Part) /\ MAXDATA > 2 /\ MAXDATA \in Nat
  BY ReceivedType, Times, LenProperties DEF TypeOK
<1>3. (data = <<>> <=> Len(data) = 0) /\ (d = <<>> <=> Len(d) = 0)
  BY <1>2, EmptySeq
<1> HIDE DEF d
<1>4. total = IF d = <<>> THEN 0 ELSE 1
  BY <1>2, <1>3 DEF ReadsAddUp
<1>5. d = <<>> => ~over
  BY <1>2, <1>3 DEF BadHeader, TooLong, Complete
<1>6. ~over => Len(d) <= 2
  BY <1>2 DEF TooLong
<1>7. CASE over
  BY <1>1, <1>4, <1>5, <1>7, EmptySeq
<1>8. CASE ~over
  BY <1>1, <1>2, <1>4, <1>6, <1>8
<1> QED BY <1>7, <1>8

Tx == [at : {"delay", "free", "pcb", "query", "extra", "command", "mark", "write"},
       kind : Kind \cup {"none"}]

\* Each step of the task leaves the state well formed.
LEMMA TaskKeepsLink ==
  ASSUME LinkIsConsistent, serialTXTask
  PROVE  LinkIsConsistent'
<1> USE DEF LinkIsConsistent
<1>0. {"pcb", "query", "extra"} \subseteq Kind /\ Command \subseteq Kind
  BY DEF Kind
<1>1. /\ tx \in Tx /\ waitTime \in Nat /\ optionalPCB \in BOOLEAN
      /\ \A place \in {"delay", "free", "pcb", "query", "extra", "command", "mark", "write"},
            kind \in Kind \cup {"none"} : [at |-> place, kind |-> kind] \in Tx
  BY SetupType DEF TypeOK, Tx
<1>a. /\ [at |-> "query", kind |-> "none"] \in Tx /\ [at |-> "extra", kind |-> "none"] \in Tx
      /\ [at |-> "command", kind |-> "none"] \in Tx
      /\ \A kind \in Kind : [at |-> "mark", kind |-> kind] \in Tx
  BY DEF Tx
<1>b. /\ [at |-> "mark", kind |-> "pcb"] \in Tx /\ [at |-> "mark", kind |-> "query"] \in Tx
      /\ [at |-> "mark", kind |-> "extra"] \in Tx
  BY <1>0, <1>a
<1>c. /\ sending \in BOOLEAN /\ pcbAge \in 0 .. OPTIONALPCBQUERYTIME /\ 0 \in 0 .. OPTIONALPCBQUERYTIME
      /\ queryAge \in 0 .. waitTime /\ 0 \in 0 .. waitTime /\ extraAge \in 0 .. waitTime
  BY <1>1, Times DEF TypeOK
<1>2. (UNCHANGED <<loopVars, setup>>) => ReadsAddUp' /\ setup' = setup
  BY DEF loopVars, ReadsAddUp
<1> USE DEF At, Goto, Begin, Skip, loopVars, remoteVars, pcbHistory, waitTime, optionalPCB
<1>3. CASE StartIteration
  BY <1>1, <1>2, <1>3 DEF StartIteration, TypeOK, Tx, Kind
<1>4. CASE FreeFlag
  BY <1>1, <1>2, <1>4 DEF FreeFlag, TypeOK, Tx, Kind
<1>5. CASE OfferPcb
  <2>1. tx' \in Tx /\ sending' \in BOOLEAN /\ pcbAge' \in 0 .. OPTIONALPCBQUERYTIME
    <3>1. tx' \in {[at |-> "mark", kind |-> "pcb"], [at |-> "query", kind |-> "none"]}
          /\ (sending' = TRUE \/ sending' = sending) /\ (pcbAge' = 0 \/ pcbAge' = pcbAge)
      BY <1>5 DEF OfferPcb
    <3> QED BY <3>1, <1>a, <1>b, <1>c
  <2> QED BY <1>2, <1>5, <2>1 DEF OfferPcb, TypeOK, Tx
<1>6. CASE OfferQuery
  <2>1. tx' \in Tx /\ sending' \in BOOLEAN /\ queryAge' \in 0 .. waitTime
    <3>1. tx' \in {[at |-> "mark", kind |-> "query"], [at |-> "extra", kind |-> "none"]}
          /\ (sending' = TRUE \/ sending' = sending) /\ (queryAge' = 0 \/ queryAge' = queryAge)
      BY <1>6 DEF OfferQuery
    <3> QED BY <3>1, <1>a, <1>b, <1>c
  <2> QED BY <1>2, <1>6, <2>1 DEF OfferQuery, TypeOK, Tx
<1>7. CASE OfferExtra
  <2>1. tx' \in Tx /\ sending' \in BOOLEAN /\ extraAge' \in 0 .. waitTime
    <3>1. tx' \in {[at |-> "mark", kind |-> "extra"], [at |-> "command", kind |-> "none"]}
          /\ (sending' = TRUE \/ sending' = sending) /\ (extraAge' = 0 \/ extraAge' = extraAge)
      BY <1>7 DEF OfferExtra
    <3> QED BY <3>1, <1>a, <1>b, <1>c
  <2> QED BY <1>2, <1>7, <2>1 DEF OfferExtra, TypeOK, Tx
<1>8. CASE OfferCommand
  <2>1. CASE ~sending /\ cmdQueue # <<>>
    <3>1. /\ Head(cmdQueue) \in Command /\ Tail(cmdQueue) \in Seq(Command)
          /\ Len(Tail(cmdQueue)) <= MAXCOMMANDSINBUFFER
      BY <2>1, HeadTailProperties, LenProperties, Times DEF TypeOK
    <3>2. tx' \in Tx /\ sending' = TRUE /\ cmdQueue' = Tail(cmdQueue)
      BY <1>1, <1>8, <2>1, <3>1 DEF OfferCommand, Kind
    <3> QED BY <1>2, <1>8, <3>1, <3>2 DEF OfferCommand, TypeOK, Tx
  <2>2. CASE ~(~sending /\ cmdQueue # <<>>)
    <3>1. tx' \in Tx /\ sending' = sending /\ cmdQueue' = cmdQueue
      BY <1>1, <1>8, <2>2 DEF OfferCommand
    <3> QED BY <1>2, <1>8, <3>1 DEF OfferCommand, TypeOK, Tx
  <2> QED BY <2>1, <2>2
<1>9. CASE Mark
  <2>1. tx' \in Tx /\ readAge' \in 0 .. LongestWait
    <3>1. tx' = [tx EXCEPT !.at = "write"] /\ readAge' = 0
      BY <1>9 DEF Mark
    <3>2. tx' \in Tx
      BY <3>1, <1>1 DEF Tx
    <3> QED BY <3>1, <3>2, Times
  <2> QED BY <1>2, <1>9, <2>1 DEF Mark, TypeOK, Tx
<1>10. CASE Write
  <2>1. Following(tx.kind) \in {"query", "extra", "command", "delay"}
    BY DEF Following
  <2>2. tx' \in Tx /\ wire' \in 0 .. MaxUnanswered
    <3>1. tx' = [at |-> Following(tx.kind), kind |-> "none"]
      BY <1>10 DEF Write
    <3>2. tx' \in Tx
      BY <3>1, <1>1, <2>1
    <3>3. wire' \in 0 .. MaxUnanswered
      <4>1. wire \in 0 .. MaxUnanswered /\ MaxUnanswered \in Nat
        BY Times DEF TypeOK
      <4>2. wire' = IF wire < MaxUnanswered THEN wire + 1 ELSE wire
        BY <1>10 DEF Write
      <4> QED BY <4>1, <4>2
    <3> QED BY <3>2, <3>3
  <2>3. pcbSilence' \in 0 .. SilenceCap /\ overtakes' \in 0 .. MaxOvertakes
    <3>1. /\ pcbSilence' = 0 \/ pcbSilence' = pcbSilence
          /\ overtakes' \in {0, Elapsed(overtakes, MaxOvertakes), overtakes}
      BY <1>10 DEF Write
    <3>2. pcbSilence \in 0 .. SilenceCap /\ overtakes \in 0 .. MaxOvertakes
      BY DEF TypeOK
    <3>3. Elapsed(overtakes, MaxOvertakes) \in 0 .. MaxOvertakes
      BY <3>2, Times, ElapsedType
    <3> QED BY <3>1, <3>2, <3>3, CapType, Times
  <2> QED BY <1>2, <1>10, <2>2, <2>3 DEF Write, TypeOK, Tx
<1> QED BY <1>3, <1>4, <1>5, <1>6, <1>7, <1>8, <1>9, <1>10 DEF serialTXTask

\* So does each step of the main loop.
LEMMA LoopKeepsLink ==
  ASSUME LinkIsConsistent, readHeatpump
  PROVE  LinkIsConsistent'
<1> USE DEF LinkIsConsistent, taskVars, remoteVars, pcbHistory, waitTime
<1>1. CASE CheckTimeout
  BY <1>1 DEF CheckTimeout, TypeOK, ReadsAddUp
<1>2. CASE Expire
  <2>1. readsOpen' = 0 /\ data' = <<>> /\ Len(data') <= 2 /\ data' \in Seq(Part)
    BY <1>2, EmptySeq DEF Expire, ReadsAddUp
  <2>2. /\ UNCHANGED <<readAge, cmdQueue, taskVars, extraDataBlockAvailable, remoteVars, pcbHistory>>
        /\ loop' = "read" /\ sending' = FALSE /\ readsOpen' \in Int
    BY <1>2, <2>1 DEF Expire
  <2>3. TypeOK'
    BY <2>1, <2>2 DEF TypeOK
  <2> QED BY <2>1, <2>3 DEF ReadsAddUp
<1>3. CASE CheckRead
  BY <1>3 DEF CheckRead, TypeOK, ReadsAddUp
<1>4. CASE readSerial
  <2>1. /\ data' \in Seq(Part) /\ Len(data') <= 2
        /\ readsOpen' = IF data' = <<>> THEN 0 ELSE 1
    BY <1>4, ReadIsCounted
  <2>2. rx' \in Seq(Part) /\ Len(rx') <= RxBuffer
    BY <1>4, ReceivedType DEF readSerial
  <2>3. sending' \in BOOLEAN /\ extraDataBlockAvailable' \in BOOLEAN /\ loop' = "top"
    BY <1>4 DEF readSerial, TypeOK
  <2>4. UNCHANGED <<readAge, cmdQueue, taskVars, wire, answering, pcbHistory>>
    BY <1>4 DEF readSerial
  <2> HIDE DEF LinkIsConsistent
  <2>5. TypeOK
    BY DEF LinkIsConsistent
  <2>6. readsOpen' \in Int
    BY <2>1
  <2>7. TypeOK'
    BY <2>1, <2>2, <2>3, <2>4, <2>5, <2>6 DEF TypeOK
  <2> QED BY <2>1, <2>7 DEF LinkIsConsistent, ReadsAddUp
<1> QED BY <1>1, <1>2, <1>3, <1>4 DEF readHeatpump

\* So do commands, answers and the time.
LEMMA SurroundingsKeepLink ==
  ASSUME LinkIsConsistent,
         (\E c \in setup.commands : send_command(c)) \/ BeginAnswer \/ EndAnswer \/ NoAnswer \/ Tick
  PROVE  LinkIsConsistent'
<1> USE DEF LinkIsConsistent, taskVars, loopVars, remoteVars, pcbHistory
<1>1. ASSUME NEW c \in setup.commands, send_command(c)
      PROVE  LinkIsConsistent'
  <2>1. c \in Command /\ cmdQueue \in Seq(Command) /\ Len(cmdQueue) \in Nat
    BY SetupType, LenProperties DEF TypeOK
  <2>2. Append(cmdQueue, c) \in Seq(Command) /\ Len(Append(cmdQueue, c)) = Len(cmdQueue) + 1
    BY <2>1, AppendProperties
  <2>3. cmdQueue' \in Seq(Command) /\ Len(cmdQueue') <= MAXCOMMANDSINBUFFER
    BY <1>1, <2>1, <2>2, Times DEF send_command
  <2> QED BY <1>1, <2>3 DEF send_command, TypeOK, ReadsAddUp, waitTime
<1>2. ASSUME NEW p \in Part, Arrives(p)
      PROVE  rx' \in Seq(Part) /\ Len(rx') <= RxBuffer
  BY <1>2, AppendProperties, LenProperties, Times DEF Arrives, TypeOK
<1>3. CASE BeginAnswer
  <2>1. rx' \in Seq(Part) /\ Len(rx') <= RxBuffer
    BY <1>2, <1>3 DEF BeginAnswer, Part
  <2>2. wire' \in 0 .. MaxUnanswered
    BY <1>3, Times DEF BeginAnswer, TypeOK
  <2> QED BY <1>3, <2>1, <2>2 DEF BeginAnswer, TypeOK, ReadsAddUp, waitTime
<1>4. CASE EndAnswer
  <2>1. rx' \in Seq(Part) /\ Len(rx') <= RxBuffer
    BY <1>2, <1>4 DEF EndAnswer, Part, TypeOK
  <2> QED BY ZenonT(60), <1>4, <2>1 DEF EndAnswer, TypeOK, ReadsAddUp, waitTime
<1>5. CASE NoAnswer
  <2>1. wire' \in 0 .. MaxUnanswered
    BY <1>5, Times DEF NoAnswer, TypeOK
  <2> QED BY <1>5, <2>1 DEF NoAnswer, TypeOK, ReadsAddUp, waitTime
<1>6. CASE Tick
  <2>1. /\ readAge' \in 0 .. LongestWait /\ pcbAge' \in 0 .. OPTIONALPCBQUERYTIME
        /\ queryAge' \in 0 .. waitTime /\ extraAge' \in 0 .. waitTime
    BY <1>6, Times, ElapsedType, SetupType DEF Tick, TypeOK
  <2>2. pcbSilence' \in 0 .. SilenceCap
    BY <1>6, CapType, ElapsedType DEF Tick, TypeOK
  <2>3. UNCHANGED <<setup, sending, cmdQueue, tx, loopVars, remoteVars, overtakes>> /\ iterated' = FALSE
    BY <1>6 DEF Tick
  <2> QED BY ZenonT(60), <2>1, <2>2, <2>3 DEF TypeOK, ReadsAddUp, waitTime
<1> QED BY <1>1, <1>3, <1>4, <1>5, <1>6

LEMMA InitialLink ==
  ASSUME Init
  PROVE  LinkIsConsistent
<1>1. waitTime \in Nat
  BY LinkAssumption DEF Init, waitTime
<1>2. /\ <<>> \in Seq(Part) /\ <<>> \in Seq(Command) /\ Len(<<>>) = 0
  BY EmptySeq
<1>3. /\ readAge \in 0 .. LongestWait /\ pcbAge \in 0 .. OPTIONALPCBQUERYTIME
      /\ queryAge \in 0 .. waitTime /\ extraAge \in 0 .. waitTime
      /\ wire \in 0 .. MaxUnanswered /\ pcbSilence \in 0 .. SilenceCap
      /\ overtakes \in 0 .. MaxOvertakes
  BY <1>1, Times, CapType DEF Init
<1>4. TypeOK
  <2>1. tx \in Tx /\ setup \in Setup /\ loop = "top" /\ data = <<>> /\ rx = <<>> /\ cmdQueue = <<>>
    BY DEF Init, Tx
  <2>2. /\ sending \in BOOLEAN /\ iterated \in BOOLEAN /\ extraDataBlockAvailable \in BOOLEAN
        /\ answering \in BOOLEAN /\ readsOpen = 0
    BY DEF Init
  <2> QED BY <1>2, <1>3, <2>1, <2>2, Times DEF TypeOK, Tx
<1> QED BY <1>4 DEF Init, LinkIsConsistent, ReadsAddUp

LEMMA NextKeepsLink ==
  ASSUME LinkIsConsistent, [Next]_vars
  PROVE  LinkIsConsistent'
<1>1. CASE UNCHANGED vars
  BY <1>1 DEF vars, taskVars, loopVars, remoteVars, pcbHistory, LinkIsConsistent, TypeOK,
              ReadsAddUp, waitTime
<1> QED BY <1>1, TaskKeepsLink, LoopKeepsLink, SurroundingsKeepLink DEF Next

\* What the task and the main loop share stays well formed at every step of either, and each
\* read that was begun is counted once as good or as one of the failures (readSerial,
\* readHeatpump), whenever the task clears the flag between them.
THEOREM LinkStaysConsistent ==
  Spec => []LinkIsConsistent
<1>1. Init => LinkIsConsistent
  BY InitialLink
<1>2. LinkIsConsistent /\ [Next]_vars => LinkIsConsistent'
  BY NextKeepsLink
<1> QED BY <1>1, <1>2, PTL DEF Spec

-----------------------------------------------------------------------------
(* The optional PCB is served in time.                                     *)

LEMMA InitialWait ==
  ASSUME Init
  PROVE  PcbWaitsForAnswers
<1>1. Silence(0) \in Nat
  BY OneMoreWait
<1>2. /\ tx.at = "delay" /\ tx.kind = "none" /\ iterated = FALSE /\ sending = FALSE
      /\ pcbAge = OPTIONALPCBQUERYTIME /\ overtakes = 0 /\ pcbSilence = 0
  BY DEF Init
<1> QED BY <1>1, <1>2, Times DEF PcbWaitsForAnswers, HasLooked, InOffers, At

\* The facts of the times that the steps compare.
LEMMA WaitFacts ==
  ASSUME LinkIsConsistent
  PROVE  /\ sending \in BOOLEAN /\ iterated \in BOOLEAN /\ optionalPCB \in BOOLEAN
         /\ readAge \in Nat /\ readAge <= LongestWait
         /\ pcbAge \in Nat /\ pcbAge <= OPTIONALPCBQUERYTIME
         /\ pcbSilence \in Nat /\ pcbSilence <= SilenceCap
         /\ overtakes \in Nat /\ overtakes <= MaxOvertakes
         /\ Silence(overtakes) \in Nat /\ Silence(overtakes) >= LongestWait
         /\ Silence(overtakes) - LongestWait >= OPTIONALPCBQUERYTIME - 1
         /\ Silence(overtakes + 1) = Silence(overtakes) + LongestWait
<1>1. overtakes \in Nat /\ overtakes <= MaxOvertakes
  BY Times DEF LinkIsConsistent, TypeOK
<1>2. /\ Silence(overtakes) \in Nat /\ Silence(overtakes) >= LongestWait
      /\ Silence(overtakes) - LongestWait >= OPTIONALPCBQUERYTIME - 1
      /\ Silence(overtakes + 1) = Silence(overtakes) + LongestWait
  BY <1>1, OneMoreWait
<1>3. optionalPCB \in BOOLEAN
  BY SetupType DEF LinkIsConsistent
<1> QED BY <1>1, <1>2, <1>3, Times, CapType DEF LinkIsConsistent, TypeOK

\* The invariant, taken apart.
LEMMA WaitParts ==
  ASSUME PcbWaitsForAnswers
  PROVE  /\ tx.kind = "pcb" => tx.at \in {"mark", "write"}
         /\ sending /\ (At("pcb") \/ HasLooked) /\ ~At("mark") => readAge <= TaskTimeout
         /\ optionalPCB /\ pcbAge < OPTIONALPCBQUERYTIME /\ tx.kind # "pcb" => pcbSilence <= pcbAge
         /\ optionalPCB /\ overtakes < MaxOvertakes => pcbSilence <= Silence(overtakes)
         /\ optionalPCB /\ overtakes < MaxOvertakes /\ HasLooked /\ tx.kind # "pcb" =>
              pcbSilence < Silence(overtakes)
         /\ optionalPCB /\ overtakes < MaxOvertakes /\ sending /\ tx.at \notin {"mark", "write"} =>
              pcbSilence <= readAge + Silence(overtakes) - LongestWait
  BY DEF PcbWaitsForAnswers

\* What only lowers the flag, or leaves the task alone, keeps what the task waits for.
LEMMA OthersKeepWait ==
  ASSUME LinkIsConsistent, PcbWaitsForAnswers,
         UNCHANGED <<tx, iterated, pcbAge, readAge, pcbSilence, overtakes, setup>>,
         sending' => sending
  PROVE  PcbWaitsForAnswers'
<1>1. /\ tx' = tx /\ iterated' = iterated /\ pcbAge' = pcbAge /\ readAge' = readAge
      /\ pcbSilence' = pcbSilence /\ overtakes' = overtakes /\ optionalPCB' = optionalPCB
  BY DEF optionalPCB
<1> QED BY <1>1 DEF PcbWaitsForAnswers, HasLooked, InOffers, At

\* The main loop and the heat pump never raise the flag, and leave the task alone.
LEMMA OthersLeaveTask ==
  ASSUME readHeatpump \/ (\E c \in setup.commands : send_command(c))
             \/ BeginAnswer \/ EndAnswer \/ NoAnswer \/ UNCHANGED vars
  PROVE  /\ UNCHANGED <<tx, iterated, pcbAge, readAge, pcbSilence, overtakes, setup>>
         /\ sending' => sending
<1> USE DEF taskVars, pcbHistory
<1>1. CASE CheckTimeout
  BY <1>1 DEF CheckTimeout
<1>2. CASE Expire
  BY <1>2 DEF Expire
<1>3. CASE CheckRead
  BY <1>3 DEF CheckRead
<1>4. CASE readSerial
  BY <1>4 DEF readSerial
<1>5. CASE \E c \in setup.commands : send_command(c)
  BY <1>5 DEF send_command
<1>6. CASE BeginAnswer
  BY <1>6 DEF BeginAnswer
<1>7. CASE EndAnswer
  BY <1>7 DEF EndAnswer
<1>8. CASE NoAnswer
  BY <1>8 DEF NoAnswer
<1>9. CASE UNCHANGED vars
  BY <1>9 DEF vars
<1> QED BY <1>1, <1>2, <1>3, <1>4, <1>5, <1>6, <1>7, <1>8, <1>9 DEF readHeatpump

LEMMA TaskKeepsWait ==
  ASSUME LinkIsConsistent, PcbWaitsForAnswers, serialTXTask
  PROVE  PcbWaitsForAnswers'
<1> USE DEF At, Goto, Begin, Skip, HasLooked, InOffers
<1>1. /\ optionalPCB' = optionalPCB
  BY DEF serialTXTask, StartIteration, FreeFlag, OfferPcb, OfferQuery, OfferExtra, OfferCommand,
         Mark, Write, pcbHistory, optionalPCB
<1>2. CASE StartIteration
  <2>1. /\ tx.at = "delay" /\ tx' = [at |-> "free", kind |-> "none"] /\ iterated' = TRUE
        /\ UNCHANGED <<sending, readAge, pcbAge, pcbSilence, overtakes>>
    BY <1>2 DEF StartIteration, pcbHistory
  <2> QED BY <1>1, <2>1, WaitParts, WaitFacts DEF PcbWaitsForAnswers
<1>3. CASE FreeFlag
  <2>1. /\ tx.at = "free" /\ tx' = [at |-> "pcb", kind |-> "none"]
        /\ sending' = (sending /\ readAge <= TaskTimeout)
        /\ UNCHANGED <<iterated, readAge, pcbAge, pcbSilence, overtakes>>
    BY <1>3 DEF FreeFlag, pcbHistory
  <2> QED BY <1>1, <2>1, WaitParts, WaitFacts DEF PcbWaitsForAnswers
<1>4. CASE OfferPcb
  <2>1. /\ tx.at = "pcb" /\ UNCHANGED <<readAge, iterated, pcbSilence, overtakes>>
    BY <1>4 DEF OfferPcb, pcbHistory
  <2>2. CASE ~sending /\ pcbAge >= OPTIONALPCBQUERYTIME /\ optionalPCB
    <3>1. pcbAge' = 0 /\ sending' = TRUE /\ tx' = [at |-> "mark", kind |-> "pcb"]
      BY <1>4, <2>2 DEF OfferPcb
    <3> QED BY <1>1, <2>1, <3>1, WaitParts, WaitFacts DEF PcbWaitsForAnswers
  <2>3. CASE ~sending /\ pcbAge >= OPTIONALPCBQUERYTIME /\ ~optionalPCB
    <3>1. sending' = sending /\ tx' = [at |-> "query", kind |-> "none"]
      BY <1>4, <2>3 DEF OfferPcb
    <3> QED BY <1>1, <2>1, <2>3, <3>1, WaitParts, WaitFacts DEF PcbWaitsForAnswers
  <2>4. CASE ~(~sending /\ pcbAge >= OPTIONALPCBQUERYTIME)
    <3>1. sending' = sending /\ tx' = [at |-> "query", kind |-> "none"] /\ pcbAge' = pcbAge
      BY <1>4, <2>4 DEF OfferPcb
    <3>2. tx.kind # "pcb"
      BY <2>1, WaitParts
    <3>3. optionalPCB /\ overtakes < MaxOvertakes => pcbSilence < Silence(overtakes)
      <4>1. CASE sending
        BY <4>1, <2>1, WaitParts, WaitFacts, Times
      <4>2. CASE ~sending
        BY <4>2, <2>4, <3>2, WaitParts, WaitFacts, Times
      <4> QED BY <4>1, <4>2
    <3> QED BY <1>1, <2>1, <3>1, <3>2, <3>3, WaitParts, WaitFacts DEF PcbWaitsForAnswers
  <2> QED BY <2>2, <2>3, <2>4
<1>5. ASSUME tx.at \in {"query", "extra", "command"},
             UNCHANGED <<readAge, iterated, pcbAge, pcbSilence, overtakes>>,
             \/ /\ sending' = TRUE /\ tx'.at = "mark" /\ tx'.kind # "pcb"
             \/ /\ sending' = sending /\ tx'.at \in {"extra", "command", "delay"}
                /\ tx'.kind = "none"
      PROVE  PcbWaitsForAnswers'
  <2>1. tx.kind # "pcb"
    BY <1>5, WaitParts
  <2>2. optionalPCB /\ overtakes < MaxOvertakes => pcbSilence < Silence(overtakes)
    BY <1>5, <2>1, WaitParts
  <2> QED BY <1>1, <1>5, <2>1, <2>2, WaitParts, WaitFacts DEF PcbWaitsForAnswers
<1>6. CASE OfferQuery
  <2>1. /\ tx.at = "query"
        /\ UNCHANGED <<readAge, iterated, pcbAge, pcbSilence, overtakes>>
        /\ \/ sending' = TRUE /\ tx' = [at |-> "mark", kind |-> "query"]
           \/ sending' = sending /\ tx' = [at |-> "extra", kind |-> "none"]
    BY <1>6 DEF OfferQuery, pcbHistory
  <2>2. \/ sending' = TRUE /\ tx'.at = "mark" /\ tx'.kind # "pcb"
        \/ sending' = sending /\ tx'.at \in {"extra", "command", "delay"} /\ tx'.kind = "none"
    BY <2>1
  <2>3. tx.at \in {"query", "extra", "command"}
    BY <2>1
  <2> QED BY <1>5, <2>1, <2>2, <2>3
<1>7. CASE OfferExtra
  <2>1. /\ tx.at = "extra"
        /\ UNCHANGED <<readAge, iterated, pcbAge, pcbSilence, overtakes>>
        /\ \/ sending' = TRUE /\ tx' = [at |-> "mark", kind |-> "extra"]
           \/ sending' = sending /\ tx' = [at |-> "command", kind |-> "none"]
    BY <1>7 DEF OfferExtra, pcbHistory
  <2>2. \/ sending' = TRUE /\ tx'.at = "mark" /\ tx'.kind # "pcb"
        \/ sending' = sending /\ tx'.at \in {"extra", "command", "delay"} /\ tx'.kind = "none"
    BY <2>1
  <2>3. tx.at \in {"query", "extra", "command"}
    BY <2>1
  <2> QED BY <1>5, <2>1, <2>2, <2>3
<1>8. CASE OfferCommand
  <2>1. cmdQueue # <<>> => Head(cmdQueue) # "pcb"
    <3>1. cmdQueue \in Seq(Command) /\ "pcb" \notin Command
      BY LinkAssumption DEF LinkIsConsistent, TypeOK
    <3> QED BY <3>1, HeadTailProperties
  <2>2. /\ tx.at = "command"
        /\ UNCHANGED <<readAge, iterated, pcbAge, pcbSilence, overtakes>>
        /\ \/ cmdQueue # <<>> /\ sending' = TRUE
              /\ tx' = [at |-> "mark", kind |-> Head(cmdQueue)]
           \/ sending' = sending /\ tx' = [at |-> "delay", kind |-> "none"]
    BY <1>8 DEF OfferCommand, pcbHistory
  <2>3. \/ sending' = TRUE /\ tx'.at = "mark" /\ tx'.kind # "pcb"
        \/ sending' = sending /\ tx'.at \in {"extra", "command", "delay"} /\ tx'.kind = "none"
    BY <2>1, <2>2
  <2>4. tx.at \in {"query", "extra", "command"}
    BY <2>2
  <2> QED BY <1>5, <2>2, <2>3, <2>4
<1>9. CASE Mark
  <2>1. /\ tx.at = "mark" /\ readAge' = 0 /\ tx'.at = "write" /\ tx'.kind = tx.kind
        /\ UNCHANGED <<sending, iterated, pcbAge, pcbSilence, overtakes>>
    BY <1>9 DEF Mark, pcbHistory, LinkIsConsistent, TypeOK
  <2> QED BY <1>1, <2>1, WaitParts, WaitFacts, Times DEF PcbWaitsForAnswers
<1>10. CASE Write
  <2>1. /\ tx.at = "write" /\ tx' = [at |-> Following(tx.kind), kind |-> "none"]
        /\ UNCHANGED <<sending, readAge, iterated, pcbAge>>
        /\ pcbSilence' = IF tx.kind = "pcb" THEN 0 ELSE pcbSilence
    BY <1>10 DEF Write
  <2>2. tx'.at \in {"query", "extra", "command", "delay"} /\ tx'.kind = "none"
    BY <2>1 DEF Following
  <2>3. CASE tx.kind = "pcb"
    <3>1. overtakes' = 0 /\ pcbSilence' = 0
      BY <1>10, <2>1, <2>3 DEF Write
    <3>2. /\ Silence(0) \in Nat /\ Silence(0) >= LongestWait
          /\ Silence(0) - LongestWait >= OPTIONALPCBQUERYTIME - 1
      BY OneMoreWait
    <3> QED BY <1>1, <2>1, <2>2, <3>1, <3>2, WaitParts, WaitFacts, Times DEF PcbWaitsForAnswers
  <2>4. CASE tx.kind # "pcb" /\ PcbIsDue
    <3>1. overtakes' = Elapsed(overtakes, MaxOvertakes) /\ pcbSilence' = pcbSilence
      BY <1>10, <2>1, <2>4 DEF Write
    <3>2. \/ overtakes' = overtakes + 1 /\ overtakes < MaxOvertakes
          \/ overtakes' = MaxOvertakes
      BY <3>1, WaitFacts, Times DEF Elapsed
    <3> QED BY <1>1, <2>1, <2>2, <2>4, <3>1, <3>2, WaitParts, WaitFacts, Times
         DEF PcbWaitsForAnswers
  <2>5. CASE tx.kind # "pcb" /\ ~PcbIsDue
    <3>1. overtakes' = overtakes /\ pcbSilence' = pcbSilence
      BY <1>10, <2>1, <2>5 DEF Write
    <3>2. optionalPCB => pcbAge < OPTIONALPCBQUERYTIME
      BY <2>5, WaitFacts, Times DEF PcbIsDue
    <3> QED BY <1>1, <2>1, <2>2, <2>5, <3>1, <3>2, WaitParts, WaitFacts, Times
         DEF PcbWaitsForAnswers
  <2> QED BY <2>3, <2>4, <2>5
<1> QED BY <1>2, <1>3, <1>4, <1>6, <1>7, <1>8, <1>9, <1>10 DEF serialTXTask

\* A tick comes only after the task has looked.
LEMMA TickKeepsWait ==
  ASSUME LinkIsConsistent, PcbWaitsForAnswers, Tick
  PROVE  PcbWaitsForAnswers'
<1> USE DEF At, HasLooked, InOffers
<1>1. /\ tx.at = "delay" /\ iterated /\ iterated' = FALSE /\ tx' = tx /\ sending' = sending
      /\ overtakes' = overtakes /\ optionalPCB' = optionalPCB
      /\ readAge' = Elapsed(readAge, LongestWait)
      /\ pcbAge' = Elapsed(pcbAge, OPTIONALPCBQUERYTIME)
      /\ optionalPCB => pcbSilence' = Elapsed(pcbSilence, SilenceCap)
  BY DEF Tick, optionalPCB
<1>2. tx.kind # "pcb"
  BY <1>1, WaitParts
<1>3. sending => readAge' = readAge + 1
  BY <1>1, WaitParts, WaitFacts, Times DEF Elapsed
<1>4. optionalPCB => pcbSilence' \in Nat /\ pcbSilence' <= pcbSilence + 1
  BY <1>1, WaitFacts, CapType DEF Elapsed
<1>5. pcbAge' < OPTIONALPCBQUERYTIME => pcbAge' = pcbAge + 1 /\ pcbAge < OPTIONALPCBQUERYTIME
  BY <1>1, WaitFacts, Times DEF Elapsed
<1> QED BY <1>1, <1>2, <1>3, <1>4, <1>5, WaitParts, WaitFacts, Times DEF PcbWaitsForAnswers

\* However long the main loop is held up and whatever the heat pump answers, the requests of
\* the optional PCB are no further apart than its period and one longest wait, and one more
\* for each request that overtook a due one (serialTXTask; OptionalPCB.md).
THEOREM PcbIsServedInTime ==
  Spec => []PcbIsRegular
<1> DEFINE IInv == LinkIsConsistent /\ PcbWaitsForAnswers
<1>1. Init => IInv
  BY InitialLink, InitialWait
<1>2. IInv /\ [Next]_vars => IInv'
  <2> SUFFICES ASSUME LinkIsConsistent, PcbWaitsForAnswers, [Next]_vars
               PROVE  LinkIsConsistent' /\ PcbWaitsForAnswers'
    OBVIOUS
  <2>1. LinkIsConsistent'
    BY NextKeepsLink
  <2>2. CASE serialTXTask
    BY <2>1, <2>2, TaskKeepsWait
  <2>3. CASE readHeatpump \/ (\E c \in setup.commands : send_command(c))
             \/ BeginAnswer \/ EndAnswer \/ NoAnswer \/ UNCHANGED vars
    <3>1. /\ UNCHANGED <<tx, iterated, pcbAge, readAge, pcbSilence, overtakes, setup>>
          /\ sending' => sending
      BY <2>3, OthersLeaveTask
    <3> QED BY <2>1, <3>1, OthersKeepWait
  <2>4. CASE Tick
    BY <2>1, <2>4, TickKeepsWait
  <2> QED BY <2>2, <2>3, <2>4 DEF Next
<1>3. IInv => PcbIsRegular
  BY DEF PcbWaitsForAnswers, PcbIsRegular
<1> QED BY <1>1, <1>2, <1>3, PTL DEF Spec

==============================================================================
