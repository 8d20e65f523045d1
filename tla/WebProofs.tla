------------------------------ MODULE WebProofs ------------------------------
(***************************************************************************)
(* Proofs about the web interface on the SD card, which MCWeb checks beside  *)
(* the web server: for any files, uploads, refused operations and restarts,  *)
(* while one client uploads at a time.                                      *)
(***************************************************************************)
EXTENDS MCWeb, TLAPS

LEMMA SdSteps ==
  ASSUME part = "sd", [SystemNext]_svars
  PROVE  part' = part /\ [Sd!WebUiNext]_sdVars
<1>1. CASE UNCHANGED svars
  BY <1>1 DEF svars, sdVars
<1>2. CASE SystemNext
  BY <1>2 DEF SystemNext, sdVars
<1> QED BY <1>1, <1>2

LEMMA SdBegins == SystemInit /\ part = "sd" => Sd!WebUiInit
  BY DEF SystemInit

\* The other slot.
LEMMA OtherSlot ==
  ASSUME activeSlot \in Sd!Slot \cup {Sd!None}
  PROVE  Sd!TargetSlot(activeSlot) \in Sd!Slot /\ Sd!TargetSlot(activeSlot) # activeSlot
  BY DEF Sd!TargetSlot, Sd!Slot, Sd!None

\* Only the slot that is not in use changes.
LEMMA SlotInUseStays ==
  ASSUME Sd!SlotsAreApart, card,
         NEW target \in Sd!Slot, target # activeSlot, sd_slot' \in [Sd!Slot -> [File -> Int]],
         \A s \in Sd!Slot : s # target => sd_slot'[s] = sd_slot[s],
         UNCHANGED <<pending, card, cardPreviouslyReady, activeChecked, activeSlot, active, bak,
                     activated, misread>>,
         uploads' \in Int, upload' \in [Client -> Sd!Request],
         \A c \in Client : Sd!UploadIsApart(c)'
  PROVE  Sd!SlotsAreApart'
<1>1. activeSlot # Sd!None => Sd!Whole(activeSlot)'
  <2> SUFFICES ASSUME activeSlot # Sd!None PROVE Sd!Whole(activeSlot)'
    OBVIOUS
  <2>1. activeSlot \in Sd!Slot /\ sd_slot'[activeSlot] = sd_slot[activeSlot] /\ activeSlot' = activeSlot
    BY DEF Sd!SlotsAreApart
  <2> QED BY <2>1 DEF Sd!SlotsAreApart, Sd!Whole, Sd!Version
<1>2. activated /\ ~misread => Sd!Recorded' # Sd!None /\ Sd!Whole(Sd!Recorded)'
                               /\ activeSlot' = Sd!Recorded'
  <2> SUFFICES ASSUME activated, ~misread
               PROVE  Sd!Recorded' # Sd!None /\ Sd!Whole(Sd!Recorded)'
                      /\ activeSlot' = Sd!Recorded'
    OBVIOUS
  <2>1. Sd!Recorded # Sd!None /\ activeSlot = Sd!Recorded /\ Sd!Recorded' = Sd!Recorded
    BY DEF Sd!SlotsAreApart, Sd!Recorded
  <2> QED BY <1>1, <2>1 DEF Sd!Whole
<1> QED BY <1>1, <1>2 DEF Sd!SlotsAreApart

\* The loop and the pages that look for the slot in use.
LEMMA LoadKeepsApart ==
  ASSUME Sd!SlotsAreApart, Sd!Loop \/ Sd!Visit
  PROVE  Sd!SlotsAreApart'
<1>1. CASE Sd!Visit
  <2>1. /\ ~pending /\ ~card
        /\ UNCHANGED <<pending, card, cardPreviouslyReady, sd_slot, upload, uploads, activated>>
        /\ activeChecked' = TRUE /\ activeSlot' = Sd!None /\ UNCHANGED <<active, bak, misread>>
    BY <1>1 DEF Sd!Visit, Sd!SlotsAreApart, Sd!loadActiveSlot
  <2>2. \A c \in Client : Sd!UploadIsApart(c)'
    BY <2>1 DEF Sd!SlotsAreApart, Sd!UploadIsApart, Sd!Slot, Sd!None
  <2>3. Sd!Recorded' = Sd!Recorded /\ \A s \in Sd!Slot : Sd!Whole(s) => Sd!Whole(s)'
    BY <2>1 DEF Sd!Recorded, Sd!Whole
  <2>4. Sd!Recorded \in Sd!Slot \cup {Sd!None}
    BY DEF Sd!SlotsAreApart, Sd!Recorded
  <2>5. activated /\ ~misread => Sd!Recorded' # Sd!None /\ Sd!Whole(Sd!Recorded)'
    BY <2>1, <2>3, <2>4 DEF Sd!SlotsAreApart, Sd!Whole
  <2> QED BY <2>1, <2>2, <2>5 DEF Sd!SlotsAreApart
<1>2. CASE Sd!Loop
  <2>1. /\ pending' = FALSE /\ cardPreviouslyReady' = card'
        /\ UNCHANGED <<sd_slot, upload, uploads, activated>>
        /\ ~pending => card' = card
        /\ card' \in BOOLEAN
        /\ IF card' /\ ~card THEN Sd!loadActiveSlot(card')
           ELSE UNCHANGED <<activeChecked, activeSlot, active, bak, misread>>
    BY <1>2 DEF Sd!Loop, Sd!SlotsAreApart
  <2>2. CASE ~(card' /\ ~card)
    <3>1. card' = card
      <4>1. CASE pending
        BY <1>2, <2>2, <4>1 DEF Sd!Loop, Sd!SlotsAreApart
      <4> QED BY <2>1, <4>1
    <3>2. \A c \in Client : Sd!UploadIsApart(c)'
      BY <2>1, <2>2, <3>1 DEF Sd!SlotsAreApart, Sd!UploadIsApart
    <3>3. UNCHANGED <<activeChecked, activeSlot, active, bak, misread>>
      BY <2>1, <2>2
    <3> QED BY <2>1, <3>1, <3>2, <3>3 DEF Sd!SlotsAreApart, Sd!Recorded, Sd!Whole
  <2>3. CASE card' /\ ~card
    <3>1. pending /\ \A c \in Client : upload[c].state = "IDLE"
      BY <2>1, <2>3 DEF Sd!SlotsAreApart, Sd!UploadIsApart
    <3>2. \A c \in Client : Sd!UploadIsApart(c)'
      BY <2>1, <3>1 DEF Sd!UploadIsApart
    <3>3. Sd!Recorded \in Sd!Slot \cup {Sd!None}
      BY DEF Sd!SlotsAreApart, Sd!Recorded
    <3>4. activeChecked' = TRUE
      BY <2>1, <2>3 DEF Sd!loadActiveSlot
    <3>5. \A s \in Sd!Slot : Sd!Whole(s) => Sd!Whole(s)'
      BY <2>1 DEF Sd!Whole
    <3>6. CASE /\ activeSlot' = IF Sd!Recorded # Sd!None /\ Sd!Whole(Sd!Recorded)
                                THEN Sd!Recorded ELSE Sd!None
               /\ active' = Sd!Recorded
               /\ bak' = IF active = Sd!None THEN Sd!None ELSE bak
               /\ misread' = misread
      <4>1. {active', bak', activeSlot'} \subseteq Sd!Slot \cup {Sd!None}
        BY <3>3, <3>6 DEF Sd!SlotsAreApart
      <4>2. activeSlot' # Sd!None => active' = activeSlot' /\ Sd!Whole(activeSlot)'
        BY <2>1, <3>6 DEF Sd!Whole
      <4>3. Sd!Recorded' = Sd!Recorded
        BY <3>6 DEF Sd!Recorded
      <4>4. activated' /\ ~misread' => /\ Sd!Recorded' # Sd!None /\ Sd!Whole(Sd!Recorded)'
                                       /\ activeSlot' = Sd!Recorded'
        BY <2>1, <3>6, <4>3 DEF Sd!SlotsAreApart, Sd!Whole
      <4>5. /\ sd_slot' \in [Sd!Slot -> [File -> Int]] /\ upload' \in [Client -> Sd!Request]
            /\ uploads' \in Int
            /\ {pending', card', activeChecked', activated', misread'} \subseteq BOOLEAN
            /\ ~pending' /\ card' /\ cardPreviouslyReady' = card' /\ activeChecked'
        BY <2>1, <2>3, <3>4, <3>6 DEF Sd!SlotsAreApart
      <4> QED BY <3>2, <4>1, <4>2, <4>4, <4>5 DEF Sd!SlotsAreApart
    <3>7. CASE misread' = TRUE /\ activeSlot' = Sd!None /\ UNCHANGED <<active, bak>>
      BY <2>1, <2>3, <3>2, <3>4, <3>7 DEF Sd!SlotsAreApart
    <3> QED BY <2>1, <2>3, <3>6, <3>7 DEF Sd!loadActiveSlot
  <2> QED BY <2>2, <2>3
<1> QED BY <1>1, <1>2

\* A record whose state changes keeps its file.
LEMMA SameFile ==
  ASSUME NEW c \in Client, upload \in [Client -> Sd!Request], NEW s
  PROVE  [upload EXCEPT ![c].state = s]
           = [upload EXCEPT ![c] = [upload[c] EXCEPT !.state = s, !.file = upload[c].file]]
<1>1. upload[c] \in [state : Sd!States, target : Sd!Slot \cup {Sd!None}, version : Int,
                     file : File \cup {Sd!None}]
  BY DEF Sd!Request
<1>2. [upload[c] EXCEPT !.state = s] = [upload[c] EXCEPT !.state = s, !.file = upload[c].file]
  BY <1>1
<1> QED BY <1>2, Zenon

\* Uploads write to the slot they were given.
LEMMA UploadKeepsApart ==
  ASSUME Sd!SlotsAreApart, \A b, c \in Client : b = c,
         NEW c \in Client, Sd!BeginUpload(c) \/ Sd!feedTar(c) \/ Sd!Abandon(c)
  PROVE  Sd!SlotsAreApart'
<1> DEFINE u == upload[c]
<1>1. /\ u \in Sd!Request /\ Sd!UploadIsApart(c) /\ sd_slot \in [Sd!Slot -> [File -> Int]]
      /\ upload \in [Client -> Sd!Request] /\ uploads \in Int
  BY DEF Sd!SlotsAreApart
<1>2. UNCHANGED <<pending, card, cardPreviouslyReady, activeChecked, activeSlot, active, bak,
                  activated, misread>>
  BY DEF Sd!BeginUpload, Sd!feedTar, Sd!Abandon
<1>3. ASSUME sd_slot' = sd_slot, uploads' \in Int, upload' \in [Client -> Sd!Request],
             Sd!UploadIsApart(c)'
      PROVE  Sd!SlotsAreApart'
  <2>1. \A b \in Client : Sd!UploadIsApart(b)'
    BY <1>3, Zenon
  <2> QED BY <1>2, <1>3, <2>1 DEF Sd!SlotsAreApart, Sd!Whole, Sd!Recorded
<1>4. ASSUME NEW target \in Sd!Slot, target # activeSlot, card,
             sd_slot' \in [Sd!Slot -> [File -> Int]],
             \A s \in Sd!Slot : s # target => sd_slot'[s] = sd_slot[s],
             uploads' \in Int, upload' \in [Client -> Sd!Request], Sd!UploadIsApart(c)'
      PROVE  Sd!SlotsAreApart'
  <2>1. \A b \in Client : Sd!UploadIsApart(b)'
    BY <1>4, Zenon
  <2> QED BY <1>2, <1>4, <2>1, SlotInUseStays
<1>5. ASSUME NEW s \in Sd!Slot, Sd!Cleared(s) \/ Sd!PartlyCleared(s)
      PROVE  /\ sd_slot' \in [Sd!Slot -> [File -> Int]]
             /\ \A t \in Sd!Slot : t # s => sd_slot'[t] = sd_slot[t]
  <2>1. PICK files : files \in [File -> Int] /\ sd_slot' = [sd_slot EXCEPT ![s] = files]
    <3>1. CASE Sd!Cleared(s)
      <4>1. Sd!NoFiles \in [File -> Int]
        BY DEF Sd!NoFiles, Sd!Missing
      <4> QED BY <3>1, <4>1 DEF Sd!Cleared
    <3>2. CASE Sd!PartlyCleared(s)
      <4>1. PICK left \in SUBSET File :
              sd_slot' = [sd_slot EXCEPT ![s] = [f \in File |-> IF f \in left THEN sd_slot[s][f]
                                                                             ELSE Sd!Missing]]
        BY <3>2 DEF Sd!PartlyCleared
      <4>2. [f \in File |-> IF f \in left THEN sd_slot[s][f] ELSE Sd!Missing] \in [File -> Int]
        BY <1>1 DEF Sd!Missing
      <4> QED BY <4>1, <4>2
    <3> QED BY <1>5, <3>1, <3>2
  <2> QED BY <1>1, <2>1
<1>6. CASE Sd!BeginUpload(c)
  <2> DEFINE target == Sd!TargetSlot(activeSlot)
             request == [state |-> "HEADER", target |-> target, version |-> uploads + 1,
                         file |-> Sd!None]
             failed == [request EXCEPT !.state = "ERROR"]
  <2>1. target \in Sd!Slot /\ target # activeSlot
    BY OtherSlot DEF Sd!SlotsAreApart
  <2>2. ~pending /\ uploads' \in Int
    BY <1>1, <1>6 DEF Sd!BeginUpload
  <2>3. /\ request \in Sd!Request /\ request.target = target /\ request.state = "HEADER"
        /\ failed \in Sd!Request /\ failed.target = target /\ failed.state = "ERROR"
    BY <1>1, <2>1 DEF Sd!Request, Sd!States
  <2>4. \/ card /\ Sd!Cleared(target) /\ upload' = [upload EXCEPT ![c] = request]
        \/ card /\ Sd!PartlyCleared(target) /\ upload' = [upload EXCEPT ![c] = failed]
        \/ ~card /\ upload' = [upload EXCEPT ![c] = failed] /\ sd_slot' = sd_slot
    BY <1>6 DEF Sd!BeginUpload
  <2> HIDE DEF request, failed, target
  <2>5. upload' \in [Client -> Sd!Request] /\ Sd!UploadIsApart(c)'
    BY <1>1, <1>2, <2>1, <2>2, <2>3, <2>4 DEF Sd!UploadIsApart
  <2> QED BY <1>3, <1>4, <1>5, <2>1, <2>2, <2>4, <2>5
<1>7. CASE Sd!feedTar(c)
  <2>1. /\ uploads' \in Int /\ u.target \in Sd!Slot /\ u.target # activeSlot /\ card
        /\ ~pending
    BY <1>1, <1>7 DEF Sd!feedTar, Sd!StartEntry, Sd!WriteFile, Sd!UploadIsApart
  <2>2. \E new \in Sd!Request :
          /\ upload' = [upload EXCEPT ![c] = new] /\ new.target = u.target
          /\ new.state = "DATA" => new.file \in File
    <3>1. PICK state \in Sd!States, file \in File \cup {Sd!None} :
            /\ upload' = [upload EXCEPT ![c] = [u EXCEPT !.state = state, !.file = file]]
            /\ state = "DATA" => file \in File
      <4>1. CASE Sd!StartEntry(c)
        <5>1. u.file \in File \cup {Sd!None}
          BY <1>1 DEF Sd!Request
        <5>2. \/ \E f \in File :
                   upload' = [upload EXCEPT ![c] = [u EXCEPT !.state = "DATA", !.file = f]]
              \/ upload' = [upload EXCEPT ![c].state = "ERROR"]
              \/ upload' = [upload EXCEPT ![c].state = "COMPLETE"]
          BY <4>1 DEF Sd!StartEntry
        <5>3. ASSUME NEW s \in {"ERROR", "COMPLETE"}, upload' = [upload EXCEPT ![c].state = s]
              PROVE  upload' = [upload EXCEPT ![c] = [u EXCEPT !.state = s, !.file = u.file]]
          BY <1>1, <5>3, SameFile
        <5> QED BY <5>1, <5>2, <5>3 DEF Sd!States
      <4>2. CASE Sd!WriteFile(c)
        BY <4>2 DEF Sd!WriteFile, Sd!States
      <4> QED BY <1>7, <4>1, <4>2 DEF Sd!feedTar
    <3> DEFINE new == [u EXCEPT !.state = state, !.file = file]
    <3>2. new \in Sd!Request /\ new.target = u.target /\ new.state = state /\ new.file = file
      BY <1>1 DEF Sd!Request
    <3>3. /\ new \in Sd!Request /\ new.target = u.target
          /\ new.state = "DATA" => new.file \in File
          /\ upload' = [upload EXCEPT ![c] = new]
      BY <3>1, <3>2
    <3> HIDE DEF new
    <3> QED BY <3>3
  <2>3. upload' \in [Client -> Sd!Request] /\ Sd!UploadIsApart(c)'
    BY <1>1, <1>2, <2>1, <2>2 DEF Sd!UploadIsApart
  <2>4. \/ sd_slot' = sd_slot
        \/ \E f \in File, v \in Int : sd_slot' = [sd_slot EXCEPT ![u.target][f] = v]
    <3>1. CASE Sd!StartEntry(c)
      <4>1. \/ sd_slot' = sd_slot
            \/ \E f \in File : sd_slot' = [sd_slot EXCEPT ![u.target][f] = Sd!Torn]
        BY <3>1, Zenon DEF Sd!StartEntry
      <4>2. Sd!Torn \in Int
        BY DEF Sd!Torn
      <4> QED BY <4>1, <4>2
    <3>2. CASE Sd!WriteFile(c)
      <4>1. u.file \in File /\ u.version \in Int
        BY <1>1, <3>2 DEF Sd!WriteFile, Sd!UploadIsApart, Sd!Request
      <4> QED BY <3>2, <4>1 DEF Sd!WriteFile
    <3> QED BY <1>7, <3>1, <3>2 DEF Sd!feedTar
  <2>5. /\ sd_slot' \in [Sd!Slot -> [File -> Int]]
        /\ \A s \in Sd!Slot : s # u.target => sd_slot'[s] = sd_slot[s]
    <3>1. ASSUME NEW f \in File, NEW v \in Int, sd_slot' = [sd_slot EXCEPT ![u.target][f] = v]
          PROVE  \E files \in [File -> Int] : sd_slot' = [sd_slot EXCEPT ![u.target] = files]
      <4>1. [sd_slot[u.target] EXCEPT ![f] = v] \in [File -> Int]
        BY <1>1, <2>1
      <4> QED BY <3>1, <4>1, Zenon
    <3>2. ASSUME NEW files \in [File -> Int], sd_slot' = [sd_slot EXCEPT ![u.target] = files]
          PROVE  /\ sd_slot' \in [Sd!Slot -> [File -> Int]]
                 /\ \A s \in Sd!Slot : s # u.target => sd_slot'[s] = sd_slot[s]
      BY <1>1, <2>1, <3>2
    <3> QED BY <1>1, <2>4, <3>1, <3>2, Zenon
  <2> HIDE DEF u
  <2> QED BY <1>4, <2>1, <2>3, <2>5
<1>8. CASE Sd!Abandon(c)
  <2>1. /\ u.target \in Sd!Slot /\ u.target # activeSlot
        /\ uploads' \in Int /\ upload' = [upload EXCEPT ![c] = Sd!Idle]
    BY <1>1, <1>8 DEF Sd!Abandon, Sd!UploadIsApart
  <2>2. Sd!Idle \in Sd!Request /\ Sd!Idle.state = "IDLE"
    BY DEF Sd!Idle, Sd!Request, Sd!States, Sd!None, Sd!Missing
  <2>3. upload' \in [Client -> Sd!Request] /\ Sd!UploadIsApart(c)'
    BY <1>1, <2>1, <2>2 DEF Sd!UploadIsApart
  <2>4. \/ card /\ Sd!Cleared(u.target)
        \/ card /\ Sd!PartlyCleared(u.target)
        \/ sd_slot' = sd_slot
    BY <1>8 DEF Sd!Abandon
  <2> HIDE DEF u
  <2> QED BY <1>3, <1>4, <1>5, <2>1, <2>3, <2>4
<1> QED BY <1>6, <1>7, <1>8

\* The name of the slot in use changes in one step of the card, or not at all.
LEMMA FinishKeepsApart ==
  ASSUME Sd!SlotsAreApart, \A b, c \in Client : b = c, NEW c \in Client, Sd!finishUpload(c)
  PROVE  Sd!SlotsAreApart'
<1>1. /\ upload[c].state # "IDLE" /\ upload' = [upload EXCEPT ![c] = Sd!Idle]
      /\ UNCHANGED <<pending, card, cardPreviouslyReady, sd_slot, uploads>>
  BY DEF Sd!finishUpload
<1>2. Sd!UploadIsApart(c) /\ upload \in [Client -> Sd!Request]
  BY DEF Sd!SlotsAreApart
<1>3. PICK target \in Sd!Slot : target = upload[c].target /\ target # activeSlot
  BY <1>1, <1>2 DEF Sd!UploadIsApart
<1>4. Sd!Idle \in Sd!Request /\ Sd!Idle.state = "IDLE"
  BY DEF Sd!Idle, Sd!Request, Sd!States, Sd!None, Sd!Missing
<1>5. upload' \in [Client -> Sd!Request] /\ \A b \in Client : Sd!UploadIsApart(b)'
  <2>1. upload' \in [Client -> Sd!Request] /\ upload'[c].state = "IDLE"
    BY <1>1, <1>2, <1>4
  <2>2. Sd!UploadIsApart(c)'
    BY <2>1 DEF Sd!UploadIsApart
  <2> QED BY <2>1, <2>2, Zenon
<1>6. \A s \in Sd!Slot : Sd!Whole(s) <=> Sd!Whole(s)'
  BY <1>1 DEF Sd!Whole
<1>7. CASE /\ upload[c].state = "COMPLETE" /\ Sd!Whole(target)
           /\ LET disks == Sd!Disks(target) IN Sd!Disk(disks[Len(disks)])
           /\ activeSlot' = target /\ activeChecked' = TRUE /\ activated' = TRUE
           /\ misread' = FALSE
  <2>1. Len(Sd!Disks(target)) = 4
        /\ Sd!Disks(target)[4] = [active |-> target, bak |-> Sd!None]
    BY DEF Sd!Disks
  <2>2. active' = target /\ bak' = Sd!None /\ card
    BY <1>2, <1>7, <2>1 DEF Sd!Disk, Sd!UploadIsApart
  <2>3. Sd!Whole(target)' /\ Sd!Recorded' = target /\ target # Sd!None
    BY <1>3, <1>6, <1>7, <2>2 DEF Sd!Recorded, Sd!Slot, Sd!None
  <2>4. /\ activeSlot' # Sd!None => active' = activeSlot' /\ Sd!Whole(activeSlot)'
        /\ Sd!Recorded' # Sd!None /\ Sd!Whole(Sd!Recorded)' /\ activeSlot' = Sd!Recorded'
    BY <1>7, <2>2, <2>3 DEF Sd!Whole
  <2> QED BY <1>1, <1>3, <1>5, <1>7, <2>2, <2>4 DEF Sd!SlotsAreApart
<1>8. CASE /\ upload[c].state = "COMPLETE" /\ \E d \in Sd!Unchanged(target) : Sd!Disk(d)
           /\ UNCHANGED <<activeSlot, activeChecked, activated, misread>>
  <2>1. active' = active /\ bak' \in {bak, Sd!None} /\ card
    BY <1>2, <1>8 DEF Sd!Unchanged, Sd!Disk, Sd!UploadIsApart
  <2>2. activeSlot # Sd!None => active' = activeSlot' /\ Sd!Whole(activeSlot)'
    BY <1>6, <1>8, <2>1 DEF Sd!SlotsAreApart, Sd!Whole
  <2>3. activated /\ ~misread =>
          Sd!Recorded' # Sd!None /\ Sd!Whole(Sd!Recorded)' /\ activeSlot' = Sd!Recorded'
    <3> SUFFICES ASSUME activated, ~misread
                 PROVE  Sd!Recorded' # Sd!None /\ Sd!Whole(Sd!Recorded)'
                        /\ activeSlot' = Sd!Recorded'
      OBVIOUS
    <3>1. activeSlot # Sd!None /\ active' = activeSlot /\ Sd!Recorded' = activeSlot
      BY <1>8, <2>1 DEF Sd!SlotsAreApart, Sd!Recorded
    <3> QED BY <1>8, <2>2, <3>1 DEF Sd!Whole
  <2> QED BY <1>1, <1>5, <1>8, <2>1, <2>2, <2>3 DEF Sd!SlotsAreApart
<1>9. CASE UNCHANGED <<active, bak, activeSlot, activeChecked, activated, misread>>
  BY <1>1, <1>5, <1>9 DEF Sd!SlotsAreApart, Sd!Whole, Sd!Recorded
<1> QED BY <1>3, <1>7, <1>8, <1>9 DEF Sd!finishUpload

\* Whatever the card has gone through when the power fails, the slot that is found is whole.
LEMMA RestartKeepsApart ==
  ASSUME Sd!SlotsAreApart, Sd!Restart
  PROVE  Sd!SlotsAreApart'
<1>1. /\ UNCHANGED <<sd_slot, uploads, misread>> /\ upload' = [b \in Client |-> Sd!Idle]
      /\ pending' = TRUE /\ card' = FALSE /\ cardPreviouslyReady' = FALSE
      /\ activeChecked' = FALSE /\ activeSlot' = Sd!None
  BY DEF Sd!Restart
<1>2. Sd!Idle \in Sd!Request /\ Sd!Idle.state = "IDLE"
  BY DEF Sd!Idle, Sd!Request, Sd!States, Sd!None, Sd!Missing
<1>3. upload' \in [Client -> Sd!Request] /\ \A b \in Client : Sd!UploadIsApart(b)'
  BY <1>1, <1>2 DEF Sd!UploadIsApart
<1>4. \A s \in Sd!Slot : Sd!Whole(s) <=> Sd!Whole(s)'
  BY <1>1 DEF Sd!Whole
<1>5. {active, bak} \subseteq Sd!Slot \cup {Sd!None} /\ Sd!Recorded \in Sd!Slot \cup {Sd!None}
  BY DEF Sd!SlotsAreApart, Sd!Recorded
<1>6. activated /\ ~misread => Sd!Recorded # Sd!None /\ Sd!Whole(Sd!Recorded)
  BY DEF Sd!SlotsAreApart
<1>7. /\ {active', bak'} \subseteq Sd!Slot \cup {Sd!None} /\ activated' \in BOOLEAN
      /\ activated' /\ ~misread' => Sd!Recorded' # Sd!None /\ Sd!Whole(Sd!Recorded)'
  <2>1. CASE UNCHANGED <<active, bak, activated>>
    <3>1. Sd!Recorded' = Sd!Recorded
      BY <2>1 DEF Sd!Recorded
    <3>2. activated /\ ~misread => Sd!Whole(Sd!Recorded)'
      BY <1>1, <1>6, <3>1 DEF Sd!Whole
    <3> QED BY <1>1, <1>5, <1>6, <2>1, <3>1, <3>2 DEF Sd!SlotsAreApart
  <2>2. CASE \E c \in Client :
               /\ upload[c].state = "COMPLETE" /\ Sd!Whole(upload[c].target)
               /\ \E d \in {Sd!Disks(upload[c].target)[n] :
                              n \in DOMAIN Sd!Disks(upload[c].target)} :
                    Sd!Disk(d) /\ activated' = (activated \/ d.active = upload[c].target)
    <3>1. PICK c \in Client, n \in 1 .. 4 :
            /\ upload[c].state = "COMPLETE" /\ Sd!Whole(upload[c].target)
            /\ Sd!Disk(Sd!Disks(upload[c].target)[n])
            /\ activated' = (activated \/ Sd!Disks(upload[c].target)[n].active = upload[c].target)
      <4>1. \A t : DOMAIN Sd!Disks(t) = 1 .. 4
        BY DEF Sd!Disks
      <4> QED BY <2>2, <4>1
    <3>2. card /\ upload[c].target \in Sd!Slot
      BY <3>1 DEF Sd!SlotsAreApart, Sd!UploadIsApart
    <3>3. PICK t \in Sd!Slot : t = upload[c].target
      BY <3>2
    <3>4. t # Sd!None /\ Sd!Whole(t) /\ Sd!Whole(t)'
      BY <1>4, <3>1, <3>3 DEF Sd!Slot, Sd!None
    <3>5. \/ active' = active /\ bak' = Sd!None /\ activated' = (activated \/ active = t)
          \/ active' = Sd!None /\ bak' = active /\ activated' = (activated \/ Sd!None = t)
          \/ active' = t /\ bak' \in {active, Sd!None} /\ activated' = (activated \/ t = t)
      BY <3>1, <3>3 DEF Sd!Disks, Sd!Disk
    <3>6. activated /\ ~misread => active # Sd!None /\ active = Sd!Recorded
      BY <3>2 DEF Sd!SlotsAreApart
    <3>7. /\ {active', bak'} \subseteq Sd!Slot \cup {Sd!None} /\ activated' \in BOOLEAN
      BY <1>5, <3>3, <3>5
    <3>8. ASSUME activated', ~misread'
          PROVE  Sd!Recorded' \in Sd!Slot /\ Sd!Whole(Sd!Recorded')
      <4>1. Sd!Recorded' = IF active' # Sd!None THEN active' ELSE bak'
        BY DEF Sd!Recorded
      <4>2. CASE Sd!Recorded' = t
        BY <3>4, <4>2
      <4>3. CASE Sd!Recorded' = active /\ activated
        BY <1>1, <1>5, <1>6, <3>6, <3>8, <4>3
      <4>4. Sd!Recorded' = t \/ (Sd!Recorded' = active /\ activated)
        BY <3>4, <3>5, <3>8, <4>1
      <4> QED BY <4>2, <4>3, <4>4
    <3>9. Sd!None \notin Sd!Slot
      BY DEF Sd!None, Sd!Slot
    <3> QED BY <1>4, <3>7, <3>8, <3>9
  <2> QED BY <2>1, <2>2 DEF Sd!Restart
<1> QED BY <1>1, <1>3, <1>7 DEF Sd!SlotsAreApart

\* ActiveIsSafe: the slot in use holds one whole package and a package once activated is found
\* again after any loss of power (loadActiveSlot, finishUpload and writeActiveSlot, sd_webui.cpp),
\* as long as one client uploads at a time.
THEOREM WebInterfaceStaysSafe ==
  ASSUME \A b, c \in Client : b = c
  PROVE  SystemSpec => []ActiveIsSafe
<1> DEFINE Kept == part = "sd" => Sd!SlotsAreApart
<1>1. SystemInit => Kept
  <2> SUFFICES ASSUME SystemInit, part = "sd" PROVE Sd!SlotsAreApart
    OBVIOUS
  <2>1. Sd!WebUiInit
    BY SdBegins
  <2>2. /\ Sd!Idle \in Sd!Request /\ Sd!Idle.state = "IDLE" /\ Sd!NoFiles \in [File -> Int]
    BY DEF Sd!Idle, Sd!Request, Sd!States, Sd!None, Sd!Missing, Sd!NoFiles, Sd!Slot
  <2>3. sd_slot \in [Sd!Slot -> [File -> Int]] /\ upload \in [Client -> Sd!Request]
        /\ \A c \in Client : upload[c].state = "IDLE"
    BY <2>1, <2>2 DEF Sd!WebUiInit
  <2>4. \A c \in Client : Sd!UploadIsApart(c)
    BY <2>3 DEF Sd!UploadIsApart
  <2>5. active = Sd!None /\ bak = Sd!None /\ activeSlot = Sd!None /\ uploads \in Int
    BY <2>1 DEF Sd!WebUiInit
  <2>6. {pending, card, activeChecked, activated, misread} \subseteq BOOLEAN
    BY <2>1 DEF Sd!WebUiInit
  <2>7. ~card /\ cardPreviouslyReady = card /\ ~activated
    BY <2>1 DEF Sd!WebUiInit
  <2> QED BY <2>3, <2>4, <2>5, <2>6, <2>7 DEF Sd!SlotsAreApart
<1>2. Kept /\ [SystemNext]_svars => Kept'
  <2> SUFFICES ASSUME Kept, [SystemNext]_svars, part' = "sd" PROVE Sd!SlotsAreApart'
    OBVIOUS
  <2>1. part = "sd" /\ [Sd!WebUiNext]_sdVars
    <3>1. part' = part
      BY DEF SystemNext, svars
    <3> QED BY <3>1, SdSteps
  <2>2. CASE UNCHANGED sdVars
    BY <2>1, <2>2 DEF sdVars, Sd!SlotsAreApart, Sd!UploadIsApart, Sd!Whole, Sd!Recorded
  <2>3. CASE Sd!WebUiNext
    BY <2>1, <2>3, LoadKeepsApart, UploadKeepsApart, FinishKeepsApart, RestartKeepsApart
       DEF Sd!WebUiNext
  <2> QED BY <2>1, <2>2, <2>3
<1>3. Kept => ActiveIsSafe
  BY DEF ActiveIsSafe, Sd!ActiveIsSafe, Sd!SlotsAreApart, Sd!Recorded
<1> QED BY <1>1, <1>2, <1>3, PTL DEF SystemSpec
==============================================================================
