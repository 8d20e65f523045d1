------------------------------- MODULE SdWebUi -------------------------------
(***************************************************************************)
(* The web interface on the SD card (sd_webui.cpp): two slots, a file that   *)
(* names the one in use, and uploads that fill the other one file by file as *)
(* the pieces of a tar archive arrive.  Power may fail between any two       *)
(* operations on the card, and the card may refuse one.                     *)
(*                                                                         *)
(* A package is its version: a file holds the version it came with, so that  *)
(* a slot whose files agree is one whose hashes fit its manifest.           *)
(***************************************************************************)
EXTENDS Integers, Sequences

CONSTANTS
  Client,       \* web clients that upload; one of them means one upload at a time
  File,         \* the manifest and the files it requires
  MaxUploads,   \* BOUND: uploads, of which each brings a version of its own
  MaxFailures,  \* BOUND: operations the card refuses
  MaxRestarts   \* BOUND: restarts

None == "none"
Slot == {"a", "b"}
Missing == 0
Torn == -1
Version == 1 .. MaxUploads

VARIABLES
  pending,        \* sdInitializationPending: the card is mounted in the first loop
  card,           \* cardReady; nothing unmounts the card
  cardPreviouslyReady,
  activeChecked, activeSlot,
  slot,           \* what is in the files of the two slots
  active, bak,    \* active.txt and active.bak
  upload,         \* SdWebUiRequest of the upload of each client
  uploads, failures, restarts,
  activated,      \* some package was activated
  misread         \* since then the card could not be read when it was asked for the slot in use

wvars == <<pending, card, cardPreviouslyReady, activeChecked, activeSlot, slot, active, bak,
           upload, uploads, failures, restarts, activated, misread>>

Idle == [state |-> "IDLE", target |-> None, version |-> Missing, file |-> None]
NoFiles == [f \in File |-> Missing]

WebUiInit ==
  /\ pending = TRUE /\ card = FALSE /\ cardPreviouslyReady = FALSE
  /\ activeChecked = FALSE /\ activeSlot = None
  /\ slot = [s \in Slot |-> NoFiles]
  /\ active = None /\ bak = None
  /\ upload = [c \in Client |-> Idle]
  /\ uploads = 0 /\ failures = 0 /\ restarts = 0
  /\ activated = FALSE /\ misread = FALSE

Fails == failures < MaxFailures /\ failures' = failures + 1
-----------------------------------------------------------------------------
\* validateSlot, when everything can be read
Whole(s) == \E v \in Version : \A f \in File : slot[s][f] = v

\* What a restart finds: active.txt, or else the backup, which it puts in its place.
\* Variant: the backup is not looked at.
NoBackup == active

Recorded == IF active # None THEN active ELSE bak

loadActiveSlot(ready) ==
  /\ activeChecked' = TRUE
  /\ \/ /\ ready
        /\ activeSlot' = IF Recorded # None /\ Whole(Recorded) THEN Recorded ELSE None
        /\ active' = Recorded
        /\ bak' = IF active = None THEN None ELSE bak
        /\ UNCHANGED <<failures, misread>>
     \/ /\ ready /\ Fails
        /\ misread' = TRUE /\ activeSlot' = None
        /\ UNCHANGED <<active, bak>>
     \/ /\ ~ready
        /\ activeSlot' = None
        /\ UNCHANGED <<active, bak, failures, misread>>

\* One pass of the loop: the card is mounted once, sdWebUiLoop notices.
Loop ==
  /\ pending' = FALSE
  /\ IF pending THEN card' \in BOOLEAN ELSE card' = card
  /\ cardPreviouslyReady' = card'
  /\ IF card' /\ ~cardPreviouslyReady
       THEN loadActiveSlot(card')
       ELSE UNCHANGED <<activeChecked, activeSlot, active, bak, failures, misread>>
  /\ UNCHANGED <<slot, upload, uploads, restarts, activated>>

\* serveFile: a page looks for the slot if nobody did.  No request is read before the loop has
\* been through once, so that this happens without a card only.
Visit ==
  /\ ~pending /\ ~activeChecked
  /\ loadActiveSlot(card)
  /\ UNCHANGED <<pending, card, cardPreviouslyReady, slot, upload, uploads, restarts, activated>>
-----------------------------------------------------------------------------
\* Uploads
\* Variant: the first slot, whichever is in use.
FirstSlot(used) == "a"

TargetSlot(used) == IF used = "a" THEN "b" ELSE "a"

\* clearSlot: files that cannot be removed stay.
Cleared(s) == slot' = [slot EXCEPT ![s] = NoFiles]
PartlyCleared(s) ==
  \E left \in SUBSET File :
    slot' = [slot EXCEPT ![s] = [f \in File |-> IF f \in left THEN slot[s][f] ELSE Missing]]

\* sdWebUiHandleUri of /webui/upload
BeginUpload(c) ==
  /\ ~pending /\ upload[c] = Idle /\ uploads < MaxUploads
  /\ uploads' = uploads + 1
  /\ LET request == [state |-> "HEADER", target |-> TargetSlot(activeSlot),
                     version |-> uploads + 1, file |-> None]
     IN \/ /\ card
           /\ Cleared(request.target)
           /\ upload' = [upload EXCEPT ![c] = request]
           /\ UNCHANGED failures
        \/ /\ card /\ Fails
           /\ PartlyCleared(request.target)
           /\ upload' = [upload EXCEPT ![c] = [request EXCEPT !.state = "ERROR"]]
        \/ /\ ~card
           /\ upload' = [upload EXCEPT ![c] = [request EXCEPT !.state = "ERROR"]]
           /\ UNCHANGED <<slot, failures>>
  /\ UNCHANGED <<pending, card, cardPreviouslyReady, activeChecked, activeSlot, active, bak,
                 restarts, activated, misread>>

\* startTarEntry: the file is created, its data follow; or the header is no good.
StartEntry(c) ==
  LET u == upload[c]
  IN /\ u.state = "HEADER"
     /\ \/ \E f \in File :
             /\ slot[u.target][f] = Missing
             /\ slot' = [slot EXCEPT ![u.target][f] = Torn]
             /\ upload' = [upload EXCEPT ![c] = [u EXCEPT !.state = "DATA", !.file = f]]
        \/ upload' = [upload EXCEPT ![c].state = "ERROR"] /\ UNCHANGED slot
        \/ upload' = [upload EXCEPT ![c].state = "COMPLETE"] /\ UNCHANGED slot
     /\ UNCHANGED failures

\* feedTar: the data of a file, all of them or fewer than were announced
WriteFile(c) ==
  LET u == upload[c]
  IN /\ u.state = "DATA"
     /\ \/ /\ slot' = IF slot[u.target][u.file] = Missing THEN slot    \* removed meanwhile
                      ELSE [slot EXCEPT ![u.target][u.file] = u.version]
           /\ upload' = [upload EXCEPT ![c] = [u EXCEPT !.state = "HEADER", !.file = None]]
           /\ UNCHANGED failures
        \/ /\ Fails
           /\ upload' = [upload EXCEPT ![c] = [u EXCEPT !.state = "ERROR", !.file = None]]
           /\ UNCHANGED slot

feedTar(c) ==
  /\ StartEntry(c) \/ WriteFile(c)
  /\ UNCHANGED <<pending, card, cardPreviouslyReady, activeChecked, activeSlot, active, bak,
                 uploads, restarts, activated, misread>>

\* writeActiveSlot: the new name is written beside, the old one kept as a backup until the new
\* one is in its place.  Disks(s) is what the card goes through; a refusal undoes the rest.
\* Variant: the old name is removed first.
NamesLost(s) == <<[active |-> None, bak |-> None], [active |-> s, bak |-> None]>>

Disks(s) ==
  <<[active |-> active, bak |-> None],
    [active |-> None, bak |-> active],
    [active |-> s, bak |-> active],
    [active |-> s, bak |-> None]>>

Disk(d) == active' = d.active /\ bak' = d.bak
Unchanged(s) == {[active |-> active, bak |-> bak], [active |-> active, bak |-> None]}

\* finishUpload; the request is destroyed with the answer.
finishUpload(c) ==
  LET u == upload[c]
  IN /\ u.state # "IDLE"
     /\ upload' = [upload EXCEPT ![c] = Idle]
     /\ \/ /\ u.state = "COMPLETE" /\ Whole(u.target)
           /\ LET disks == Disks(u.target) IN Disk(disks[Len(disks)])
           /\ activeSlot' = u.target /\ activeChecked' = TRUE /\ activated' = TRUE
           /\ misread' = FALSE
           /\ UNCHANGED failures
        \/ /\ u.state = "COMPLETE" /\ Whole(u.target) /\ Fails
           /\ \E d \in Unchanged(u.target) : Disk(d)
           /\ UNCHANGED <<activeSlot, activeChecked, activated, misread>>
        \/ /\ u.state # "COMPLETE" \/ ~Whole(u.target)
           /\ UNCHANGED <<active, bak, activeSlot, activeChecked, activated, failures,
                          misread>>
     /\ UNCHANGED <<pending, card, cardPreviouslyReady, slot, uploads, restarts>>

\* sdWebUiHandleClose of an upload whose client went away
Abandon(c) ==
  LET u == upload[c]
  IN /\ u.state # "IDLE"
     /\ upload' = [upload EXCEPT ![c] = Idle]
     /\ \/ u.state # "COMPLETE" /\ card /\ Cleared(u.target) /\ UNCHANGED failures
        \/ u.state # "COMPLETE" /\ card /\ Fails /\ PartlyCleared(u.target)
        \/ (u.state = "COMPLETE" \/ ~card) /\ UNCHANGED <<slot, failures>>
     /\ UNCHANGED <<pending, card, cardPreviouslyReady, activeChecked, activeSlot, active, bak,
                    uploads, restarts, activated, misread>>

\* The power fails, maybe while the name of the slot is written.
Restart ==
  /\ restarts < MaxRestarts
  /\ restarts' = restarts + 1
  /\ \/ UNCHANGED <<active, bak, activated>>
     \/ \E c \in Client :
          /\ upload[c].state = "COMPLETE" /\ Whole(upload[c].target)
          /\ \E d \in {Disks(upload[c].target)[n] : n \in DOMAIN Disks(upload[c].target)} :
               Disk(d) /\ activated' = (activated \/ d.active = upload[c].target)
  /\ pending' = TRUE /\ card' = FALSE /\ cardPreviouslyReady' = FALSE
  /\ activeChecked' = FALSE /\ activeSlot' = None
  /\ upload' = [c \in Client |-> Idle]
  /\ UNCHANGED <<slot, uploads, failures, misread>>

WebUiNext ==
  \/ Loop \/ Visit \/ Restart
  \/ \E c \in Client : BeginUpload(c) \/ feedTar(c) \/ finishUpload(c) \/ Abandon(c)

WebUiSpec == WebUiInit /\ [][WebUiNext]_wvars
-----------------------------------------------------------------------------
\* The slot in use (sd_webui.cpp:467) holds one whole package and is the one a restart would
\* find; and a package once activated is found again whatever moment the power fails at, unless
\* the card could not be read when it was asked for.
ActiveIsSafe ==
  /\ activeSlot # None => Whole(activeSlot) /\ Recorded = activeSlot
  /\ activated /\ ~misread => Recorded # None /\ Whole(Recorded)
  /\ activated /\ ~misread /\ ~pending /\ card => activeSlot = Recorded

\* Inductive, with one client: what is written goes to the other slot than the one in use, and
\* the name of that is in active.txt itself.
States  == {"IDLE", "HEADER", "DATA", "ERROR", "COMPLETE"}
Request == [state : States, target : Slot \cup {None}, version : Int, file : File \cup {None}]

UploadIsApart(c) ==
  upload[c].state # "IDLE" =>
    /\ ~pending /\ upload[c].target \in Slot /\ upload[c].target # activeSlot
    /\ upload[c].state # "ERROR" => card
    /\ upload[c].state = "DATA" => upload[c].file \in File

SlotsAreApart ==
  /\ slot \in [Slot -> [File -> Int]] /\ upload \in [Client -> Request] /\ uploads \in Int
  /\ {active, bak, activeSlot} \subseteq Slot \cup {None}
  /\ {pending, card, activeChecked, activated, misread} \subseteq BOOLEAN
  /\ pending => ~card
  /\ cardPreviouslyReady = card /\ (IF card THEN activeChecked ELSE activeSlot = None)
  /\ activeSlot # None => active = activeSlot /\ Whole(activeSlot)
  /\ activated /\ ~misread => Recorded # None /\ Whole(Recorded) /\ (card => activeSlot = Recorded)
  /\ \A c \in Client : UploadIsApart(c)

\* "A failed upload leaves the active Web UI untouched" (src/webui/README.md:16-17).
ActiveUntouched ==
  [][activeSlot # None /\ activeSlot' = activeSlot => slot'[activeSlot] = slot[activeSlot]]_wvars
=============================================================================
