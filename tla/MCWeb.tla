-------------------------------- MODULE MCWeb --------------------------------
(***************************************************************************)
(* How a browser reaches HeishaMon and what it gets and leaves there: the    *)
(* network, the web server, the forms it reads and the web interface on the  *)
(* SD card.  The four share no state and are checked side by side: a         *)
(* behaviour is one of one part, the others stay as they began.              *)
(***************************************************************************)
EXTENDS Integers, Sequences, TLC

CONSTANTS
  Retry, Boards, MaxResets,
  Peer, NoPeer, Asks, WEBSERVER_MAX_CLIENTS, Room, WEBSERVER_CLIENT_TIMEOUT,
  WEBSERVER_CLIENT_PING_INTERVAL, NUMBER_OF_TOPICS, NUMBER_OF_TOPICS_EXTRA,
  NUMBER_OF_OPT_TOPICS, RulesSize, BUFFER_SIZE, MaxLines,
  Forms, ReadSizes, WEBSERVER_BUFFER_SIZE,
  Client, File, MaxUploads, MaxFailures, MaxRestarts

ASSUME WebAssumption ==
  /\ Retry \in Nat \ {0} /\ MaxResets \in Nat
  /\ WEBSERVER_CLIENT_TIMEOUT \in Nat /\ WEBSERVER_CLIENT_PING_INTERVAL \in Nat
  /\ Room \in Nat \ {0} /\ WEBSERVER_BUFFER_SIZE \in Nat \ {0}

VARIABLES
  part,  \* the part this behaviour is of
  config, present, eth, sta, ap, client, scan, initial, wait, first, ntp, clock, resets,
  checked,                                                               \* Network
  asks, net, got, slot, at, lines,                                       \* WebServer
  form, rest, rbuffer, buffer, substep, loop, readlen, f_got, outcome,   \* MultipartForm
  pending, card, cardPreviouslyReady, activeChecked, activeSlot, sd_slot, active, bak,
  upload, uploads, failures, restarts, activated, misread                \* SdWebUi

Net  == INSTANCE Network
Web  == INSTANCE WebServer
Body == INSTANCE MultipartForm WITH got <- f_got
Sd   == INSTANCE SdWebUi WITH slot <- sd_slot

netVars  == <<config, present, eth, sta, ap, client, scan, initial, wait, first, ntp, clock,
              resets, checked>>
webVars  == <<asks, net, got, slot, at, lines>>
formVars == <<form, rest, rbuffer, buffer, substep, loop, readlen, f_got, outcome>>
sdVars   == <<pending, card, cardPreviouslyReady, activeChecked, activeSlot, sd_slot, active,
              bak, upload, uploads, failures, restarts, activated, misread>>
svars    == <<part, netVars, webVars, formVars, sdVars>>

\* What the properties of a part look at keeps its type where another one runs.
IdleNet ==
  /\ config = [board |-> "none", hotspot |-> FALSE, ssid |-> FALSE]
  /\ present = FALSE /\ eth = FALSE /\ sta = "none" /\ ap = FALSE /\ client = FALSE
  /\ scan = FALSE /\ initial = FALSE /\ wait = 0 /\ first = FALSE /\ ntp = "none"
  /\ clock = FALSE /\ resets = 0 /\ checked = FALSE
IdleWeb == asks = <<>> /\ net = <<>> /\ got = <<>> /\ slot = <<>> /\ at = 0 /\ lines = 0
IdleForm ==
  /\ form = <<>> /\ rest = <<>> /\ rbuffer = <<>> /\ buffer = <<>> /\ substep = 0
  /\ loop = FALSE /\ readlen = 0 /\ f_got = <<>> /\ outcome = "none"
IdleSd ==
  /\ pending = 0 /\ card = 0 /\ cardPreviouslyReady = 0 /\ activeChecked = 0 /\ activeSlot = 0
  /\ sd_slot = 0 /\ active = 0 /\ bak = 0 /\ upload = 0 /\ uploads = 0 /\ failures = 0
  /\ restarts = 0 /\ activated = 0 /\ misread = 0

SystemInit ==
  \/ part = "network" /\ Net!NetworkInit /\ IdleWeb /\ IdleForm /\ IdleSd
  \/ part = "web" /\ Web!WebInit /\ IdleNet /\ IdleForm /\ IdleSd
  \/ part = "form" /\ Body!MultipartInit /\ IdleNet /\ IdleWeb /\ IdleSd
  \/ part = "sd" /\ Sd!WebUiInit /\ IdleNet /\ IdleWeb /\ IdleForm

SystemNext ==
  /\ UNCHANGED part
  /\ \/ part = "network" /\ Net!NetworkNext /\ UNCHANGED <<webVars, formVars, sdVars>>
     \/ part = "web" /\ Web!WebNext /\ UNCHANGED <<netVars, formVars, sdVars>>
     \/ part = "form" /\ Body!MultipartNext /\ UNCHANGED <<netVars, webVars, sdVars>>
     \/ part = "sd" /\ Sd!WebUiNext /\ UNCHANGED <<netVars, webVars, formVars>>

\* The fairness of the parts: what runs once in every loop() comes again.
SystemFairness ==
  /\ WF_netVars(part = "network" /\ Net!check_wifi) /\ SF_netVars(part = "network" /\ Net!Tick)
  /\ WF_netVars(part = "network" /\ Net!EndScan) /\ SF_netVars(part = "network" /\ Net!Joins)
  /\ WF_webVars(part = "web" /\ (Web!webserver_loop \/ Web!Pass))
  /\ WF_formVars(part = "form" /\ Body!MultipartNext)

SystemSpec == SystemInit /\ [][SystemNext]_svars /\ SystemFairness

\* A configured network that stays in reach is joined.
Rejoins == part = "network" => Net!Rejoins

\* An answer reaches its peer whole and in order, in well formed chunks.
RepliesWhole == part = "web" => Web!RepliesWhole

\* No client holds its place in the server for ever.
EveryoneLeaves == part = "web" => Web!EveryoneLeaves

\* Every field of a form gets its value, however the reads cut it.
FormsArrive == part = "form" => Body!FormsArrive

\* The web interface in use is whole, and found again after a restart.
ActiveIsSafe == part = "sd" => Sd!ActiveIsSafe

\* What the peers ask for: two tables at once, a file while another is replaced, two that ask
\* nothing while a third waits for a place.
MCAsks ==
  { "a" :> "json" @@ "b" :> "socket", "a" :> "rules" @@ "b" :> "saverules",
    "a" :> "silent" @@ "b" :> "silent" @@ "c" :> "command" }

\* Values that are about as long as the buffer, with what may be the beginning of a boundary at
\* every place, or what is one of another form, and forms of two fields.
Xs(n) == [i \in 1 .. n |-> "x"]
MCForms ==
  {<<[name |-> "n1", file |-> f, value |-> Xs(i) \o e \o Xs(j)]>> :
     f \in BOOLEAN, i \in {0} \cup 5 .. 11, j \in 0 .. 1,
     e \in {<<>>, <<"cr">>, <<"cr", "lf">>, <<"cr", "lf", "cr">>, <<"cr", "lf", "-">>,
            <<"-">>, <<"=">>}}
  \cup
  {<<[name |-> "n1", file |-> f, value |-> Xs(i) \o <<"cr", "lf", "-", "-">> \o Xs(8)]>> :
     f \in BOOLEAN, i \in {0, 3}}
  \cup
  {<<[name |-> "n1", file |-> TRUE, value |-> Xs(i)],
     [name |-> "n2", file |-> f, value |-> Xs(j)]>> :
     f \in BOOLEAN, i \in {0, 3} \cup 9 .. 12, j \in {0, 2}}
=============================================================================
