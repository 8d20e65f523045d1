------------------------------- MODULE Network -------------------------------
(***************************************************************************)
(* How HeishaMon gets on the network and lets itself be configured when it  *)
(* cannot: the station interface (sta), the setup hotspot (ap) and Ethernet *)
(* (HeishaMon.ino, check_wifi of both boards; webfunctions.cpp, setupWifi). *)
(* One radio serves both, so a station that keeps looking for its network   *)
(* disturbs whoever is on the hotspot, and a hotspot nobody uses must not   *)
(* keep it from looking.  Seconds are left out: Retry ticks are             *)
(* WIFIRETRYTIMER, and the main loop runs check_wifi in every tick.         *)
(***************************************************************************)
EXTENDS Integers

CONSTANTS
  Retry,       \* WIFIRETRYTIMER
  Boards,      \* the boards checked, of "ESP32" and "ESP8266"
  MaxResets    \* BOUND: how often the network settings are saved

VARIABLES
  config,   \* board, and the settings hotspot and ssid (whether there is one); rigid
  present,  \* whether the configured network is in reach
  eth,      \* whether the Ethernet port has an address
  sta,      \* the station: off, idle, trying, failed, up, or up without a status
  ap,       \* whether the hotspot interface is on
  client,   \* whether somebody is on the hotspot
  scan,     \* whether a scan for networks runs
  initial,  \* doInitialWifiScan
  wait,     \* ticks since lastWifiRetryTimer
  first,    \* firstConnectSinceBoot
  ntp,      \* the timer that looks after the clock: none, check (-6) or daily (-5)
  clock,    \* whether the clock has been set
  resets,   \* how often timer -3 has fired
  checked   \* whether check_wifi has run since anything changed

nvars == <<config, present, eth, sta, ap, client, scan, initial, wait, first, ntp, clock,
           resets, checked>>

Radio  == <<sta, ap, client>>
Around == <<config, present, eth, scan, initial, clock, resets>>

Up == sta = "up" \/ eth

Hotspot == config.hotspot

\* setupWifi: everything off, then the station or, without an SSID, the hotspot.
Started == [sta |-> IF config.ssid THEN "trying" ELSE "off",
            ap  |-> ~config.ssid /\ Hotspot]

NetworkInit ==
  /\ config \in [board : Boards, hotspot : BOOLEAN, ssid : BOOLEAN]
  /\ present \in BOOLEAN
  /\ eth = FALSE
  /\ sta = Started.sta /\ ap = Started.ap
  /\ client = FALSE /\ scan = FALSE /\ initial = TRUE
  /\ wait = 0
  /\ first = TRUE /\ ntp = "none" /\ clock = FALSE
  /\ resets = 0
  /\ checked = FALSE
-----------------------------------------------------------------------------
(* check_wifi                                                               *)

\* The first time the network is up: the clock is asked for and looked after.
Welcome ==
  /\ first' = FALSE
  /\ ntp' = IF first THEN "check" ELSE ntp

\* ESP32, network up: the hotspot goes, and the station is asked to join when it
\* was Ethernet that came.
FastPath ==
  /\ config.board = "ESP32" /\ Up
  /\ wait' = 0
  /\ \/ /\ ap /\ (config.ssid \/ ~Hotspot)
        /\ ap' = FALSE /\ client' = FALSE
        /\ sta' = IF sta = "up" THEN "up" ELSE IF config.ssid THEN "trying" ELSE "failed"
     \/ ~(ap /\ (config.ssid \/ ~Hotspot)) /\ UNCHANGED Radio
  /\ Welcome

\* Variant: the station is never retried while there is a hotspot.
Timid == ap

\* ESP32, network down and somebody on the hotspot: the station must back off.
BackOff == client

\* A scan that is under way is left to end.
Suspended(s) == IF scan THEN s ELSE "off"

SuspendStation ==
  /\ config.board = "ESP32" /\ ~Up /\ BackOff
  /\ sta' = Suspended(sta)
  /\ UNCHANGED <<ap, client, wait, first, ntp>>

\* ESP32, network down: the hotspot first, then in turns without the station, so
\* that the hotspot can be used, and with it.
RetryStation ==
  /\ config.board = "ESP32" /\ ~Up /\ ~BackOff
  /\ \/ wait < Retry /\ UNCHANGED <<sta, ap, wait>>
     \/ /\ wait >= Retry
        /\ wait' = 0
        /\ LET opens == Hotspot /\ ~ap
               on    == IF opens /\ sta = "off" THEN "idle" ELSE sta
               only  == (ap \/ opens) /\ on = "off"   \* getMode() = WIFI_AP
           IN IF ~only
              THEN sta' = Suspended(on) /\ ap' = (ap \/ opens \/ ~scan)
              ELSE sta' = (IF config.ssid THEN "trying" ELSE on) /\ UNCHANGED ap
  /\ UNCHANGED <<client, first, ntp>>

\* ESP8266, a status that says not connected with an address: start over.
StartOver ==
  /\ config.board = "ESP8266" /\ sta = "odd"
  /\ sta' = Started.sta /\ ap' = Started.ap /\ client' = FALSE
  /\ wait' = 0
  /\ UNCHANGED <<first, ntp>>

\* ESP8266, not connected.
Reconnect ==
  /\ config.board = "ESP8266" /\ sta \notin {"up", "odd"}
  /\ LET dropped == IF config.ssid /\ sta = "failed" /\ ~scan /\ client THEN "off" ELSE sta
     IN \/ /\ config.ssid /\ wait > Retry
           /\ wait' = 0
           /\ ap' = (ap \/ Hotspot)
           /\ sta' = IF sta \in {"off", "idle", "trying"} /\ ~client THEN "trying" ELSE "off"
        \/ /\ ~(config.ssid /\ wait > Retry)
           /\ sta' = dropped
           /\ UNCHANGED <<ap, wait>>
  /\ UNCHANGED <<client, first, ntp>>

\* ESP8266, connected.
CloseHotspot ==
  /\ config.board = "ESP8266" /\ sta = "up"
  /\ ap' = FALSE /\ client' = FALSE
  /\ wait' = 0
  /\ Welcome
  /\ UNCHANGED sta

check_wifi ==
  /\ ~checked
  /\ checked' = TRUE
  /\ \/ FastPath \/ SuspendStation \/ RetryStation
     \/ StartOver \/ Reconnect \/ CloseHotspot
  /\ UNCHANGED Around
-----------------------------------------------------------------------------
(* Timers                                                                   *)

\* Timer -3, after network settings were saved.
TimerReconnect ==
  /\ resets < MaxResets
  /\ resets' = resets + 1
  /\ sta' = Started.sta /\ ap' = Started.ap /\ client' = FALSE
  /\ wait' = 0
  /\ checked' = FALSE
  /\ UNCHANGED <<config, present, eth, scan, initial, first, ntp, clock>>

\* Timers -6 and -5: asked again every 5 minutes until there is a time, then daily.
TimerClock ==
  /\ ntp # "none"
  /\ ntp' = IF ntp = "daily" \/ clock THEN "daily" ELSE "check"
  /\ UNCHANGED <<config, present, eth, Radio, scan, initial, wait, first, clock, resets,
                 checked>>
-----------------------------------------------------------------------------
(* The radio and the surroundings                                           *)

\* A scan turns the station on.  It is asked for by the settings page, which
\* somebody must be able to open, and once after boot.
StartScan ==
  /\ ~scan
  /\ initial \/ Up \/ client
  /\ scan' = TRUE
  /\ initial' = FALSE
  /\ sta' = IF sta = "off" THEN "idle" ELSE sta
  /\ checked' = FALSE
  /\ UNCHANGED <<config, present, eth, ap, client, wait, first, ntp, clock, resets>>

EndScan ==
  /\ scan
  /\ scan' = FALSE /\ checked' = FALSE
  /\ UNCHANGED <<config, present, eth, Radio, initial, wait, first, ntp, clock, resets>>

Joins ==
  /\ sta = "trying" /\ present
  /\ sta' = "up" /\ checked' = FALSE
  /\ UNCHANGED <<config, present, eth, ap, client, scan, initial, wait, first, ntp, clock, resets>>

JoinFails ==
  /\ config.board = "ESP8266" /\ sta = "trying" /\ ~present
  /\ sta' = "failed" /\ checked' = FALSE
  /\ UNCHANGED <<config, present, eth, ap, client, scan, initial, wait, first, ntp, clock, resets>>

\* The network goes out of reach; the station looks for it by itself.
Vanishes ==
  /\ present
  /\ present' = FALSE /\ checked' = FALSE
  /\ sta' \in (IF sta # "up" THEN {sta}
               ELSE IF config.board = "ESP8266" THEN {"trying", "odd"} ELSE {"trying"})
  /\ UNCHANGED <<config, eth, ap, client, scan, initial, wait, first, ntp, clock, resets>>

Appears ==
  /\ ~present
  /\ present' = TRUE /\ checked' = FALSE
  /\ UNCHANGED <<config, eth, Radio, scan, initial, wait, first, ntp, clock, resets>>

Cable ==
  /\ config.board = "ESP32"
  /\ eth' = ~eth /\ checked' = FALSE
  /\ UNCHANGED <<config, present, Radio, scan, initial, wait, first, ntp, clock, resets>>

Visitor ==
  /\ ap
  /\ client' = ~client /\ checked' = FALSE
  /\ UNCHANGED <<config, present, eth, sta, ap, scan, initial, wait, first, ntp, clock, resets>>

SetClock ==
  /\ ntp # "none" /\ Up /\ ~clock
  /\ clock' = TRUE
  /\ UNCHANGED <<config, present, eth, Radio, scan, initial, wait, first, ntp, resets, checked>>

Tick ==
  /\ checked
  /\ checked' = FALSE
  /\ wait' = IF wait > Retry THEN wait ELSE wait + 1
  /\ UNCHANGED <<config, present, eth, Radio, scan, initial, first, ntp, clock, resets>>

NetworkNext ==
  \/ check_wifi \/ Tick \/ TimerReconnect \/ TimerClock
  \/ StartScan \/ EndScan \/ Joins \/ JoinFails
  \/ Vanishes \/ Appears \/ Cable \/ Visitor \/ SetClock

\* Time and the main loop go on whatever happens, a scan ends, and a station that is made to try
\* again and again finds a network in reach.
NetworkFairness ==
  /\ WF_nvars(check_wifi) /\ SF_nvars(Tick)
  /\ WF_nvars(EndScan) /\ SF_nvars(Joins)

NetworkSpec == NetworkInit /\ [][NetworkNext]_nvars /\ NetworkFairness
-----------------------------------------------------------------------------
\* A configured network that stays in reach is joined, whatever scans, visitors,
\* cables and saved settings came before, once nobody sits on the hotspot and the
\* cable is left alone.
Rejoins ==
  (config.ssid /\ <>[](present /\ ~client) /\ (<>[]eth \/ <>[]~eth)) => <>[](sta = "up")
=============================================================================
