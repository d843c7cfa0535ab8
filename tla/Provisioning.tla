---------------------------- MODULE Provisioning ----------------------------
(***************************************************************************)
(* Setting up Wi-Fi: the http task writes and saves the settings and       *)
(* starts sta_switch_task, which reads them and takes the Wi-Fi driver     *)
(* from access point to station; the event task hears of the link.         *)
(*                                                                         *)
(* The settings of the n-th request are n in both fields, so that a        *)
(* mixture shows.                                                          *)
(***************************************************************************)
EXTENDS Naturals, SequencesExt

CONSTANTS
    MaxSaves,       \* bound: requests to /setup/wifi
    MaxEvents       \* bound: events of the link that wait to be handled

ASSUME BoundsAssumption == {MaxSaves, MaxEvents} \subseteq Nat \ {0}

VARIABLES       \* the program
    boot,           \* whether app_controller_start has succeeded
    config,         \* s_controller->config, the Wi-Fi fields
    saved,          \* s_config of the repository
    inProgress,     \* s_sta_switch_in_progress
    hpc,            \* the http task, inside handle_setup_wifi
    spc,            \* sta_switch_task, inside start_sta
    staCfg,         \* sta_cfg, its local copy of the settings
    ready,          \* s_ready
    softap          \* s_softap_mode

VARIABLES       \* external: the Wi-Fi driver
    mode, running, station, link, events

VARIABLES       \* history
    saves,          \* requests so far
    failed,         \* a call of the latest switch failed
    refused,        \* the driver refused the event task's call to connect
                    \* again, and has accepted none since
    unapplied       \* settings were saved that no switch was created for, and
                    \* that the latest one may have begun to read too early

http == <<config, saved, hpc, saves>>
flags == <<ready, softap>>
driver == <<mode, running, station, link, events, refused>>
vars == <<boot, http, inProgress, spc, staCfg, flags, driver, failed, unapplied>>

Settings == [ssid : 0 .. MaxSaves, password : 0 .. MaxSaves]

TypeOK ==
    /\ boot \in {"no", "done", "failed"}
    /\ {config, saved, staCfg, station} \subseteq Settings
    /\ hpc \in {"idle", "ssid", "password", "save", "schedule"}
    /\ spc \in {"none", "delay", "password", "stop", "mode", "config", "start",
                "connect", "flags", "end"}
    /\ ready \in BOOLEAN /\ softap \in BOOLEAN /\ inProgress \in BOOLEAN
    /\ running \in BOOLEAN
    /\ failed \in BOOLEAN /\ refused \in BOOLEAN /\ unapplied \in BOOLEAN
    /\ mode \in {"ap", "sta"} /\ link \in {"down", "connecting", "up"}
    /\ events \in Seq({"disconnected", "gotIp"})
    /\ saves \in 0 .. MaxSaves
    /\ inProgress <=> spc # "none"

Empty == [ssid |-> 0, password |-> 0]

Init ==
    /\ boot = "no" /\ config = Empty /\ saved = Empty /\ staCfg = Empty
    /\ inProgress = FALSE /\ hpc = "idle" /\ spc = "none"
    /\ ready = FALSE /\ softap = TRUE
    /\ mode = "ap" /\ running = FALSE /\ station = Empty /\ link = "down" /\ events = <<>>
    /\ saves = 0 /\ failed = FALSE /\ refused = FALSE /\ unapplied = FALSE

\* wifi_stack_init_once and start_softap, each call of which may fail.
StartAccessPoint(succeeds) ==
    IF succeeds THEN ready' = TRUE /\ softap' = TRUE /\ running' = TRUE
                ELSE UNCHANGED <<ready, softap, running>>

\* app_main.  The repository is empty after a start, so that the device always
\* begins as an access point; if that fails, nothing tries again.
Boot ==
    /\ boot = "no"
    /\ boot' \in {"done", "failed"}
    /\ StartAccessPoint(boot' = "done")
    /\ UNCHANGED <<http, inProgress, spc, staCfg, mode, station, link, events>>
    /\ UNCHANGED <<failed, refused, unapplied>>

-----------------------------------------------------------------------------
\* handle_setup_wifi.
Setup(from, to) ==
    /\ hpc = from /\ hpc' = to
    /\ UNCHANGED <<boot, staCfg, flags, driver, failed>>

\* A request with settings reaches the console.
Receive ==
    /\ boot = "done" /\ saves < MaxSaves
    /\ running /\ (mode = "ap" \/ link = "up")
    /\ Setup("idle", "ssid")
    /\ saves' = saves + 1
    /\ UNCHANGED <<config, saved, inProgress, spc, unapplied>>

WriteSsid ==
    /\ Setup("ssid", "password")
    /\ config' = [config EXCEPT !.ssid = saves]
    /\ UNCHANGED <<saved, saves, inProgress, spc, unapplied>>

WritePassword ==
    /\ Setup("password", "save")
    /\ config' = [config EXCEPT !.password = saves]
    /\ UNCHANGED <<saved, saves, inProgress, spc, unapplied>>

Save ==
    /\ Setup("save", "schedule")
    /\ saved' = config
    /\ UNCHANGED <<config, saves, inProgress, spc, unapplied>>

\* A switch that has not begun to read will take these settings too.
LeaveToSwitch ==
    /\ Setup("schedule", "idle") /\ inProgress
    /\ unapplied' = (unapplied \/ spc # "delay")
    /\ UNCHANGED <<config, saved, saves, inProgress, spc>>

CreateSwitch ==
    /\ hpc = "schedule" /\ ~inProgress
    /\ hpc' = "idle" /\ spc' = "delay" /\ inProgress' = TRUE
    /\ failed' = FALSE /\ unapplied' = FALSE
    /\ UNCHANGED <<boot, config, saved, saves, staCfg, flags, driver>>

\* xTaskCreate fails: the flag is taken back, the user told.
CreateFails ==
    /\ Setup("schedule", "idle") /\ ~inProgress
    /\ unapplied' = TRUE
    /\ UNCHANGED <<config, saved, saves, inProgress, spc>>

-----------------------------------------------------------------------------
\* sta_switch_task, start_sta.
Step(from, to) ==
    /\ spc = from /\ spc' = to
    /\ UNCHANGED <<boot, http, unapplied>>

\* The delay is over.
CopySsid ==
    /\ Step("delay", "password")
    /\ staCfg' = [staCfg EXCEPT !.ssid = config.ssid]
    /\ UNCHANGED <<inProgress, flags, driver, failed>>

\* Faulty variant: the password keeps what the copy held before.
CopyPassword_Missing ==
    /\ Step("password", "stop")
    /\ UNCHANGED <<inProgress, staCfg, flags, driver, failed>>

CopyPassword ==
    /\ Step("password", "stop")
    /\ staCfg' = [staCfg EXCEPT !.password = config.password]
    /\ UNCHANGED <<inProgress, flags, driver, failed>>

\* An error of esp_wifi_stop is ignored.  A connected station posts
\* DISCONNECTED, one that is connecting may.
Stop ==
    /\ Step("stop", "mode")
    /\ \/ /\ running' = FALSE /\ link' = "down"
          /\ \/ link # "down" /\ events' = Append(events, "disconnected")
             \/ link # "up" /\ UNCHANGED events
       \/ UNCHANGED <<running, link, events>>
    /\ UNCHANGED <<inProgress, staCfg, flags, mode, station, failed, refused>>

SetMode ==
    /\ Step("mode", "config")
    /\ mode' = "sta"
    /\ UNCHANGED <<inProgress, staCfg, flags, running, station, link, events, failed, refused>>

SetConfig ==
    /\ Step("config", "start")
    /\ station' = staCfg
    /\ UNCHANGED <<inProgress, staCfg, flags, mode, running, link, events, failed, refused>>

Start ==
    /\ Step("start", "connect")
    /\ running' = TRUE
    /\ UNCHANGED <<inProgress, staCfg, flags, mode, station, link, events, failed, refused>>

\* esp_wifi_connect succeeds; it has no effect on a link that is not down.
Dial ==
    /\ link' = IF running /\ mode = "sta" /\ link = "down" THEN "connecting" ELSE link
    /\ refused' = FALSE

Connect ==
    /\ Step("connect", "flags")
    /\ Dial
    /\ UNCHANGED <<inProgress, staCfg, flags, mode, running, station, events, failed>>

\* Faulty variant: the task ends without a reset of the flag.
SwitchFails_KeepsFlag ==
    /\ \E step \in {"mode", "config", "start", "connect"} : Step(step, "none")
    /\ failed' = TRUE
    /\ UNCHANGED <<inProgress, staCfg, flags, driver>>

\* One of the calls fails: start_sta returns and leaves the driver as it is.
SwitchFails ==
    /\ \E step \in {"mode", "config", "start", "connect"} : Step(step, "end")
    /\ failed' = TRUE
    /\ UNCHANGED <<inProgress, staCfg, flags, driver>>

\* Faulty variant: the readiness of the access point is kept.
SetFlags_OnlyMode ==
    /\ Step("flags", "end")
    /\ softap' = FALSE
    /\ UNCHANGED <<ready, inProgress, staCfg, driver, failed>>

SetFlags ==
    /\ Step("flags", "end")
    /\ softap' = FALSE /\ ready' = FALSE
    /\ UNCHANGED <<inProgress, staCfg, driver, failed>>

SwitchEnds ==
    /\ Step("end", "none")
    /\ inProgress' = FALSE
    /\ staCfg' = Empty
    /\ UNCHANGED <<flags, driver, failed>>

-----------------------------------------------------------------------------
\* wifi_event_handler, in the event task.
Handle(event) ==
    /\ events # <<>> /\ Head(events) = event
    /\ events' = Tail(events)
    /\ ready' = (event = "gotIp")
    /\ UNCHANGED <<boot, http, inProgress, spc, staCfg, softap, mode, running, station, failed, unapplied>>

\* Faulty variant: no attempt to connect again.
OnDisconnected_GivesUp == Handle("disconnected") /\ UNCHANGED <<link, refused>>

\* The result of esp_wifi_connect is ignored: a call that fails is not made again.
OnDisconnected ==
    /\ Handle("disconnected")
    /\ Dial \/ (UNCHANGED link /\ refused' = TRUE)

OnGotIp == Handle("gotIp") /\ UNCHANGED <<link, refused>>

\* External: the link comes up and goes down, or never comes up.
LinkChanges ==
    /\ running /\ Len(events) < MaxEvents
    /\ \/ link = "connecting" /\ link' = "up" /\ events' = Append(events, "gotIp")
       \/ link # "down" /\ link' = "down" /\ events' = Append(events, "disconnected")
    /\ UNCHANGED <<boot, http, inProgress, spc, staCfg, flags, mode, running, station>>
    /\ UNCHANGED <<failed, refused, unapplied>>

HandleSetup ==
    \/ WriteSsid \/ WritePassword \/ Save
    \/ LeaveToSwitch \/ CreateSwitch \/ CreateFails

Switch ==
    \/ CopySsid \/ CopyPassword \/ Stop \/ SetMode \/ SetConfig \/ Start
    \/ Connect \/ SwitchFails \/ SetFlags \/ SwitchEnds

Next == Boot \/ Receive \/ HandleSetup \/ Switch \/ OnDisconnected \/ OnGotIp \/ LinkChanges

Spec == Init /\ [][Next]_vars

\* The scheduler runs the switch task, and its calls return.
FairSpec == Spec /\ WF_vars(Switch)

-----------------------------------------------------------------------------
\* Between requests the repository has both settings of the last one, whatever
\* became of the switches.  If no switch is under way either, the driver has
\* them too, unless a call of the switch failed or the request came too late for
\* the switch that was under way (webui_server.c:169).
SettingsApplied ==
    saves > 0 /\ hpc = "idle" =>
        /\ saved = [ssid |-> saves, password |-> saves]
        /\ ~inProgress /\ ~failed /\ ~unapplied => station = saved

\* Unless a call of the switch failed, or the driver refused to connect again,
\* which nothing repeats (network_manager_stub.c:27), the device is an access
\* point or is a station that is connected, connecting, or about to be told to
\* connect again.
NeverGivesUp ==
    boot = "done" /\ ~inProgress /\ ~failed /\ ~refused
        => running /\ (mode = "sta" => link # "down" \/ Contains(events, "disconnected"))

\* The flags tell no lie once a switch is over: ready is true of a device that
\* has an address, or is about to hear that it lost it; s_softap_mode, which
\* chooses the page, is the driver's mode.
FlagsTrue ==
    ~inProgress /\ ~failed
        => /\ ready /\ mode = "sta" => link = "up" \/ Contains(events, "disconnected")
           /\ softap <=> mode = "ap"

\* Whatever fails, the flag is reset, and another switch can be made.
SwitchesEnd == inProgress ~> ~inProgress
=============================================================================
