------------------------- MODULE ProvisioningProofs -------------------------
(***************************************************************************)
(* The safety properties of Provisioning for any number of requests and    *)
(* of events that wait.                                                    *)
(*                                                                         *)
(* None is inductive.  Handling follows the settings through the request   *)
(* and the switch, Dialled what the switch has brought the driver to, and  *)
(* Heard the order of the events: an address that was lost since is        *)
(* followed by the news of its loss.                                       *)
(***************************************************************************)
EXTENDS Provisioning, TLAPS

\* Both fields as the n-th request has them.
Full(n) == [ssid |-> n, password |-> n]

\* What a request has written, and what the switch has of it as long as no
\* later request is under way.
Handling ==
    /\ hpc = "idle" => config = Full(saves) /\ saved = Full(saves)
    /\ hpc = "password" => config.ssid = saves
    /\ hpc \in {"save", "schedule"} => config = Full(saves)
    /\ hpc = "schedule" => saved = Full(saves)
    /\ hpc # "idle" => saves > 0

Copied ==
    hpc = "idle" /\ ~failed /\ ~unapplied =>
        /\ spc = "password" => staCfg.ssid = saves
        /\ spc \in {"stop", "mode", "config"} => staCfg = Full(saves)
        /\ spc \in {"start", "connect", "flags", "end"} => station = Full(saves)
        /\ spc = "none" /\ saves > 0 => station = Full(saves)

Connected == link # "down" \/ Contains(events, "disconnected")
Ready == link = "up" \/ Contains(events, "disconnected")

\* How far the driver is.
Dialled ==
    /\ boot # "done" => /\ mode = "ap" /\ hpc = "idle" /\ spc = "none" /\ ~ready /\ softap
                        /\ events = <<>> /\ ~running /\ link = "down"
    /\ spc \in {"config", "start", "connect", "flags"} => mode = "sta"
    /\ spc \in {"connect", "flags"} => running
    /\ spc = "flags" => refused \/ Connected
    /\ boot = "done" /\ spc \in {"end", "none"} /\ ~failed =>
          /\ running
          /\ mode = "sta" => refused \/ Connected
          /\ ready /\ mode = "sta" => Ready
          /\ softap <=> mode = "ap"

Heard ==
    \A i \in 1 .. Len(events) : events[i] = "gotIp" =>
        link = "up" \/ \E j \in i + 1 .. Len(events) : events[j] = "disconnected"

Inv == TypeOK /\ Handling /\ Copied /\ Dialled /\ Heard

-----------------------------------------------------------------------------
LEMMA FullIsSettings == ASSUME NEW n \in 0 .. MaxSaves PROVE Full(n) \in Settings
  BY DEF Full, Settings

LEMMA EmptyIsSettings == Empty \in Settings /\ Empty = Full(0)
  BY BoundsAssumption DEF Empty, Settings, Full

\* Settings stay settings when one field is written.
LEMMA FieldSet ==
  ASSUME NEW c \in Settings, NEW n \in 0 .. MaxSaves
  PROVE  [c EXCEPT !.ssid = n] \in Settings /\ [c EXCEPT !.password = n] \in Settings
BY DEF Settings

\* Where an action of the request, of the switch or of the link may find them.
LEMMA TypeStep == TypeOK /\ [Next]_vars => TypeOK'
<1> SUFFICES ASSUME TypeOK, [Next]_vars PROVE TypeOK'
  OBVIOUS
<1> USE EmptyIsSettings, BoundsAssumption DEF TypeOK
<1>1. CASE Boot
  <2>1. CASE boot' = "done"
    BY <1>1, <2>1 DEF Boot, StartAccessPoint, http
  <2>2. CASE boot' = "failed"
    BY <1>1, <2>2 DEF Boot, StartAccessPoint, http
  <2> QED
    BY <1>1, <2>1, <2>2 DEF Boot
<1>2. CASE Receive
  BY <1>2 DEF Receive, Setup, flags, driver
<1>3. CASE HandleSetup
  <2> USE DEF Setup, flags, driver
  <2>1. CASE WriteSsid
    <3>1. saves \in 0 .. MaxSaves /\ config \in Settings
      BY DEF Settings
    <3>2. config' \in Settings
      BY <2>1, <3>1, FieldSet DEF WriteSsid
    <3> QED
      BY <2>1, <3>2 DEF WriteSsid
  <2>2. CASE WritePassword
    <3>1. saves \in 0 .. MaxSaves /\ config \in Settings
      BY DEF Settings
    <3>2. config' \in Settings
      BY <2>2, <3>1, FieldSet DEF WritePassword
    <3> QED
      BY <2>2, <3>2 DEF WritePassword
  <2>3. CASE Save
    BY <2>3 DEF Save
  <2>4. CASE LeaveToSwitch
    BY <2>4 DEF LeaveToSwitch
  <2>5. CASE CreateSwitch
    BY <2>5 DEF CreateSwitch
  <2>6. CASE CreateFails
    BY <2>6 DEF CreateFails
  <2> QED
    BY <1>3, <2>1, <2>2, <2>3, <2>4, <2>5, <2>6 DEF HandleSetup
<1>4. CASE Switch
  <2> USE DEF Step, http, flags, driver
  <2>1. CASE CopySsid
    <3>1. config.ssid \in 0 .. MaxSaves /\ staCfg \in Settings
      BY DEF Settings
    <3>2. staCfg' \in Settings
      BY <2>1, <3>1, FieldSet DEF CopySsid
    <3> QED
      BY <2>1, <3>2 DEF CopySsid
  <2>2. CASE CopyPassword
    <3>1. config.password \in 0 .. MaxSaves /\ staCfg \in Settings
      BY DEF Settings
    <3>2. staCfg' \in Settings
      BY <2>2, <3>1, FieldSet DEF CopyPassword
    <3> QED
      BY <2>2, <3>2 DEF CopyPassword
  <2>3. CASE Stop
    <3>1. events' \in Seq({"disconnected", "gotIp"})
      BY <2>3 DEF Stop
    <3>2. link' \in {"down", "connecting", "up"} /\ running' \in BOOLEAN
      BY <2>3 DEF Stop
    <3>3. inProgress' <=> spc' # "none"
      BY <2>3 DEF Stop
    <3> QED
      BY <2>3, <3>1, <3>2, <3>3 DEF Stop
  <2>4. CASE SetMode
    BY <2>4 DEF SetMode
  <2>5. CASE SetConfig
    BY <2>5 DEF SetConfig
  <2>6. CASE Start
    BY <2>6 DEF Start
  <2>7. CASE Connect
    BY <2>7 DEF Connect, Dial
  <2>8. CASE SwitchFails
    BY <2>8 DEF SwitchFails
  <2>9. CASE SetFlags
    BY <2>9 DEF SetFlags
  <2>10. CASE SwitchEnds
    <3>1. {config', saved', staCfg', station'} \subseteq Settings
      BY <2>10 DEF SwitchEnds
    <3>2. inProgress' = FALSE /\ spc' = "none"
      BY <2>10 DEF SwitchEnds
    <3>3. UNCHANGED <<boot, hpc, ready, softap, mode, running, link, events,
                      saves, failed, refused, unapplied>>
      BY <2>10 DEF SwitchEnds
    <3> QED
      BY <3>1, <3>2, <3>3, ZenonT(60)
  <2> QED
    BY <1>4, <2>1, <2>2, <2>3, <2>4, <2>5, <2>6, <2>7, <2>8, <2>9, <2>10 DEF Switch
<1>5. CASE OnDisconnected \/ OnGotIp
  <2>1. PICK event : Handle(event) /\ (Dial \/ (UNCHANGED link /\ refused' \in BOOLEAN))
    BY <1>5 DEF OnDisconnected, OnGotIp
  <2>2. events' \in Seq({"disconnected", "gotIp"}) /\ ready' \in BOOLEAN
    BY <2>1 DEF Handle
  <2>3. link' \in {"down", "connecting", "up"} /\ refused' \in BOOLEAN
    BY <2>1 DEF Dial
  <2>4. UNCHANGED <<boot, http, inProgress, spc, staCfg, softap, mode, running,
                    station, failed, unapplied>>
    BY <2>1 DEF Handle
  <2> QED
    BY <2>2, <2>3, <2>4 DEF http
<1>6. CASE LinkChanges
  BY <1>6 DEF LinkChanges, http, flags
<1>7. CASE UNCHANGED vars
  BY <1>7 DEF vars, http, flags, driver
<1> QED
  BY <1>1, <1>2, <1>3, <1>4, <1>5, <1>6, <1>7 DEF Next

-----------------------------------------------------------------------------
\* The settings on their way from the request to the driver.
LEMMA SettingsStep ==
  ASSUME TypeOK, Handling, Copied, [Next]_vars
  PROVE  Handling' /\ Copied'
<1> USE BoundsAssumption DEF TypeOK, Handling, Copied, Full
<1>1. CASE Boot
  BY <1>1 DEF Boot, http
<1>2. CASE Receive
  BY <1>2 DEF Receive, Setup, driver
<1>3. CASE HandleSetup
  <2> USE DEF Setup, driver
  <2>1. CASE WriteSsid
    BY <2>1 DEF WriteSsid, Settings
  <2>2. CASE WritePassword
    BY <2>2 DEF WritePassword, Settings
  <2>3. CASE Save
    BY <2>3 DEF Save
  <2>4. CASE LeaveToSwitch
    BY <2>4 DEF LeaveToSwitch
  <2>5. CASE CreateSwitch
    BY <2>5 DEF CreateSwitch
  <2>6. CASE CreateFails
    BY <2>6 DEF CreateFails
  <2> QED
    BY <1>3, <2>1, <2>2, <2>3, <2>4, <2>5, <2>6 DEF HandleSetup
<1>4. CASE Switch
  <2> USE DEF Step, http, driver
  <2>1. CASE CopySsid
    BY <2>1 DEF CopySsid, Settings
  <2>2. CASE CopyPassword
    BY <2>2 DEF CopyPassword, Settings
  <2>3. CASE Stop
    BY <2>3 DEF Stop
  <2>4. CASE SetMode
    BY <2>4 DEF SetMode
  <2>5. CASE SetConfig
    BY <2>5 DEF SetConfig
  <2>6. CASE Start
    BY <2>6 DEF Start
  <2>7. CASE Connect
    BY <2>7 DEF Connect
  <2>8. CASE SwitchFails
    BY <2>8 DEF SwitchFails
  <2>9. CASE SetFlags
    BY <2>9 DEF SetFlags
  <2>10. CASE SwitchEnds
    BY <2>10 DEF SwitchEnds
  <2> QED
    BY <1>4, <2>1, <2>2, <2>3, <2>4, <2>5, <2>6, <2>7, <2>8, <2>9, <2>10 DEF Switch
<1>5. CASE OnDisconnected \/ OnGotIp
  BY <1>5 DEF OnDisconnected, OnGotIp, Handle, http
<1>6. CASE LinkChanges
  BY <1>6 DEF LinkChanges, http
<1>7. CASE UNCHANGED vars
  BY <1>7 DEF vars, http, driver
<1> QED
  BY <1>1, <1>2, <1>3, <1>4, <1>5, <1>6, <1>7 DEF Next

-----------------------------------------------------------------------------
\* What an event that is posted, or handled, changes in what is waiting.
LEMMA Posted ==
  ASSUME TypeOK, NEW e \in {"disconnected", "gotIp"}, events' = Append(events, e)
  PROVE  /\ Contains(events', "disconnected")
              <=> Contains(events, "disconnected") \/ e = "disconnected"
         /\ events' # <<>>
  BY DEF TypeOK, Contains

LEMMA Handled ==
  ASSUME TypeOK, events # <<>>, events' = Tail(events), Head(events) = "gotIp"
  PROVE  Contains(events, "disconnected") => Contains(events', "disconnected")
<1> SUFFICES ASSUME Contains(events, "disconnected") PROVE Contains(events', "disconnected")
  OBVIOUS
<1>1. PICK i \in 1 .. Len(events) : events[i] = "disconnected"
  BY DEF Contains
<1>2. events \in Seq({"disconnected", "gotIp"}) /\ i # 1
  BY <1>1 DEF TypeOK
<1>3. i - 1 \in 1 .. Len(events') /\ events'[i - 1] = events[i]
  BY <1>2
<1> QED
  BY <1>1, <1>3 DEF Contains

\* The order of the events, under every action that posts or handles one.
LEMMA HeardStep == TypeOK /\ Heard /\ [Next]_vars => Heard'
<1> SUFFICES ASSUME TypeOK, Heard, [Next]_vars PROVE Heard'
  OBVIOUS
<1>1. CASE UNCHANGED <<events, link>>
  BY <1>1 DEF Heard
<1>2. CASE events' = Append(events, "disconnected")
  BY <1>2 DEF Heard, TypeOK
<1>3. CASE events' = Append(events, "gotIp") /\ link' = "up"
  BY <1>3 DEF Heard, TypeOK
<1>4. CASE UNCHANGED events /\ link # "up"
  BY <1>4 DEF Heard
<1>5. CASE events # <<>> /\ events' = Tail(events) /\ (link = "up" => link' = "up")
  <2> SUFFICES ASSUME NEW i \in 1 .. Len(events'), events'[i] = "gotIp", link' # "up"
               PROVE  \E j \in i + 1 .. Len(events') : events'[j] = "disconnected"
    BY DEF Heard
  <2>1. /\ Len(events') = Len(events) - 1 /\ Len(events) \in Nat
        /\ \A k \in 1 .. Len(events') : events'[k] = events[k + 1]
    BY <1>5 DEF TypeOK
  <2>2. i + 1 \in 1 .. Len(events) /\ events[i + 1] = "gotIp"
    BY <2>1
  <2>3. PICK j \in i + 2 .. Len(events) : events[j] = "disconnected"
    BY <1>5, <2>2 DEF Heard
  <2>4. j - 1 \in i + 1 .. Len(events') /\ events'[j - 1] = "disconnected"
    BY <2>1, <2>3
  <2> QED
    BY <2>4
<1>6. CASE Switch
  <2>1. Stop => \/ UNCHANGED <<events, link>>
                \/ events' = Append(events, "disconnected")
                \/ UNCHANGED events /\ link # "up"
    BY DEF Stop
  <2>2. Connect => \/ UNCHANGED <<events, link>>
                   \/ UNCHANGED events /\ link # "up"
    BY DEF Connect, Dial
  <2>3. CASE ~Stop /\ ~Connect
    BY <1>1, <1>6, <2>3 DEF Switch, CopySsid, CopyPassword, SetMode, SetConfig, Start,
       SwitchFails, SetFlags, SwitchEnds, driver
  <2> QED
    BY <1>1, <1>2, <1>4, <2>1, <2>2, <2>3
<1>7. CASE OnDisconnected \/ OnGotIp
  BY <1>5, <1>7 DEF OnDisconnected, OnGotIp, Handle, Dial
<1>8. CASE LinkChanges
  BY <1>2, <1>3, <1>8 DEF LinkChanges
<1>9. CASE Boot \/ Receive \/ HandleSetup \/ UNCHANGED vars
  BY <1>1, <1>9 DEF Boot, Receive, HandleSetup, WriteSsid, WritePassword, Save,
     LeaveToSwitch, CreateSwitch, CreateFails, Setup, vars, driver
<1> QED
  BY <1>6, <1>7, <1>8, <1>9 DEF Next

-----------------------------------------------------------------------------
\* The driver and the flags.
LEMMA DialledStep ==
  ASSUME TypeOK, Dialled, Heard, [Next]_vars
  PROVE  Dialled'
<1> USE DEF TypeOK, Dialled, Connected, Ready
<1>1. CASE Boot
  <2>1. CASE boot' = "done"
    BY <1>1, <2>1 DEF Boot, StartAccessPoint, http
  <2>2. CASE boot' = "failed"
    BY <1>1, <2>2 DEF Boot, StartAccessPoint, http
  <2> QED
    BY <1>1, <2>1, <2>2 DEF Boot
<1>2. CASE Receive
  BY <1>2 DEF Receive, Setup, flags, driver
<1>3. CASE HandleSetup
  BY <1>3 DEF HandleSetup, WriteSsid, WritePassword, Save, LeaveToSwitch, CreateSwitch,
              CreateFails, Setup, flags, driver
<1>4. CASE Switch
  <2> USE DEF Step, http, flags, driver
  <2>1. CASE CopySsid
    BY <2>1 DEF CopySsid
  <2>2. CASE CopyPassword
    BY <2>2 DEF CopyPassword
  <2>3. CASE Stop
    BY <2>3 DEF Stop
  <2>4. CASE SetMode
    BY <2>4 DEF SetMode
  <2>5. CASE SetConfig
    BY <2>5 DEF SetConfig
  <2>6. CASE Start
    BY <2>6 DEF Start
  <2>7. CASE Connect
    BY <2>7 DEF Connect, Dial
  <2>8. CASE SwitchFails
    BY <2>8 DEF SwitchFails
  <2>9. CASE SetFlags
    BY <2>9 DEF SetFlags
  <2>10. CASE SwitchEnds
    BY <2>10 DEF SwitchEnds
  <2> QED
    BY <1>4, <2>1, <2>2, <2>3, <2>4, <2>5, <2>6, <2>7, <2>8, <2>9, <2>10 DEF Switch
<1>5. CASE OnDisconnected
  BY <1>5 DEF OnDisconnected, Handle, Dial, http
<1>6. CASE OnGotIp
  <2>1. events # <<>> /\ Head(events) = "gotIp" /\ events' = Tail(events)
    BY <1>6 DEF OnGotIp, Handle
  <2>2. Contains(events, "disconnected") => Contains(events', "disconnected")
    BY <2>1, Handled
  <2>3. link = "up" \/ Contains(events, "disconnected")
    BY <2>1 DEF Heard, Contains
  <2> QED
    BY <1>6, <2>1, <2>2, <2>3 DEF OnGotIp, Handle, http
<1>7. CASE LinkChanges
  <2>1. CASE link' = "up" /\ events' = Append(events, "gotIp")
    BY <1>7, <2>1, Posted DEF LinkChanges, http, flags
  <2>2. CASE link' = "down" /\ events' = Append(events, "disconnected")
    BY <1>7, <2>2, Posted DEF LinkChanges, http, flags
  <2> QED
    BY <1>7, <2>1, <2>2 DEF LinkChanges
<1>8. CASE UNCHANGED vars
  BY <1>8 DEF vars, http, flags, driver
<1> QED
  BY <1>1, <1>2, <1>3, <1>4, <1>5, <1>6, <1>7, <1>8 DEF Next

-----------------------------------------------------------------------------
LEMMA InitInv == Init => Inv
<1> SUFFICES ASSUME Init PROVE Inv
  OBVIOUS
<1>1. TypeOK
  <2>1. events \in Seq({"disconnected", "gotIp"})
    BY DEF Init
  <2>2. saves \in 0 .. MaxSaves /\ {config, saved, staCfg, station} \subseteq Settings
    BY EmptyIsSettings, BoundsAssumption DEF Init
  <2>3. inProgress <=> spc # "none"
    BY DEF Init
  <2> QED
    BY <2>1, <2>2, <2>3 DEF Init, TypeOK
<1>2. Handling /\ Copied
  BY EmptyIsSettings DEF Init, Handling, Copied
<1>3. Dialled /\ Heard
  BY DEF Init, Dialled, Heard
<1> QED
  BY <1>1, <1>2, <1>3 DEF Inv

LEMMA NextInv == Inv /\ [Next]_vars => Inv'
  BY TypeStep, SettingsStep, HeardStep, DialledStep DEF Inv

LEMMA InvImplies == Inv => TypeOK /\ SettingsApplied /\ NeverGivesUp /\ FlagsTrue
<1> SUFFICES ASSUME Inv PROVE TypeOK /\ SettingsApplied /\ NeverGivesUp /\ FlagsTrue
  OBVIOUS
<1>1. TypeOK /\ Handling /\ Copied /\ Dialled
  BY DEF Inv
<1>2. SettingsApplied
  BY <1>1 DEF SettingsApplied, TypeOK, Handling, Copied, Full
<1>3. NeverGivesUp
  BY <1>1 DEF NeverGivesUp, TypeOK, Dialled, Connected
<1>4. FlagsTrue
  BY <1>1 DEF FlagsTrue, TypeOK, Dialled, Ready
<1> QED
  BY <1>1, <1>2, <1>3, <1>4

\* Whatever fails and whenever requests come, for any bounds, the states are
\* well formed.
THEOREM ProvisioningTypeOK == Spec => []TypeOK
  BY InitInv, NextInv, InvImplies, PTL DEF Spec

\* The settings of the last request are in the repository between requests,
\* with no exception, and in the driver when all is at rest, if no call of the
\* switch failed (`failed`) and the request neither came during a switch past
\* its delay nor found the creation of one to fail (`unapplied`): a mixture or
\* stale settings need one of the two.
THEOREM LastSettingsApplied == Spec => []SettingsApplied
  BY InitInv, NextInv, InvImplies, PTL DEF Spec

\* A device whose switch did not fail can be reached, or tries to be, as long
\* as the driver accepts the calls to connect again: a refused one is the last.
THEOREM DeviceNeverGivesUp == Spec => []NeverGivesUp
  BY InitInv, NextInv, InvImplies, PTL DEF Spec

\* The flags of the network manager are not true without reason.
THEOREM NetworkFlagsTrue == Spec => []FlagsTrue
  BY InitInv, NextInv, InvImplies, PTL DEF Spec
=============================================================================
