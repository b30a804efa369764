------------------------------- MODULE Device -------------------------------
(* What the board remembers and which phase it is in: the single flash record *)
(* of storage.rs, its RAM mirrors (shared.rs), the boot of bin/main.rs, the   *)
(* provisioning portal's WiFi manager (portal.rs), the three handlers of the  *)
(* configuration page that persist something (httpd.rs), and the BOOT button. *)
(*                                                                            *)
(* All of it runs on core 0 in one cooperative executor, and a Store call     *)
(* never yields: between its erase and its write only a power cut gets in.    *)
EXTENDS Naturals

CONSTANTS
  Creds,       \* the WiFi credentials a user may type
  GoodCreds,   \* those the router accepts
  Selections,  \* the connection selections a user may save
  Layouts,     \* the non-empty custom layouts a user may save
  Modes,       \* the views a user may choose (Config.ui_mode)
  Legacy,      \* the board may start with a record of the pre-uiMode firmware
  Faults,      \* the flash operations that may fail
  None         \* an absent field of the record

Attempts == 4

ASSUME DeviceAssumption ==
  /\ GoodCreds \subseteq Creds
  /\ None \notin Creds \cup Selections \cup Layouts
  /\ {"Default", "Focus"} \subseteq Modes /\ "LegacyFocus" \notin Modes
  /\ Legacy \in BOOLEAN
  /\ Faults \subseteq {"init", "read", "serialize", "erase", "write"}

VARIABLES
  power,      \* "off", or the boot arm that runs: "portal" or "station"
  store,      \* STORE holds the flash: storage::init found the partition
  flash,      \* the record the sector holds; an erased sector reads as Default
  call,       \* the write_record that has erased and not yet written
  selection,  \* SELECTION
  config,     \* the view of the config atomics
  layout,     \* the custom-layout mirror
  creds,      \* the credentials the WiFi task works with
  link,       \* the station is associated
  request,    \* CONNECT_REQ
  rescan,     \* RESCAN_REQ
  portal,     \* where portal_wifi_task is
  attempts,   \* its join attempts that failed
  radio,      \* "ap" when the SoftAP is up, "sta" when it is not
  button,     \* "watching", or "cleared" in the 200 ms before the reset
  faulty      \* history: a flash operation failed since power came on

mirrors == <<selection, config, layout>>
wifi    == <<creds, link, request, rescan, portal, attempts, radio>>
vars    == <<power, store, flash, call, mirrors, wifi, button, faulty>>

-----------------------------------------------------------------------------
(* The record. read_all takes a sector without the magic, or with a payload   *)
(* that does not parse, for the default record. A legacy record has focusView *)
(* and no uiMode; focusView is read and never written (skip_serializing).     *)

Opt(S)  == S \cup {None}
Records == [wifi : Opt(Creds), selection : Opt(Selections),
            config : Modes \cup {"LegacyFocus"}, layout : Opt(Layouts)]

Default == [wifi |-> None, selection |-> None, config |-> "Default", layout |-> None]
NoCall  == [who |-> "nobody", record |-> Default]

\* Config::migrate, and what serializing makes of a config that was not migrated.
Migrated(c)   == IF c = "LegacyFocus" THEN "Focus" ELSE c
Serialized(r) == IF r.config = "LegacyFocus" THEN [r EXCEPT !.config = "Default"] ELSE r

Stored == [flash EXCEPT !.config = Migrated(@)]    \* what load_boot returns

NoFault  == faulty' = faulty
Fault(f) == f \in Faults /\ faulty' = TRUE

-----------------------------------------------------------------------------
(* Storage. Run is write_all up to the erase, with the error paths before it; *)
(* Settle is what the caller does once persist returned, failed or not.       *)

SettleUnlessEmpty(who, r) ==    \* clearing the layout forgets the mirror
  /\ selection' = IF who = "selection" THEN r.selection ELSE selection
  /\ config'    = IF who = "config" THEN r.config ELSE config
  /\ layout'    = IF who = "layout" /\ r.layout # None THEN r.layout ELSE layout
  /\ portal'    = IF who = "wifi" THEN "saved" ELSE portal
  /\ button'    = IF who = "clear" THEN "cleared" ELSE button
  /\ UNCHANGED <<power, store, creds, link, request, rescan, attempts, radio>>

Settle(who, r) ==
  /\ selection' = IF who = "selection" THEN r.selection ELSE selection
  /\ config'    = IF who = "config" THEN r.config ELSE config
  /\ layout'    = IF who = "layout" THEN r.layout ELSE layout
  /\ portal'    = IF who = "wifi" THEN "saved" ELSE portal
  /\ button'    = IF who = "clear" THEN "cleared" ELSE button
  /\ UNCHANGED <<power, store, creds, link, request, rescan, attempts, radio>>

Erased(who, r) ==
  /\ store
  /\ flash' = Default
  /\ call' = [who |-> who, record |-> Serialized(r)]
  /\ UNCHANGED <<power, store, mirrors, wifi, button>>

NotErased(who, r) ==
  /\ \/ ~store /\ flash' = flash /\ NoFault
     \/ store /\ flash' = flash /\ Fault("serialize")
     \/ store /\ flash' \in {flash, Default} /\ Fault("erase")
  /\ Settle(who, r)
  /\ call' = call

\* update: the one field goes into the record as it was read, or into a default
\* one when the read failed.
Update(field, value) ==
  \/ Erased(field, [flash EXCEPT ![field] = value]) /\ NoFault
  \/ Erased(field, [Default EXCEPT ![field] = value]) /\ Fault("read")
  \/ NotErased(field, [flash EXCEPT ![field] = value])

Complete ==
  /\ call # NoCall
  /\ \/ flash' = call.record /\ NoFault
     \/ flash' = flash /\ Fault("write")
  /\ Settle(call.who, call.record)
  /\ call' = NoCall

-----------------------------------------------------------------------------
(* Power. Nothing in RAM survives; the flash is as the last call left it.     *)

Off ==
  /\ power' = "off" /\ store' = FALSE /\ call' = NoCall
  /\ selection' = None /\ config' = "Default" /\ layout' = None
  /\ creds' = None /\ link' = FALSE /\ request' = None /\ rescan' = FALSE
  /\ portal' = "none" /\ attempts' = 0 /\ radio' = "sta"
  /\ button' = "watching" /\ faulty' = FALSE
  /\ flash' = flash

PowerCut == power # "off" /\ Off

\* main: init the store, load the record, start the portal or the station.
BootWith(r) ==
  /\ config' = r.config /\ layout' = r.layout
  /\ IF r.wifi = None
     THEN power' = "portal" /\ portal' = "scanning"
          /\ UNCHANGED <<selection, creds>>
     ELSE power' = "station" /\ selection' = r.selection /\ creds' = r.wifi
          /\ UNCHANGED portal
  /\ UNCHANGED <<flash, call, link, request, rescan, attempts, radio, button>>

PowerOn ==
  /\ power = "off"
  /\ \/ store' = TRUE /\ BootWith(Stored) /\ NoFault
     \/ store' = TRUE /\ BootWith(Default) /\ Fault("read")
     \/ store' = FALSE /\ BootWith(Default) /\ Fault("init")

Running == power # "off" /\ call = NoCall
Portal  == power = "portal" /\ call = NoCall

-----------------------------------------------------------------------------
(* The handlers of the configuration page, reachable over the station's link. *)

Served == power = "station" /\ link /\ call = NoCall

SaveFromEmpty(s) ==  \* a save that forgets to read the record first
  Served /\ Erased("selection", [Default EXCEPT !.selection = s]) /\ NoFault

Save(s) == Served /\ Update("selection", s)       \* POST /save

SetConfig(c) == Served /\ Update("config", c)     \* POST /config

\* POST /layout; an empty layout clears the saved one.
SetLayout(l) == Served /\ Update("layout", l)

-----------------------------------------------------------------------------
(* sta_connection_task: associate, and again whenever the link is gone.       *)

Associate ==
  /\ power = "station" /\ call = NoCall /\ ~link
  /\ creds \in GoodCreds
  /\ link' = TRUE
  /\ UNCHANGED <<power, store, flash, call, mirrors, creds, request, rescan,
                 portal, attempts, radio, button, faulty>>

LinkLost ==
  /\ power = "station" /\ call = NoCall /\ link
  /\ link' = FALSE
  /\ UNCHANGED <<power, store, flash, call, mirrors, creds, request, rescan,
                 portal, attempts, radio, button, faulty>>

-----------------------------------------------------------------------------
(* The portal. A phone reaches its server only while the SoftAP is up.        *)

PostConnect(c) ==   \* connect_handler: the newest request replaces the last
  /\ Portal /\ radio = "ap"
  /\ request' = c
  /\ UNCHANGED <<power, store, flash, call, mirrors, creds, link, rescan,
                 portal, attempts, radio, button, faulty>>

GetScan ==          \* scan_handler
  /\ Portal /\ radio = "ap"
  /\ rescan' = TRUE
  /\ UNCHANGED <<power, store, flash, call, mirrors, creds, link, request,
                 portal, attempts, radio, button, faulty>>

\* refresh_scan returns; the one at start-up is followed by the SoftAP.
ScanDone ==
  /\ Portal /\ portal = "scanning"
  /\ portal' = "waiting" /\ radio' = "ap"
  /\ UNCHANGED <<power, store, flash, call, mirrors, creds, link, request,
                 rescan, attempts, button, faulty>>

\* select: the first future is polled first, so a request beats a rescan.
TakeConnect ==
  /\ Portal /\ portal = "waiting" /\ request # None
  /\ creds' = request /\ request' = None /\ portal' = "flush"
  /\ UNCHANGED <<power, store, flash, call, mirrors, link, rescan, attempts,
                 radio, button, faulty>>

StartRescan ==
  /\ rescan' = FALSE /\ portal' = "scanning"
  /\ UNCHANGED <<power, store, flash, call, mirrors, creds, link, request,
                 attempts, radio, button, faulty>>

TakeRescanFirst ==  \* a select that serves the rescan first
  Portal /\ portal = "waiting" /\ rescan /\ StartRescan

TakeRescan ==
  Portal /\ portal = "waiting" /\ request = None /\ rescan /\ StartRescan

LeaveApKeepsCount ==   \* the failed attempts of the join before still count
  /\ Portal /\ portal = "flush"
  /\ portal' = "joining" /\ radio' = "sta"
  /\ UNCHANGED <<power, store, flash, call, mirrors, creds, link, request,
                 rescan, attempts, button, faulty>>

\* The 800 ms are over: the SoftAP goes down for the join.
LeaveAp ==
  /\ Portal /\ portal = "flush"
  /\ portal' = "joining" /\ attempts' = 0 /\ radio' = "sta"
  /\ UNCHANGED <<power, store, flash, call, mirrors, creds, link, request,
                 rescan, button, faulty>>

Joined ==
  /\ Portal /\ portal = "joining"
  /\ creds \in GoodCreds
  /\ portal' = "joined"
  /\ UNCHANGED <<power, store, flash, call, mirrors, creds, link, request,
                 rescan, attempts, radio, button, faulty>>

JoinGivesUp ==      \* a join that forgets to bring the SoftAP back
  /\ Portal /\ portal = "joining"
  /\ attempts' = attempts + 1
  /\ portal' = IF attempts' = Attempts THEN "waiting" ELSE portal
  /\ UNCHANGED <<power, store, flash, call, mirrors, creds, link, request,
                 rescan, radio, button, faulty>>

JoinRetries ==      \* a join without a limit on its attempts
  Portal /\ portal = "joining" /\ UNCHANGED vars

JoinFailed ==
  /\ Portal /\ portal = "joining"
  /\ attempts' = attempts + 1
  /\ IF attempts' = Attempts
     THEN portal' = "waiting" /\ radio' = "ap"
     ELSE UNCHANGED <<portal, radio>>
  /\ UNCHANGED <<power, store, flash, call, mirrors, creds, link, request,
                 rescan, button, faulty>>

SaveUntested ==     \* credentials persisted before they were tried
  Portal /\ portal \in {"joining", "joined"} /\ Update("wifi", creds)

SaveCreds == Portal /\ portal = "joined" /\ Update("wifi", creds)

PortalReset == Portal /\ portal = "saved" /\ Off

-----------------------------------------------------------------------------
(* button_task: a hold of 3 s wipes the record, then 200 ms, then the reset.  *)

ButtonHeld ==
  /\ Running /\ button = "watching"
  /\ \/ Erased("clear", Default) /\ NoFault
     \/ NotErased("clear", Default)

ButtonReset == Running /\ button = "cleared" /\ Off

-----------------------------------------------------------------------------
\* A board new from the factory, or one that ran the pre-uiMode firmware.
InitialFlash ==
  {Default} \cup
  IF Legacy
  THEN {[wifi |-> c, selection |-> s, config |-> "LegacyFocus", layout |-> None] :
           c \in GoodCreds, s \in Opt(Selections)}
  ELSE {}

Init ==
  /\ power = "off" /\ store = FALSE /\ call = NoCall
  /\ flash \in InitialFlash
  /\ selection = None /\ config = "Default" /\ layout = None
  /\ creds = None /\ link = FALSE /\ request = None /\ rescan = FALSE
  /\ portal = "none" /\ attempts = 0 /\ radio = "sta"
  /\ button = "watching" /\ faulty = FALSE

Next ==
  \/ PowerCut \/ PowerOn \/ Complete
  \/ \E s \in Selections : Save(s)
  \/ \E c \in Modes : SetConfig(c)
  \/ \E l \in Opt(Layouts) : SetLayout(l)
  \/ Associate \/ LinkLost
  \/ \E c \in Creds : PostConnect(c)
  \/ GetScan \/ ScanDone \/ TakeConnect \/ TakeRescan
  \/ LeaveAp \/ Joined \/ JoinFailed \/ SaveCreds \/ PortalReset
  \/ ButtonHeld \/ ButtonReset

Spec == Init /\ [][Next]_vars

\* The tasks of core 0 are woken by timers and by the radio, each of which fires;
\* nothing is assumed of the phone, the button, the power or the router.
Fairness ==
  /\ WF_vars(Complete) /\ WF_vars(ScanDone) /\ WF_vars(TakeConnect)
  /\ WF_vars(TakeRescan) /\ WF_vars(LeaveAp) /\ WF_vars(Joined \/ JoinFailed)
  /\ WF_vars(SaveCreds) /\ WF_vars(PortalReset) /\ WF_vars(ButtonReset)

FairSpec == Spec /\ Fairness

-----------------------------------------------------------------------------
(* Properties                                                                 *)

Calls == [who : {"selection", "config", "layout", "wifi", "clear"},
          record : {r \in Records : r.config # "LegacyFocus"}]

\* Every variable has its type, and a call's record is one that serializing
\* can produce.
TypeOK ==
  /\ power \in {"off", "portal", "station"} /\ store \in BOOLEAN
  /\ flash \in Records
  /\ call \in Calls \cup {NoCall}
  /\ selection \in Opt(Selections) /\ config \in Modes /\ layout \in Opt(Layouts)
  /\ creds \in Opt(Creds) /\ link \in BOOLEAN
  /\ request \in Opt(Creds) /\ rescan \in BOOLEAN
  /\ portal \in {"none", "scanning", "waiting", "flush", "joining", "joined", "saved"}
  /\ attempts \in 0..Attempts /\ radio \in {"sta", "ap"}
  /\ button \in {"watching", "cleared"} /\ faulty \in BOOLEAN

\* A cut of the power at any moment between two handlers loses nothing the user
\* has saved: the mirrors the panel and the poll read, written by apply_config,
\* apply_layout and /save, are what load_boot would return. Only after a flash
\* error, a button reset, or on the config of a legacy record may they differ.
MirrorsFollowFlash ==
  power = "station" /\ call = NoCall /\ button = "watching" /\ ~faulty =>
    /\ selection = Stored.selection
    /\ layout = Stored.layout
    /\ config = Stored.config \/ Legacy

\* Every save rewrites the whole record, credentials included: without a flash
\* error a board in the station phase keeps the credentials it booted with.
StationKeepsCreds ==
  power = "station" /\ call = NoCall /\ button = "watching" /\ ~faulty =>
    flash.wifi = creds

\* The portal persists credentials only after they have joined the network, so
\* no reboot leaves the portal for a network that was never reached.
OnlyWorkingCreds ==
  /\ flash.wifi \in Opt(GoodCreds)
  /\ call # NoCall => call.record.wifi \in Opt(GoodCreds)

\* While the WiFi manager waits for the phone, the phone can reach it: every way
\* back to the select of portal_wifi_task brings the SoftAP up first.
PortalReachable == portal = "waiting" => radio = "ap"

\* A user who taps Connect is served: the request is taken, replaced by a newer
\* one, or the board restarts. Scans the page keeps asking for do not starve it.
RequestTried ==
  \A c \in Creds : request = c ~> request # c

\* The join ends: the portal comes back, or the credentials are saved and the
\* board restarts.
JoinEnds ==
  portal \in {"flush", "joining"} ~> portal = "waiting" \/ power = "off"

\* model.rs:92-93: migrate folds a legacy focusView:true into ui_mode 1. The view
\* the user sees is then the one a reboot would load.
LegacyFocusKept ==
  power = "station" /\ call = NoCall /\ button = "watching" /\ ~faulty =>
    config = Stored.config

\* storage.rs:232-234: a failed save is non-fatal, it just does not survive a
\* reboot. What was saved before it should.
FailedSaveKeepsCreds ==
  power = "station" /\ call = NoCall /\ button = "watching" => flash.wifi = creds

\* The BOOT button clears everything and restarts: the board comes back up with
\* nothing saved.
ResetLeavesNothing ==
  [][button = "cleared" /\ power' = "off" /\ store /\ ~faulty
       => flash = Default]_vars
=============================================================================
