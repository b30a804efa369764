---------------------------- MODULE Device_proofs ----------------------------
(***************************************************************************)
(* What the board has saved is what it runs with, for any credentials,     *)
(* selections, layouts and views, and any set of flash faults.             *)
(***************************************************************************)
EXTENDS Device, TLAPS

LEMMA DefaultRecord == Default \in Records /\ Default.config # "LegacyFocus"
BY DeviceAssumption DEF Default, Records, Opt

\* Serializing yields a record without the legacy flag and changes nothing else.
LEMMA SerializedRecord ==
    ASSUME NEW r \in Records
    PROVE  /\ Serialized(r) \in {q \in Records : q.config # "LegacyFocus"}
           /\ Serialized(r).wifi = r.wifi
           /\ Serialized(r).selection = r.selection
           /\ Serialized(r).layout = r.layout
           /\ r.config # "LegacyFocus" => Serialized(r) = r
BY DeviceAssumption DEF Serialized, Records

\* What load_boot returns is a record with a view of this firmware.
LEMMA StoredRecord ==
    ASSUME flash \in Records
    PROVE  /\ Stored \in Records /\ Stored.config \in Modes
           /\ Stored.wifi = flash.wifi /\ Stored.selection = flash.selection
           /\ Stored.layout = flash.layout
           /\ flash.config # "LegacyFocus" => Stored.config = flash.config
BY DeviceAssumption DEF Stored, Migrated, Records

\* A call of the store with a record: it erases, perhaps after an error of the
\* read before it, or ends before the erase.
Runs(who, r) ==
  \/ Erased(who, r) /\ (NoFault \/ Fault("read"))
  \/ NotErased(who, r)

\* What a handler writes is the record it read, or the default one, with its
\* own field replaced.
LEMMA SaveRuns ==
    ASSUME TypeOK, NEW s \in Selections, Save(s)
    PROVE  \E r \in {flash, Default} :
             /\ [r EXCEPT !.selection = s] \in Records
             /\ Runs("selection", [r EXCEPT !.selection = s])
             /\ r = flash \/ faulty'
BY DefaultRecord DEF Save, Update, Runs, TypeOK, Records, Opt, Fault

LEMMA SetConfigRuns ==
    ASSUME TypeOK, NEW c \in Modes, SetConfig(c)
    PROVE  \E r \in {flash, Default} :
             /\ [r EXCEPT !.config = c] \in Records
             /\ Runs("config", [r EXCEPT !.config = c])
             /\ r = flash \/ faulty'
BY DefaultRecord DEF SetConfig, Update, Runs, TypeOK, Records, Opt, Fault

LEMMA SetLayoutRuns ==
    ASSUME TypeOK, NEW l \in Opt(Layouts), SetLayout(l)
    PROVE  \E r \in {flash, Default} :
             /\ [r EXCEPT !.layout = l] \in Records
             /\ Runs("layout", [r EXCEPT !.layout = l])
             /\ r = flash \/ faulty'
BY DefaultRecord DEF SetLayout, Update, Runs, TypeOK, Records, Opt, Fault

LEMMA SaveCredsRuns ==
    ASSUME TypeOK, SaveCreds
    PROVE  \E r \in {flash, Default} :
             /\ [r EXCEPT !.wifi = creds] \in Records
             /\ Runs("wifi", [r EXCEPT !.wifi = creds])
BY DefaultRecord DEF SaveCreds, Update, Runs, TypeOK, Records, Opt, Fault

LEMMA ButtonRuns == ASSUME ButtonHeld PROVE Runs("clear", Default)
BY DEF ButtonHeld, Runs

-----------------------------------------------------------------------------
(* Types *)

LEMMA InitTypeOK == Init => TypeOK
<1> SUFFICES ASSUME Init PROVE TypeOK
  OBVIOUS
<1>1. flash \in Records
  BY DefaultRecord, DeviceAssumption DEF Init, InitialFlash, Opt, Records
<1>2. /\ store \in BOOLEAN /\ link \in BOOLEAN /\ rescan \in BOOLEAN /\ faulty \in BOOLEAN
      /\ config \in Modes
  BY DeviceAssumption DEF Init
<1>3. attempts \in 0..Attempts
  BY DEF Init, Attempts
<1> QED
  BY <1>1, <1>2, <1>3 DEF Init, TypeOK, Opt

LEMMA RunsType ==
    ASSUME TypeOK, NEW r \in Records,
           NEW who \in {"selection", "config", "layout", "wifi", "clear"},
           who = "config" => r.config \in Modes,
           Runs(who, r)
    PROVE  TypeOK'
<1>1. CASE Erased(who, r) /\ (NoFault \/ Fault("read"))
  <2>1. [who |-> who, record |-> Serialized(r)] \in Calls
    BY SerializedRecord DEF Calls
  <2>2. faulty' \in BOOLEAN
    BY <1>1 DEF TypeOK, NoFault, Fault
  <2> QED
    BY <1>1, <2>1, <2>2, DefaultRecord DEF TypeOK, Erased, mirrors, wifi
<1>2. CASE NotErased(who, r)
  BY <1>2, DefaultRecord
     DEF TypeOK, NotErased, Settle, NoFault, Fault, Records
<1> QED
  BY <1>1, <1>2 DEF Runs

LEMMA CompleteType == TypeOK /\ Complete => TypeOK'
<1> SUFFICES ASSUME TypeOK, Complete PROVE TypeOK'
  OBVIOUS
<1>1. call \in Calls /\ call.record \in Records /\ call.record.config \in Modes
  BY DEF TypeOK, Complete, Calls, Records
<1> QED
  BY <1>1 DEF TypeOK, Complete, Settle, NoFault, Fault, Records

LEMMA PowerType == TypeOK /\ (Off \/ PowerOn) => TypeOK'
<1>1. ASSUME TypeOK, Off PROVE TypeOK'
  <2>1. /\ store' \in BOOLEAN /\ link' \in BOOLEAN /\ rescan' \in BOOLEAN
        /\ faulty' \in BOOLEAN /\ config' \in Modes
    BY <1>1, DeviceAssumption DEF Off
  <2>2. attempts' \in 0..Attempts
    BY <1>1 DEF Off, Attempts
  <2> QED
    BY <1>1, <2>1, <2>2 DEF TypeOK, Off, Opt
<1>2. ASSUME TypeOK, PowerOn PROVE TypeOK'
  <2>1. \E r \in Records : r.config \in Modes /\ BootWith(r)
    BY <1>2, DefaultRecord, StoredRecord DEF PowerOn, TypeOK, Default, Records
  <2>2. store' \in BOOLEAN /\ faulty' \in BOOLEAN
    BY <1>2 DEF PowerOn, TypeOK, NoFault, Fault
  <2> QED
    BY <1>2, <2>1, <2>2 DEF BootWith, TypeOK, Records, Opt
<1> QED
  BY <1>1, <1>2

\* The actions that make no call of the store.
Networking ==
  \/ Associate \/ LinkLost
  \/ \E c \in Creds : PostConnect(c)
  \/ GetScan \/ ScanDone \/ TakeConnect \/ TakeRescan
  \/ LeaveAp \/ Joined \/ JoinFailed

\* A join under way has attempts left.
AttemptsLeft == portal = "joining" => attempts < Attempts

LEMMA NetworkingType == TypeOK /\ AttemptsLeft /\ Networking => TypeOK'
<1> SUFFICES ASSUME TypeOK, AttemptsLeft, Networking PROVE TypeOK'
  OBVIOUS
<1> USE DEF TypeOK, mirrors, Opt, Attempts
<1>1. CASE Associate \/ LinkLost
  BY <1>1 DEF Associate, LinkLost
<1>2. CASE \E c \in Creds : PostConnect(c)
  BY <1>2 DEF PostConnect
<1>3. CASE GetScan \/ ScanDone \/ TakeConnect \/ TakeRescan
  BY <1>3 DEF GetScan, ScanDone, TakeConnect, TakeRescan, StartRescan
<1>4. CASE LeaveAp \/ Joined
  BY <1>4 DEF LeaveAp, Joined
<1>5. CASE JoinFailed
  BY <1>5 DEF JoinFailed, AttemptsLeft
<1> QED
  BY <1>1, <1>2, <1>3, <1>4, <1>5 DEF Networking

-----------------------------------------------------------------------------
(* The inductive invariant *)

\* The stages of the portal, and what each is sure of.
PortalInv ==
  /\ AttemptsLeft
  /\ PortalReachable
  /\ portal = "joined" => creds \in GoodCreds
  /\ portal # "none" => power = "portal"

\* Without a store, or with power off, nothing is in flight.
CallInv ==
  /\ call # NoCall => power # "off" /\ store
  /\ call.who = "wifi" => power = "portal"
  /\ power # "off" /\ ~store => faulty
  /\ power = "off" => button = "watching" /\ ~faulty

\* Credentials on their way to the flash have joined their network.
CredsInv ==
  /\ flash.wifi \in Opt(GoodCreds)
  /\ call.record.wifi \in Opt(GoodCreds)
  /\ power = "station" => creds \in GoodCreds

\* A legacy flag is found only on a board that started with one.
LegacyInv == ~Legacy => flash.config # "LegacyFocus"

\* The record in flight differs from the mirrors in the field being saved only.
Agrees(r, who) ==
  /\ r.wifi = creds
  /\ who # "selection" => selection = r.selection
  /\ who # "layout" => layout = r.layout
  /\ who # "config" => config = r.config \/ Legacy

MirrorInv ==
  power = "station" /\ button = "watching" /\ ~faulty =>
    IF call = NoCall THEN Agrees(flash, "nobody")
                     ELSE call.who # "clear" => Agrees(call.record, call.who)

IInv == TypeOK /\ PortalInv /\ CallInv /\ CredsInv /\ LegacyInv /\ MirrorInv

LEMMA CallCases ==
    ASSUME TypeOK
    PROVE  /\ call \in Calls \/ call = NoCall
           /\ call.record \in Records
           /\ call # NoCall => call.record.config \in Modes
           /\ call # NoCall <=> call.who # "nobody"
BY DefaultRecord DEF TypeOK, Calls, NoCall, Records

LEMMA InitInv == Init => IInv
<1> SUFFICES ASSUME Init PROVE IInv
  OBVIOUS
<1>1. TypeOK
  BY InitTypeOK
<1>2. flash.wifi \in Opt(GoodCreds) /\ (~Legacy => flash.config # "LegacyFocus")
  BY DeviceAssumption DEF Init, InitialFlash, Opt, Default
<1> QED
  BY <1>1, <1>2 DEF Init, IInv, PortalInv, AttemptsLeft, PortalReachable, CallInv,
     CredsInv, LegacyInv, MirrorInv, NoCall, Default, Opt

\* A call in the phase, of the kind and with the record it may have.
LEMMA RunsInv ==
    ASSUME IInv, NEW r \in Records,
           NEW who \in {"selection", "config", "layout", "wifi", "clear"},
           who = "config" => r.config \in Modes,
           Runs(who, r), power # "off", call = NoCall,
           who = "wifi" => power = "portal",
           r.wifi \in Opt(GoodCreds),
           power = "station" /\ button = "watching" /\ ~faulty' /\ who # "clear"
             => Agrees(Serialized(r), who)
    PROVE  IInv'
<1>1. TypeOK'
  BY RunsType DEF IInv
<1>2. CASE Erased(who, r) /\ (NoFault \/ Fault("read"))
  <2>1. call'.record.wifi = r.wifi /\ call'.who = who /\ call' # NoCall
        /\ call'.record = Serialized(r)
    BY <1>2, SerializedRecord DEF Erased, NoCall
  <2>2. PortalInv' /\ CallInv' /\ CredsInv' /\ LegacyInv'
    BY <1>2, <2>1 DEF IInv, PortalInv, AttemptsLeft, PortalReachable, CallInv, CredsInv,
       LegacyInv, Erased, NoFault, Fault, mirrors, wifi, Default, Opt
  <2>3. MirrorInv'
    BY <1>2, <2>1 DEF MirrorInv, Agrees, Erased, mirrors, wifi
  <2> QED
    BY <1>1, <2>2, <2>3 DEF IInv
<1>3. CASE NotErased(who, r)
  <2>1. call' = call /\ flash' \in {flash, Default} /\ faulty'
    BY <1>3 DEF NotErased, NoFault, Fault, IInv, CallInv
  <2>2. PortalInv' /\ CallInv' /\ CredsInv' /\ LegacyInv'
    BY <1>3, <2>1 DEF IInv, PortalInv, AttemptsLeft, PortalReachable, CallInv, CredsInv,
       LegacyInv, NotErased, Settle, Default, Opt, NoCall
  <2> QED
    BY <1>1, <2>1, <2>2 DEF IInv, MirrorInv
<1> QED
  BY <1>2, <1>3 DEF Runs

LEMMA CompleteInv == IInv /\ Complete => IInv'
<1> SUFFICES ASSUME IInv, Complete PROVE IInv'
  OBVIOUS
<1>1. TypeOK'
  BY CompleteType DEF IInv
<1>2. call' = NoCall /\ call # NoCall /\ call.record.config \in Modes
  BY CallCases DEF Complete, IInv
<1>3. PortalInv' /\ CallInv' /\ CredsInv' /\ LegacyInv'
  BY <1>2, DeviceAssumption DEF IInv, PortalInv, AttemptsLeft, PortalReachable, CallInv,
     CredsInv, LegacyInv, Complete, Settle, NoFault, Fault, Default, Opt, NoCall
<1>4. MirrorInv'
  BY <1>2 DEF IInv, MirrorInv, Agrees, Complete, Settle, NoFault, Fault, CallInv
<1> QED
  BY <1>1, <1>3, <1>4 DEF IInv

LEMMA PowerInv == IInv /\ (Off \/ PowerOn) => IInv'
<1>1. ASSUME IInv, Off PROVE IInv'
  <2>1. TypeOK'
    BY <1>1, PowerType DEF IInv
  <2> QED
    BY <1>1, <2>1 DEF IInv, Off, PortalInv, AttemptsLeft, PortalReachable, CallInv,
       CredsInv, LegacyInv, MirrorInv, NoCall, Default, Opt
<1>2. ASSUME IInv, PowerOn PROVE IInv'
  <2>1. TypeOK'
    BY <1>2, PowerType DEF IInv
  <2>2. PICK r \in Records :
          /\ BootWith(r)
          /\ r.wifi \in Opt(GoodCreds)
          /\ ~faulty' => r = Stored /\ store'
          /\ ~store' => faulty'
    BY <1>2, DefaultRecord, StoredRecord
       DEF PowerOn, IInv, TypeOK, CredsInv, NoFault, Fault, Default, Opt
  <2>3. call = NoCall /\ call' = NoCall /\ portal = "none" /\ button' = "watching"
        /\ flash' = flash
    BY <1>2, <2>2 DEF IInv, CallInv, PortalInv, PowerOn, BootWith
  <2>4. \/ power' = "portal" /\ portal' = "scanning"
        \/ /\ power' = "station" /\ portal' = "none"
           /\ selection' = r.selection /\ creds' = r.wifi /\ creds' \in GoodCreds
    BY <2>2, <2>3 DEF BootWith, Opt
  <2>5. PortalInv'
    BY <2>4 DEF PortalInv, AttemptsLeft, PortalReachable
  <2>6. CallInv'
    BY <2>2, <2>3, <2>4 DEF CallInv, NoCall
  <2>7. CredsInv' /\ LegacyInv'
    BY <2>3, <2>4, <1>2 DEF IInv, CredsInv, LegacyInv
  <2>8. MirrorInv'
    <3> SUFFICES ASSUME power' = "station", ~faulty' PROVE Agrees(flash, "nobody")'
      BY <2>3 DEF MirrorInv
    <3>1. layout' = Stored.layout /\ config' = Stored.config
          /\ selection' = Stored.selection /\ creds' = Stored.wifi
      BY <2>2, <2>4 DEF BootWith
    <3>2. Stored.wifi = flash.wifi /\ Stored.selection = flash.selection
          /\ Stored.layout = flash.layout /\ (Stored.config = flash.config \/ Legacy)
      BY <1>2, StoredRecord DEF IInv, TypeOK, LegacyInv
    <3> QED
      BY <2>3, <3>1, <3>2 DEF Agrees
  <2> QED
    BY <2>1, <2>5, <2>6, <2>7, <2>8 DEF IInv
<1> QED
  BY <1>1, <1>2

LEMMA NetworkingInv == IInv /\ Networking => IInv'
<1> SUFFICES ASSUME IInv, Networking PROVE IInv'
  OBVIOUS
<1>1. TypeOK'
  BY NetworkingType DEF IInv, PortalInv
<1> USE DEF IInv, PortalInv, AttemptsLeft, PortalReachable, CallInv, CredsInv, LegacyInv,
    MirrorInv, Agrees, mirrors, Opt
<1>2. CASE Associate \/ LinkLost
  BY <1>1, <1>2 DEF Associate, LinkLost
<1>3. CASE \E c \in Creds : PostConnect(c)
  BY <1>1, <1>3 DEF PostConnect
<1>4. CASE GetScan \/ ScanDone \/ TakeConnect \/ TakeRescan
  BY <1>1, <1>4 DEF GetScan, ScanDone, TakeConnect, TakeRescan, StartRescan, Portal
<1>5. CASE LeaveAp \/ Joined
  BY <1>1, <1>5 DEF LeaveAp, Joined, Portal, Attempts
<1>6. CASE JoinFailed
  BY <1>1, <1>6 DEF JoinFailed, Portal, TypeOK, Attempts
<1> QED
  BY <1>2, <1>3, <1>4, <1>5, <1>6 DEF Networking

\* A handler replaces its own field: the rest agrees with the mirrors because the
\* record it read did.
LEMMA HandlersInv ==
    ASSUME IInv,
           \/ \E s \in Selections : Save(s)
           \/ \E c \in Modes : SetConfig(c)
           \/ \E l \in Opt(Layouts) : SetLayout(l)
    PROVE  IInv'
<1>1. power = "station" /\ call = NoCall
  BY DEF Save, SetConfig, SetLayout, Served
<1>2. TypeOK /\ flash.wifi \in Opt(GoodCreds) /\ Default.wifi \in Opt(GoodCreds)
  BY DEF IInv, CredsInv, Default, Opt
<1>3. button = "watching" /\ ~faulty => Agrees(flash, "nobody")
  BY <1>1 DEF IInv, MirrorInv
<1>5. ASSUME NEW s \in Selections, Save(s) PROVE IInv'
  <2>1. PICK r \in {flash, Default} :
          /\ [r EXCEPT !.selection = s] \in Records
          /\ Runs("selection", [r EXCEPT !.selection = s])
          /\ r = flash \/ faulty'
    BY <1>2, <1>5, SaveRuns
  <2> DEFINE q == [r EXCEPT !.selection = s]
  <2>2. /\ q.wifi = r.wifi /\ q.layout = r.layout /\ q.config = r.config
    BY <1>2, DefaultRecord DEF TypeOK, Records
  <2>3. ~faulty' => ~faulty
    BY <2>1 DEF Runs, NotErased, NoFault, Fault
  <2>4. button = "watching" /\ ~faulty' => Agrees(Serialized(q), "selection")
    BY <1>3, <2>1, <2>2, <2>3, SerializedRecord DEF Agrees, IInv, LegacyInv
  <2> HIDE DEF q
  <2> QED
    BY <1>1, <1>2, <2>1, <2>2, <2>4, RunsInv DEF q
<1>6. ASSUME NEW c \in Modes, SetConfig(c) PROVE IInv'
  <2>1. PICK r \in {flash, Default} :
          /\ [r EXCEPT !.config = c] \in Records
          /\ Runs("config", [r EXCEPT !.config = c])
          /\ r = flash \/ faulty'
    BY <1>2, <1>6, SetConfigRuns
  <2> DEFINE q == [r EXCEPT !.config = c]
  <2>2. q.wifi = r.wifi /\ q.layout = r.layout /\ q.selection = r.selection /\ q.config = c
    BY <1>2, DefaultRecord DEF TypeOK, Records
  <2>3. ~faulty' => ~faulty
    BY <2>1 DEF Runs, NotErased, NoFault, Fault
  <2>4. button = "watching" /\ ~faulty' => Agrees(Serialized(q), "config")
    BY <1>3, <2>1, <2>2, <2>3, SerializedRecord DEF Agrees, IInv, LegacyInv
  <2> HIDE DEF q
  <2> QED
    BY <1>1, <1>2, <2>1, <2>2, <2>4, RunsInv DEF q
<1>7. ASSUME NEW l \in Opt(Layouts), SetLayout(l) PROVE IInv'
  <2>1. PICK r \in {flash, Default} :
          /\ [r EXCEPT !.layout = l] \in Records
          /\ Runs("layout", [r EXCEPT !.layout = l])
          /\ r = flash \/ faulty'
    BY <1>2, <1>7, SetLayoutRuns
  <2> DEFINE q == [r EXCEPT !.layout = l]
  <2>2. q.wifi = r.wifi /\ q.selection = r.selection /\ q.config = r.config
    BY <1>2, DefaultRecord DEF TypeOK, Records
  <2>3. ~faulty' => ~faulty
    BY <2>1 DEF Runs, NotErased, NoFault, Fault
  <2>4. button = "watching" /\ ~faulty' => Agrees(Serialized(q), "layout")
    BY <1>3, <2>1, <2>2, <2>3, SerializedRecord DEF Agrees, IInv, LegacyInv
  <2> HIDE DEF q
  <2> QED
    BY <1>1, <1>2, <2>1, <2>2, <2>4, RunsInv DEF q
<1> QED
  BY <1>5, <1>6, <1>7

LEMMA SaveCredsInv == ASSUME IInv, SaveCreds PROVE IInv'
<1>1. PICK r \in {flash, Default} :
        /\ [r EXCEPT !.wifi = creds] \in Records
        /\ Runs("wifi", [r EXCEPT !.wifi = creds])
  BY SaveCredsRuns DEF IInv
<1>2. [r EXCEPT !.wifi = creds].wifi = creds
  BY <1>1, DefaultRecord DEF IInv, TypeOK, Records
<1>3. power = "portal" /\ call = NoCall /\ creds \in Opt(GoodCreds)
  BY DEF SaveCreds, Portal, IInv, PortalInv, Opt
<1> QED
  BY <1>1, <1>2, <1>3, RunsInv

LEMMA ButtonInv == ASSUME IInv, ButtonHeld PROVE IInv'
<1>1. Default.wifi \in Opt(GoodCreds) /\ Runs("clear", Default)
      /\ power # "off" /\ call = NoCall
  BY ButtonRuns DEF Default, Opt, ButtonHeld, Running
<1> QED
  BY <1>1, RunsInv, DefaultRecord

LEMMA NextInv == IInv /\ [Next]_vars => IInv'
<1> SUFFICES ASSUME IInv, [Next]_vars PROVE IInv'
  OBVIOUS
<1>1. CASE PowerCut \/ PowerOn \/ PortalReset \/ ButtonReset
  BY <1>1, PowerInv DEF PowerCut, PortalReset, ButtonReset
<1>2. CASE Complete
  BY <1>2, CompleteInv
<1>3. CASE \/ \E s \in Selections : Save(s)
           \/ \E c \in Modes : SetConfig(c)
           \/ \E l \in Opt(Layouts) : SetLayout(l)
  BY <1>3, HandlersInv
<1>4. CASE Networking
  BY <1>4, NetworkingInv
<1>5. CASE SaveCreds \/ ButtonHeld
  BY <1>5, SaveCredsInv, ButtonInv
<1>6. CASE UNCHANGED vars
  BY <1>6 DEF vars, mirrors, wifi, IInv, TypeOK, PortalInv, AttemptsLeft, PortalReachable,
     CallInv, CredsInv, LegacyInv, MirrorInv, Agrees
<1> QED
  BY <1>1, <1>2, <1>3, <1>4, <1>5, <1>6 DEF Next, Networking

LEMMA DeviceInvariant == Spec => []IInv
<1>1. Init => IInv
  BY InitInv
<1>2. IInv /\ [Next]_vars => IInv'
  BY NextInv
<1> QED
  BY <1>1, <1>2, PTL DEF Spec

-----------------------------------------------------------------------------
(* The theorems *)

\* The types of the board's state, the stages of the portal and what a call in
\* flight writes (storage.rs, portal.rs, bin/main.rs).
THEOREM TypeCorrect == Spec => []TypeOK
<1>1. IInv => TypeOK
  BY DEF IInv
<1> QED
  BY <1>1, DeviceInvariant, PTL

\* The mirrors the panel and the poll read are what a restart would load, without
\* a flash error, a button reset or a record of the older firmware.
THEOREM MirrorsAreDurable == Spec => []MirrorsFollowFlash
<1>1. IInv => MirrorsFollowFlash
  <2> SUFFICES ASSUME IInv, power = "station", call = NoCall, button = "watching", ~faulty
               PROVE  /\ selection = Stored.selection
                      /\ layout = Stored.layout
                      /\ config = Stored.config \/ Legacy
    BY DEF MirrorsFollowFlash
  <2> QED
    BY StoredRecord DEF IInv, TypeOK, MirrorInv, Agrees, LegacyInv
<1> QED
  BY <1>1, DeviceInvariant, PTL

\* A save of the selection, the settings or the layout rewrites the credentials
\* the board booted with.
THEOREM CredsSurviveSaves == Spec => []StationKeepsCreds
<1>1. IInv => StationKeepsCreds
  BY DEF IInv, MirrorInv, Agrees, StationKeepsCreds
<1> QED
  BY <1>1, DeviceInvariant, PTL

\* Credentials reach the flash only after they have joined, whatever flash
\* operations fail.
THEOREM CredsHaveJoined == Spec => []OnlyWorkingCreds
<1>1. IInv => OnlyWorkingCreds
  BY DEF IInv, CredsInv, OnlyWorkingCreds
<1> QED
  BY <1>1, DeviceInvariant, PTL

\* The portal never waits for a phone with its access point down.
THEOREM PortalStaysReachable == Spec => []PortalReachable
<1>1. IInv => PortalReachable
  BY DEF IInv, PortalInv
<1> QED
  BY <1>1, DeviceInvariant, PTL
=============================================================================
