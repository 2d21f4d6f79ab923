------------------------- MODULE AdminSettingsProofs -------------------------
(***************************************************************************)
(* Proofs about AdminSettings.  Everything rests on one invariant, Inv: it *)
(* says of each phase of the process, down and booting included, what the  *)
(* file, the registry and the loaded configuration have to do with each    *)
(* other, and so what a crash at that point leaves behind.                 *)
(***************************************************************************)
EXTENDS AdminSettings, TLAPS

LEMMA OverlayIsSettings == ASSUME NEW f \in File PROVE Overlay(f) \in Settings
BY SettingsAssumption DEF File, Settings, Overlay, Chosen

LEMMA SavedIsFile ==
  ASSUME file \in File, NEW p, p.store \in BOOLEAN, p.forward \in BOOLEAN,
         p.history \in Days, NEW b \in BOOLEAN
  PROVE  Saved(p, b) \in File
BY DEF Saved, File

LEMMA DrawnIsUnused ==
  UnusedKeys # {} => (CHOOSE k \in UnusedKeys : TRUE) \in UnusedKeys
OBVIOUS

-----------------------------------------------------------------------------
(* Types *)

\* Every reachable state is well typed.
THEOREM TypeCorrect == Spec => []TypeOK
<1>1. Init => TypeOK
  <2> SUFFICES ASSUME Init PROVE TypeOK
    OBVIOUS
  <2>1. /\ Base \in Settings /\ Base.store \in BOOLEAN /\ Base.forward \in BOOLEAN
        /\ Base.history \in Days
    BY SettingsAssumption DEF Settings
  <2>2. file \in File
    BY DEF Init, File
  <2>3. live \in Live
    BY <2>1 DEF Init, Live, Started
  <2> QED BY <2>1, <2>2, <2>3 DEF Init, TypeOK
<1>2. TypeOK /\ [Next]_vars => TypeOK'
  <2> SUFFICES ASSUME TypeOK, [Next]_vars PROVE TypeOK'
    OBVIOUS
  <2> USE DEF TypeOK, process, registry, tokens
  <2>1. CASE BootLoad
    BY <2>1, OverlayIsSettings, DrawnIsUnused DEF BootLoad, UnusedKeys
  <2>2. CASE BootClear
    BY <2>2 DEF BootClear
  <2>3. CASE BootSave
    <3>1. cfg.store \in BOOLEAN /\ cfg.forward \in BOOLEAN /\ cfg.history \in Days
      BY DEF Settings
    <3>2. Saved(cfg, FALSE) \in File
      BY <3>1 DEF Saved, File
    <3> QED BY <2>3, <3>2 DEF BootSave
  <2>4. CASE BootServe
    <3>1. live' \in Live
      BY <2>4 DEF BootServe, Started, Settings, Live, File
    <3> QED BY <2>4, <3>1 DEF BootServe, Settings
  <2>5. CASE Crash \/ RestartTimer
    <3>1. Started(Base, FALSE) \in Live
      BY SettingsAssumption DEF Started, Settings, Live
    <3> QED BY <2>5, <3>1, SettingsAssumption DEF Crash, RestartTimer, Exit
  <2>6. CASE Register \/ Lapse \/ RenewRead \/ RenewWrite
    BY <2>6 DEF Register, Lapse, RenewRead, RenewWrite, Live
  <2>7. ASSUME NEW next \in BOOLEAN, StorageSave(next) PROVE TypeOK'
    <3>1. [live EXCEPT !.store = next] \in Live
      BY DEF Live
    <3>2. Saved([live EXCEPT !.store = next], TRUE) \in File
      BY <3>1 DEF Saved, File, Live
    <3> QED BY <2>7, <3>2 DEF StorageSave, SavedChange, Change
  <2>8. CASE StorageClear \/ StorageClearFails
    BY <2>8 DEF StorageClear, StorageClearFails, Change
  <2>9. CASE StorageApply \/ StorageFlag
    BY <2>9 DEF StorageApply, StorageFlag, Change, Live
  <2>10. CASE StorageRollBack
    <3>1. file' \in File
      BY <2>10, SavedIsFile DEF StorageRollBack, Live
    <3> QED BY <2>10, <3>1 DEF StorageRollBack
  <2>11. CASE StorageRollBackFails
    BY <2>11 DEF StorageRollBackFails, Change, Live
  <2>12. CASE SetForwarding
    <3>1. [live EXCEPT !.forward = ~@] \in Live
      BY DEF Live
    <3>2. file' \in File /\ live' \in Live
      BY <2>12, <3>1, SavedIsFile DEF SetForwarding, Remarked, Live
    <3> QED BY <2>12, <3>2 DEF SetForwarding
  <2>13. ASSUME NEW days \in Days, SetRetention(days) PROVE TypeOK'
    <3>1. [live EXCEPT !.history = days] \in Live
      BY DEF Live
    <3>2. file' \in File /\ live' \in Live
      BY <2>13, <3>1, SavedIsFile DEF SetRetention, Live
    <3> QED BY <2>13, <3>2 DEF SetRetention
  <2>14. ASSUME NEW target \in [Keys -> Values], Preview(target) PROVE TypeOK'
    BY <2>14 DEF Preview, Token, Settings
  <2>15. ASSUME NEW t \in previews, SaveEditable(t) PROVE TypeOK'
    <3>1. t \in Token /\ t.target \in [Keys -> Values]
      BY DEF Token
    <3>2. Saved(live, live.reset) \in File
      BY SavedIsFile DEF Live
    <3>3. file' \in File
      BY <2>15, <3>1, <3>2 DEF SaveEditable, File
    <3> QED BY <2>15, <3>1, <3>3 DEF SaveEditable, Live
  <2>16. CASE UNCHANGED vars
    BY <2>16 DEF vars
  <2> QED
    BY <2>1, <2>2, <2>3, <2>4, <2>5, <2>6, <2>7, <2>8, <2>9, <2>10, <2>11, <2>12,
       <2>13, <2>14, <2>15, <2>16 DEF Next
<1> QED BY <1>1, <1>2, PTL DEF Spec

-----------------------------------------------------------------------------
(* The storage change and its recovery *)

\* Every record, and every registration under way, is from under policy s.
Routes(s) == reg \subseteq {s} /\ own \in {s, None} /\ renewing \in {s, None}

\* While serving: the pending reset is marked in the file before the registry
\* and the live policy change, and the policy in the file is the live one or
\* the one updateStorage is moving to.
ServingInv ==
    phase = "serving" =>
        /\ Overlay(file).forward = live.forward
        /\ Overlay(file).history = live.history
        /\ ~live.restart => Overlay(file).res = cfg.res
        /\ change = None /\ ~live.reset
             => Routes(live.store) /\ ~file.reset /\ Overlay(file).store = live.store
        /\ change = None /\ live.reset
             => file.reset /\ (Overlay(file).store # live.store => announced # None)
        /\ change # None
             => /\ ~live.reset /\ file.reset
                /\ change.at \in {"saved", "failed"} => Routes(live.store)
                /\ change.at = "applied" => Overlay(file).store = live.store
                /\ change.at # "applied" => Overlay(file).store = change.next

\* Down or booting: without the marker in the file every record is from under
\* the policy the file will bring up; after the recovery there are no records.
BootInv ==
    phase # "serving" =>
        /\ change = None /\ renewing = None /\ announced = None
        /\ ~file.reset => reg \subseteq {Overlay(file).store} /\ own \in {Overlay(file).store, None}
        /\ phase # "down" => cfg = Overlay(file)
        /\ phase \in {"cleared", "recovered"} => reg = {} /\ own = None
        /\ phase = "recovered" => ~file.reset

AnnouncedInv == announced # None => live.reset /\ change = None

Inv == ServingInv /\ BootInv /\ AnnouncedInv

LEMMA NextInv == TypeOK /\ TypeOK' /\ Inv /\ [Next]_vars => Inv'
<1> SUFFICES ASSUME TypeOK, TypeOK', Inv, [Next]_vars PROVE Inv'
  OBVIOUS
<1> USE DEF process, registry, tokens
<1>0. file \in File /\ file' \in File /\ live \in Live /\ cfg \in Settings
      /\ live.store \in BOOLEAN /\ live.forward \in BOOLEAN /\ live.history \in Days
      /\ cfg.store \in BOOLEAN /\ cfg.forward \in BOOLEAN /\ cfg.history \in Days
  BY DEF TypeOK, Live, Settings
<1>1. CASE BootLoad
  BY <1>1 DEF BootLoad, Inv, ServingInv, BootInv, AnnouncedInv
<1>2. CASE BootClear
  BY <1>2 DEF BootClear, Inv, ServingInv, BootInv, AnnouncedInv
<1>3. CASE BootSave
  <2>1. /\ Overlay(file') = Overlay(Saved(cfg, FALSE)) /\ file' = Saved(cfg, FALSE)
        /\ phase = "cleared" /\ phase' = "recovered" /\ cfg = Overlay(file)
    BY <1>3 DEF BootSave, Inv, BootInv
  <2>2. Overlay(file') = cfg /\ ~file'.reset
    BY <1>0, <2>1, SettingsAssumption DEF Overlay, Chosen, Saved, File, Settings
  <2> QED BY <1>3, <2>1, <2>2 DEF BootSave, Inv, ServingInv, BootInv, AnnouncedInv, Routes
<1>4. CASE BootServe
  <2>1. cfg = Overlay(file) /\ ~file.reset /\ change = None /\ renewing = None
        /\ announced = None
    BY <1>4 DEF BootServe, ReadyToServe, Inv, BootInv
  <2>2. reg \subseteq {cfg.store}
    BY <1>4, <2>1 DEF BootServe, ReadyToServe, Inv, BootInv
  <2>3. live'.store = cfg.store /\ live'.forward = cfg.forward /\ live'.history = cfg.history
        /\ ~live'.reset /\ ~live'.restart
    BY <1>4, <2>1 DEF BootServe, Started
  <2> QED BY <1>4, <2>1, <2>2, <2>3
          DEF BootServe, Inv, ServingInv, BootInv, AnnouncedInv, Routes
<1>5. CASE Exit /\ phase # "down"
  <2>1. ~file.reset => reg \subseteq {Overlay(file).store} /\ own \in {Overlay(file).store, None}
    BY <1>5 DEF Inv, ServingInv, BootInv, Routes
  <2> QED BY <1>5, <2>1 DEF Exit, Inv, ServingInv, BootInv, AnnouncedInv
<1>6. CASE Register
  BY <1>6 DEF Register, Inv, ServingInv, BootInv, AnnouncedInv, Routes
<1>7. CASE Lapse
  BY <1>7 DEF Lapse, Inv, ServingInv, BootInv, AnnouncedInv, Routes
<1>8. CASE RenewRead
  BY <1>8 DEF RenewRead, Inv, ServingInv, BootInv, AnnouncedInv, Routes
<1>9. CASE RenewWrite
  BY <1>9 DEF RenewWrite, Inv, ServingInv, BootInv, AnnouncedInv, Routes
<1>10. ASSUME NEW next \in BOOLEAN, StorageSave(next) PROVE Inv'
  <2> DEFINE p == [live EXCEPT !.store = next]
  <2>1. file' = Saved(p, TRUE) /\ p.store = next /\ p.forward = live.forward
        /\ p.history = live.history
    BY <1>0, <1>10 DEF StorageSave, SavedChange, Live
  <2>2. /\ Overlay(file').store = next /\ Overlay(file').forward = live.forward
        /\ Overlay(file').history = live.history /\ Overlay(file').res = Overlay(file).res
        /\ file'.reset
    BY <1>0, <2>1, SettingsAssumption DEF Overlay, Chosen, Saved, File
  <2>3. [next |-> next, at |-> "saved"] \in Change
    BY DEF Change
  <2>4. change' # None /\ change'.at = "saved" /\ change'.next = next
    BY <1>10, <2>3, SettingsAssumption DEF StorageSave
  <2>5. Routes(live.store) /\ ~live.reset /\ phase = "serving" /\ announced = None
    BY <1>10 DEF StorageSave, Free, Inv, ServingInv, AnnouncedInv
  <2> QED BY <1>10, <2>2, <2>4, <2>5
          DEF StorageSave, Inv, ServingInv, BootInv, AnnouncedInv, Routes
<1>11. CASE StorageClear
  <2>1. change' # None /\ change'.at = "cleared" /\ change'.next = change.next
    BY <1>11, SettingsAssumption DEF StorageClear, TypeOK, Change
  <2> QED BY <1>11, <2>1 DEF StorageClear, Inv, ServingInv, BootInv, AnnouncedInv
<1>12. CASE StorageClearFails
  <2>1. change' # None /\ change'.at = "failed" /\ change'.next = change.next
    BY <1>12, SettingsAssumption DEF StorageClearFails, TypeOK, Change
  <2> QED BY <1>12, <2>1 DEF StorageClearFails, Inv, ServingInv, BootInv, AnnouncedInv, Routes
<1>13. CASE StorageApply
  <2>1. /\ live'.store = change.next /\ live'.forward = live.forward
        /\ live'.history = live.history /\ live'.reset = live.reset
        /\ live'.restart = live.restart
        /\ change' # None /\ change'.at = "applied"
    BY <1>0, <1>13, SettingsAssumption DEF StorageApply, TypeOK, Change, Live
  <2> QED BY <1>13, <2>1 DEF StorageApply, Inv, ServingInv, BootInv, AnnouncedInv
<1>14. CASE StorageFlag
  <2>1. /\ live'.store = live.store /\ live'.forward = live.forward
        /\ live'.history = live.history /\ live'.reset /\ live'.restart = live.restart
    BY <1>0, <1>14 DEF StorageFlag, Live
  <2> QED BY <1>14, <2>1 DEF StorageFlag, Inv, ServingInv, BootInv, AnnouncedInv
<1>15. CASE StorageRollBack
  <2>1. phase = "serving" /\ ~live.reset /\ Routes(live.store)
    BY <1>15 DEF StorageRollBack, Inv, ServingInv, BootInv
  <2>2. /\ Overlay(file').store = live.store /\ Overlay(file').forward = live.forward
        /\ Overlay(file').history = live.history /\ Overlay(file').res = Overlay(file).res
        /\ ~file'.reset
    BY <1>0, <1>15, <2>1, SettingsAssumption DEF StorageRollBack, Overlay, Chosen, Saved, File
  <2> QED BY <1>15, <2>1, <2>2
          DEF StorageRollBack, Inv, ServingInv, BootInv, AnnouncedInv, Routes
<1>16. CASE StorageRollBackFails
  <2>1. /\ live'.store = live.store /\ live'.forward = live.forward
        /\ live'.history = live.history /\ live'.reset /\ live'.restart = live.restart
        /\ announced' # None
    BY <1>0, <1>16, SettingsAssumption DEF StorageRollBackFails, Live, TypeOK, Change
  <2> QED BY <1>16, <2>1 DEF StorageRollBackFails, Inv, ServingInv, BootInv, AnnouncedInv
<1>17. ASSUME NEW p \in Live, live' = p, file' = Saved(p, live.reset), Free,
              p.store = live.store, p.reset = live.reset, p.restart = live.restart,
              UNCHANGED <<process, registry, renewing, change, announced>>
       PROVE  Inv'
  <2>1. /\ p.store \in BOOLEAN /\ p.forward \in BOOLEAN /\ p.history \in Days
        /\ live.reset \in BOOLEAN
    BY <1>0, <1>17 DEF Live
  <2>2. /\ Overlay(file').store = p.store /\ Overlay(file').forward = p.forward
        /\ Overlay(file').history = p.history /\ Overlay(file').res = Overlay(file).res
        /\ file'.reset = live.reset
    BY <1>0, <1>17, <2>1, SettingsAssumption DEF Overlay, Chosen, Saved, File
  <2> QED BY <1>17, <2>2 DEF Free, Inv, ServingInv, BootInv, AnnouncedInv, Routes
<1>18. CASE SetForwarding
  <2> DEFINE p == [live EXCEPT !.forward = ~@]
  <2>1. p \in Live /\ p.store = live.store /\ p.reset = live.reset /\ p.restart = live.restart
    BY <1>0 DEF Live
  <2>2. live' = p /\ file' = Saved(p, live.reset) /\ Free
        /\ UNCHANGED <<process, registry, renewing, change, announced>>
    BY <1>18 DEF SetForwarding, Remarked
  <2> QED BY <1>17, <2>1, <2>2
<1>19. ASSUME NEW days \in Days, SetRetention(days) PROVE Inv'
  <2> DEFINE p == [live EXCEPT !.history = days]
  <2>1. p \in Live /\ p.store = live.store /\ p.reset = live.reset /\ p.restart = live.restart
    BY <1>0 DEF Live
  <2>2. live' = p /\ file' = Saved(p, live.reset) /\ Free
        /\ UNCHANGED <<process, registry, renewing, change, announced>>
    BY <1>19 DEF SetRetention
  <2> QED BY <1>17, <2>1, <2>2
<1>20. ASSUME NEW target \in [Keys -> Values], Preview(target) PROVE Inv'
  BY <1>20 DEF Preview, Inv, ServingInv, BootInv, AnnouncedInv, Routes
<1>21. ASSUME NEW t \in previews, SaveEditable(t) PROVE Inv'
  <2>1. Free /\ ~live.reset /\ live.reset \in BOOLEAN
    BY <1>0, <1>21 DEF SaveEditable, Editable, Live
  <2>2. /\ Overlay(file').store = live.store /\ Overlay(file').forward = live.forward
        /\ Overlay(file').history = live.history
        /\ ~file'.reset
    BY <1>0, <1>21, <2>1, SettingsAssumption DEF SaveEditable, Overlay, Chosen, Saved, File
  <2>3. /\ live'.store = live.store /\ live'.forward = live.forward
        /\ live'.history = live.history /\ ~live'.reset /\ live'.restart
    BY <1>0, <1>21, <2>1 DEF SaveEditable, Live
  <2> QED BY <1>21, <2>1, <2>2, <2>3
          DEF SaveEditable, Free, Inv, ServingInv, BootInv, AnnouncedInv, Routes
<1>22. CASE UNCHANGED vars
  BY <1>22 DEF vars, Inv, ServingInv, BootInv, AnnouncedInv, Routes
<1> QED
  BY <1>1, <1>2, <1>3, <1>4, <1>5, <1>6, <1>7, <1>8, <1>9, <1>10, <1>11, <1>12, <1>13,
     <1>14, <1>15, <1>16, <1>18, <1>19, <1>20, <1>21, <1>22
     DEF Next, Crash, RestartTimer

LEMMA Invariance == Spec => []Inv
<1>1. Init => Inv
  BY DEF Init, Inv, ServingInv, BootInv, AnnouncedInv
<1> QED BY <1>1, NextInv, TypeCorrect, PTL DEF Spec

\* No interrupted storage change leaves records of another policy behind.
THEOREM RoutesSound == Spec => []RoutesMatchPolicy
<1>1. Inv => RoutesMatchPolicy
  BY DEF Inv, ServingInv, RoutesMatchPolicy, Free, Routes
<1> QED BY <1>1, Invariance, PTL

\* Between handlers the override file agrees with what the process does.
THEOREM FileAgrees == Spec => []FileMatchesLive
<1>1. TypeOK /\ Inv => FileMatchesLive
  <2> SUFFICES ASSUME TypeOK, Inv, Free PROVE FileMatchesLive
    BY DEF FileMatchesLive
  <2>1. file.reset \in BOOLEAN /\ live.reset \in BOOLEAN
    BY DEF TypeOK, File, Live
  <2>2. file.reset = live.reset
    BY <2>1 DEF Free, Inv, ServingInv
  <2> QED BY <2>2 DEF Free, Inv, ServingInv, FileMatchesLive
<1> QED BY <1>1, TypeCorrect, Invariance, PTL

\* Only the editor writes startup settings.
LEMMA OnlyEditorWrites ==
  ASSUME TypeOK, Inv, [Next]_vars, file'.res # file.res
  PROVE  \E t \in previews : SaveEditable(t)
<1> USE DEF TypeOK, process, registry, tokens
<1>1. ASSUME NEW p, NEW b, file' = Saved(p, b) PROVE FALSE
  BY <1>1 DEF Saved, File
<1>2. \A p, b : file' # Saved(p, b)
  BY <1>1
<1> QED
  BY <1>2
     DEF Next, vars, BootLoad, BootClear, BootSave, BootServe, Crash, RestartTimer, Exit,
         Register, Lapse, RenewRead, RenewWrite, StorageSave, SavedChange, StorageClear,
         StorageClearFails, StorageApply, StorageFlag, StorageRollBack,
         StorageRollBackFails, SetForwarding, Remarked, SetRetention, Preview

\* An edit never overrides another one that its author has not seen.
THEOREM NoEditLost == Spec => EditsAreNotLost
<1>1. TypeOK /\ Inv /\ [Next]_vars => [file'.res # file.res => Overlay(file).res = cfg.res]_vars
  <2> SUFFICES ASSUME TypeOK, Inv, [Next]_vars, file'.res # file.res
               PROVE  Overlay(file).res = cfg.res
    OBVIOUS
  <2>1. PICK t \in previews : SaveEditable(t)
    BY OnlyEditorWrites
  <2> QED BY <2>1 DEF SaveEditable, Editable, Free, Inv, ServingInv
<1> QED BY <1>1, TypeCorrect, Invariance, PTL DEF Spec, EditsAreNotLost

-----------------------------------------------------------------------------
(* Confirmations *)

\* A process that may still save holds a key none of the used tokens has.
KeyInv ==
    /\ confirmed \subseteq previews
    /\ phase \in {"loaded", "cleared", "recovered"} => \A t \in previews : t.key # key
    /\ phase = "serving" /\ ~live.restart => \A t \in confirmed : t.key # key

LEMMA NextKeyInv == TypeOK /\ TypeOK' /\ KeyInv /\ [Next]_vars => KeyInv'
<1> SUFFICES ASSUME TypeOK, TypeOK', KeyInv, [Next]_vars PROVE KeyInv'
  OBVIOUS
<1> USE DEF KeyInv, process, registry, tokens
<1>1. CASE BootLoad
  BY <1>1, DrawnIsUnused DEF BootLoad, UnusedKeys
<1>2. CASE BootClear \/ BootSave
  BY <1>2 DEF BootClear, BootSave
<1>3. CASE BootServe
  BY <1>3 DEF BootServe, ReadyToServe
<1>4. CASE Exit
  BY <1>4 DEF Exit
<1>5. ASSUME UNCHANGED <<phase, key, tokens>>, live'.restart = live.restart PROVE KeyInv'
  BY <1>5
<1>6. ASSUME NEW target \in [Keys -> Values], Preview(target) PROVE KeyInv'
  BY <1>6 DEF Preview, Editable, Free
<1>7. ASSUME NEW t \in previews, SaveEditable(t) PROVE KeyInv'
  <2>1. phase' = "serving" /\ live'.restart
    BY <1>7 DEF SaveEditable, Editable, Free, TypeOK, Live
  <2> QED BY <1>7, <2>1 DEF SaveEditable
<1>8. \/ BootLoad \/ BootClear \/ BootSave \/ BootServe \/ Exit
      \/ UNCHANGED <<phase, key, tokens>> /\ live'.restart = live.restart
      \/ \E target \in [Keys -> Values] : Preview(target)
      \/ \E t \in previews : SaveEditable(t)
  <2>1. live \in Live
    BY DEF TypeOK
  <2>2. ASSUME NEW days \in Days, SetRetention(days)
        PROVE  UNCHANGED <<phase, key, tokens>> /\ live'.restart = live.restart
    BY <2>1, <2>2 DEF SetRetention, Live
  <2>3. ASSUME NEW next \in BOOLEAN, StorageSave(next)
        PROVE  UNCHANGED <<phase, key, tokens>> /\ live'.restart = live.restart
    BY <2>3 DEF StorageSave
  <2>4. ASSUME \/ Register \/ Lapse \/ RenewRead \/ RenewWrite
               \/ StorageClear \/ StorageClearFails \/ StorageApply \/ StorageFlag
               \/ StorageRollBack \/ StorageRollBackFails \/ SetForwarding
               \/ UNCHANGED vars
        PROVE  UNCHANGED <<phase, key, tokens>> /\ live'.restart = live.restart
    BY <2>1, <2>4
       DEF Live, vars, Register, Lapse, RenewRead, RenewWrite, StorageClear,
           StorageClearFails, StorageApply, StorageFlag, StorageRollBack,
           StorageRollBackFails, SetForwarding
  <2> QED BY <2>2, <2>3, <2>4 DEF Next, Crash, RestartTimer
<1> QED BY <1>1, <1>2, <1>3, <1>4, <1>5, <1>6, <1>7, <1>8

\* A confirmation token changes the file at most once, over all restarts.
THEOREM ConfirmedOnce == Spec => NoConfirmationReplayed
<1>1. Init => KeyInv
  BY DEF Init, KeyInv
<1>2. Spec => []KeyInv
  BY <1>1, NextKeyInv, TypeCorrect, PTL DEF Spec
<1>3. KeyInv /\ [Next]_vars => [\A t \in previews : SaveEditable(t) => t \notin confirmed]_vars
  BY DEF KeyInv, SaveEditable, Accepted, Editable, Free
<1> QED BY <1>2, <1>3, PTL DEF Spec, NoConfirmationReplayed
=============================================================================
