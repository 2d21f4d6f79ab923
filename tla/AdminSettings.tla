---------------------------- MODULE AdminSettings ----------------------------
(***************************************************************************)
(* The settings an administrator changes while the platform serves:        *)
(* internal/api/admin.go and admin_config_editable.go over the override    *)
(* file admin-policies.yaml of internal/config/config.go, and the boot     *)
(* sequence of cmd/platform/main.go that finishes an interrupted storage   *)
(* change.                                                                 *)
(*                                                                         *)
(* Every handler holds policyMu.  Handlers that save the file and then     *)
(* copy the value are one step, because a crash in between is a crash      *)
(* after the step.  updateStorage is taken apart: the registry, the live   *)
(* policy and the pending flag change while registrations, the identity    *)
(* renewal and crashes go on.  The file is replaced by rename: it holds    *)
(* the old or the new contents.  A save that fails leaves everything as    *)
(* it was unless the model says otherwise.                                 *)
(*                                                                         *)
(* Abstractions.  A registry record is the storage policy in force when it *)
(* was made.  A confirmation token is what its MAC covers; its lifetime is *)
(* left out (a token may always be presented too late, never too early).   *)
(* Compliance retention, the fourth managed policy, is in V2Admission.     *)
(***************************************************************************)
EXTENDS Naturals, FiniteSets

CONSTANTS
    Keys, Values, \* the editable startup settings and their admissible values
    Days,         \* history retention
    Base,         \* config.yaml
    PreviewKeys,  \* random keys a process may draw for its tokens
    MaxPreviews,  \* bound on the tokens clients keep
    None          \* not overridden, no token, nothing in progress

\* The policies and startup settings of a configuration.
Settings == [store : BOOLEAN, forward : BOOLEAN, history : Days, res : [Keys -> Values]]

File == [store : BOOLEAN \cup {None}, forward : BOOLEAN \cup {None},
         history : Days \cup {None}, reset : BOOLEAN,
         res : [Keys -> Values \cup {None}]]

Live == [store : BOOLEAN, forward : BOOLEAN, history : Days,
         reset : BOOLEAN,    \* RegistryResetPending
         restart : BOOLEAN]  \* ConfigRestartPending

Token == [key : PreviewKeys, revision : [Keys -> Values], target : [Keys -> Values]]

Change == [next : BOOLEAN, at : {"saved", "cleared", "applied", "failed"}]

ASSUME SettingsAssumption ==
    /\ Base \in Settings
    /\ MaxPreviews \in Nat
    /\ None \notin BOOLEAN /\ None \notin Days /\ None \notin Values
    /\ None \notin Token /\ None \notin Change

VARIABLES
    file,      \* admin-policies.yaml
    phase,     \* "down", then the boot sequence, then "serving"
    cfg,       \* the configuration the process loaded
    live,      \* SecurityPolicies, and the history retention of the MQ store
    key,       \* previewKey of the process
    reg,       \* storage policies under which clients' records were made
    own,       \* the policy the platform's own record states
    renewing,  \* the policy the renewal goroutine has read
    change,    \* updateStorage in progress; it holds policyMu
    scheduled, \* a goroutine will restart the process in 500 ms
    previews,  \* tokens clients hold, of this process or an earlier one
    confirmed, \* history: tokens that have changed the file
    announced  \* history: the policy a 500 answer said remains pending on disk

vars == <<file, phase, cfg, live, key, reg, own, renewing, change, scheduled,
          previews, confirmed, announced>>

process == <<phase, cfg, key, scheduled>>
registry == <<reg, own>>
tokens == <<previews, confirmed>>

-----------------------------------------------------------------------------
Chosen(override, default) == IF override = None THEN default ELSE override

\* LoadAdminPolicies: the overrides in the file on top of config.yaml.
Overlay(f) ==
    [store |-> Chosen(f.store, Base.store),
     forward |-> Chosen(f.forward, Base.forward),
     history |-> Chosen(f.history, Base.history),
     res |-> [k \in Keys |-> Chosen(f.res[k], Base.res[k])]]

\* SaveAdminPolicies: the managed policies and the marker are rewritten, the
\* startup settings in the file are kept.
Saved(policies, reset) ==
    [file EXCEPT !.store = policies.store, !.forward = policies.forward,
                 !.history = policies.history, !.reset = reset]

\* The policies of a process that starts with these settings.
Started(settings, reset) ==
    [store |-> settings.store, forward |-> settings.forward, history |-> settings.history,
     reset |-> reset, restart |-> FALSE]

\* A handler may take policyMu.
Free == phase = "serving" /\ change = None

Init ==
    /\ file = [store |-> None, forward |-> None, history |-> None, reset |-> FALSE,
               res |-> [k \in Keys |-> None]]
    /\ phase = "down"
    /\ cfg = Base
    /\ live = Started(Base, FALSE)
    /\ key \in PreviewKeys
    /\ reg = {} /\ own = None
    /\ renewing = None /\ change = None /\ scheduled = FALSE
    /\ previews = {} /\ confirmed = {}
    /\ announced = None

-----------------------------------------------------------------------------
(* Boot and exit *)

\* Random draws do not repeat, and which one it is makes no difference.
UnusedKeys == {k \in PreviewKeys : \A t \in previews : t.key # k}

\* The supervisor starts the process; it loads both files and draws a key.
BootLoad ==
    /\ phase = "down"
    /\ UnusedKeys # {}
    /\ phase' = "loaded"
    /\ cfg' = Overlay(file)
    /\ key' = CHOOSE k \in UnusedKeys : TRUE
    /\ UNCHANGED <<file, live, registry, renewing, change, scheduled, tokens, announced>>

\* Variant: only the platform's own record is removed.
BootEvict ==
    /\ phase = "loaded" /\ file.reset
    /\ own' = None
    /\ phase' = "cleared"
    /\ UNCHANGED <<file, cfg, live, key, reg, renewing, change, scheduled, tokens, announced>>

\* recoverPendingRegistryReset, first half.
BootClear ==
    /\ phase = "loaded" /\ file.reset
    /\ reg' = {} /\ own' = None
    /\ phase' = "cleared"
    /\ UNCHANGED <<file, cfg, live, key, renewing, change, scheduled, tokens, announced>>

\* Second half: the marker goes.
BootSave ==
    /\ phase = "cleared"
    /\ file' = Saved(cfg, FALSE)
    /\ phase' = "recovered"
    /\ UNCHANGED <<cfg, live, key, registry, renewing, change, scheduled, tokens, announced>>

\* Variant: a pending reset does not hold up serving.
ReadyUnlessCleared == phase \in {"loaded", "recovered"}

ReadyToServe == phase = "recovered" \/ (phase = "loaded" /\ ~file.reset)

\* The platform registers itself, and api.New installs the policies and the
\* marker (nothing else writes the file during boot).
BootServe ==
    /\ ReadyToServe
    /\ own' = cfg.store
    /\ live' = Started(cfg, file.reset)
    /\ phase' = "serving"
    /\ UNCHANGED <<file, cfg, key, reg, renewing, change, scheduled, tokens, announced>>

\* What was in memory is gone; key is kept, for the next process draws another.
Exit ==
    /\ phase' = "down"
    /\ cfg' = Base /\ live' = Started(Base, FALSE)
    /\ renewing' = None /\ change' = None /\ scheduled' = FALSE /\ announced' = None
    /\ UNCHANGED <<file, key, registry, tokens>>

\* Any failure of a boot step is log.Fatal; a serving process may die anywhere.
Crash == phase # "down" /\ Exit

RestartTimer == phase = "serving" /\ scheduled /\ Exit

-----------------------------------------------------------------------------
(* Registry traffic *)

\* A client registers or renews.
Register ==
    /\ phase = "serving"
    /\ reg' = reg \cup {live.store}
    /\ UNCHANGED <<file, process, live, own, renewing, change, tokens, announced>>

\* Leases end, or an administrator evicts.
Lapse ==
    /\ \E r \in SUBSET reg, o \in {own, None} : reg' = r /\ own' = o
    /\ UNCHANGED <<file, process, live, renewing, change, tokens, announced>>

\* The renewal goroutine reads the policy, signs, and registers.
RenewRead ==
    /\ phase = "serving" /\ renewing = None
    /\ renewing' = live.store
    /\ UNCHANGED <<file, process, live, registry, change, tokens, announced>>

RenewWrite ==
    /\ renewing # None
    /\ own' = renewing
    /\ renewing' = None
    /\ UNCHANGED <<file, process, live, reg, change, tokens, announced>>

-----------------------------------------------------------------------------
(* updateStorage *)

SavedChange(next) == Saved([live EXCEPT !.store = next], TRUE)

StorageSave(next) ==
    /\ Free /\ ~live.reset
    /\ next # live.store
    /\ file' = SavedChange(next)
    /\ change' = [next |-> next, at |-> "saved"]
    /\ UNCHANGED <<process, live, registry, renewing, tokens, announced>>

StorageClear ==
    /\ change # None /\ change.at = "saved"
    /\ reg' = {} /\ own' = None
    /\ change' = [change EXCEPT !.at = "cleared"]
    /\ UNCHANGED <<file, process, live, renewing, tokens, announced>>

StorageClearFails ==
    /\ change # None /\ change.at = "saved"
    /\ change' = [change EXCEPT !.at = "failed"]
    /\ UNCHANGED <<file, process, live, registry, renewing, tokens, announced>>

StorageApply ==
    /\ change # None /\ change.at = "cleared"
    /\ live' = [live EXCEPT !.store = change.next]
    /\ change' = [change EXCEPT !.at = "applied"]
    /\ UNCHANGED <<file, process, registry, renewing, tokens, announced>>

\* The pending flag, the restart goroutine and the answer.
StorageFlag ==
    /\ change # None /\ change.at = "applied"
    /\ live' = [live EXCEPT !.reset = TRUE]
    /\ scheduled' = TRUE
    /\ change' = None
    /\ UNCHANGED <<file, phase, cfg, key, registry, renewing, tokens, announced>>

StorageRollBack ==
    /\ change # None /\ change.at = "failed"
    /\ file' = Saved(live, live.reset)
    /\ change' = None
    /\ UNCHANGED <<process, live, registry, renewing, tokens, announced>>

\* "the new storage policy remains pending on disk; restart is required".
StorageRollBackFails ==
    /\ change # None /\ change.at = "failed"
    /\ live' = [live EXCEPT !.reset = TRUE]
    /\ announced' = change.next
    /\ change' = None
    /\ UNCHANGED <<file, process, registry, renewing, tokens>>

-----------------------------------------------------------------------------
(* The other policies and the startup settings *)

\* Variant: the marker is always cleared.
Unmarked(policies) == Saved(policies, FALSE)

\* updateForwarding writes the marker back as it is live.
Remarked(policies) == Saved(policies, live.reset)

SetForwarding ==
    /\ Free
    /\ LET next == [live EXCEPT !.forward = ~@]
       IN  live' = next /\ file' = Remarked(next)
    /\ UNCHANGED <<process, registry, renewing, change, tokens, announced>>

SetRetention(days) ==
    /\ Free /\ ~live.reset
    /\ LET next == [live EXCEPT !.history = days]
       IN  live' = next /\ file' = Saved(next, live.reset)
    /\ UNCHANGED <<process, registry, renewing, change, tokens, announced>>

\* Variant: a pending restart does not block the editor.
EditableUnlessReset == Free /\ ~live.reset

Editable == Free /\ ~live.reset /\ ~live.restart

\* The revision a client quotes is the one the process loaded; the token goes
\* to the client.  One for settings as they are is not kept: no save uses it.
Preview(target) ==
    /\ Editable
    /\ target # cfg.res
    /\ Cardinality(previews) < MaxPreviews
    /\ previews' = previews \cup {[key |-> key, revision |-> cfg.res, target |-> target]}
    /\ UNCHANGED <<file, process, live, registry, renewing, change, confirmed, announced>>

\* Variant: the MAC key is the same for every process.
AcceptedWithoutKey(t) == t.revision = cfg.res

Accepted(t) == t.revision = cfg.res /\ t.key = key

\* Only what differs from the loaded settings is written.
SaveEditable(t) ==
    /\ Editable
    /\ Accepted(t)
    /\ t.target # cfg.res
    /\ file' = [Saved(live, live.reset) EXCEPT
                   !.res = [k \in Keys |-> IF t.target[k] # cfg.res[k] THEN t.target[k] ELSE @[k]]]
    /\ live' = [live EXCEPT !.restart = TRUE]
    /\ scheduled' = TRUE
    /\ confirmed' = confirmed \cup {t}
    /\ UNCHANGED <<phase, cfg, key, registry, renewing, change, previews, announced>>

Next ==
    \/ BootLoad \/ BootClear \/ BootSave \/ BootServe
    \/ Crash \/ RestartTimer
    \/ Register \/ Lapse \/ RenewRead \/ RenewWrite
    \/ \E next \in BOOLEAN : StorageSave(next)
    \/ StorageClear \/ StorageClearFails \/ StorageApply \/ StorageFlag
    \/ StorageRollBack \/ StorageRollBackFails
    \/ SetForwarding
    \/ \E days \in Days : SetRetention(days)
    \/ \E target \in [Keys -> Values] : Preview(target)
    \/ \E t \in previews : SaveEditable(t)

Spec == Init /\ [][Next]_vars

\* The timer goroutine runs, the supervisor starts the process again, and no
\* boot step fails for ever.
Fairness ==
    /\ WF_vars(RestartTimer) /\ WF_vars(BootLoad)
    /\ SF_vars(BootClear) /\ SF_vars(BootSave) /\ SF_vars(BootServe)

FairSpec == Spec /\ Fairness

-----------------------------------------------------------------------------
(* Properties *)

\* Every variable has its type.
TypeOK ==
    /\ file \in File
    /\ phase \in {"down", "loaded", "cleared", "recovered", "serving"}
    /\ cfg \in Settings
    /\ live \in Live
    /\ key \in PreviewKeys
    /\ reg \subseteq BOOLEAN
    /\ own \in BOOLEAN \cup {None}
    /\ renewing \in BOOLEAN \cup {None}
    /\ change \in Change \cup {None}
    /\ scheduled \in BOOLEAN
    /\ previews \subseteq Token
    /\ confirmed \subseteq Token
    /\ announced \in BOOLEAN \cup {None}

\* DEVELOPMENT.md:114: an interrupted storage change leaves no old routes: a
\* serving process without a pending reset has no client record from under
\* another storage policy and never publishes another policy of its own,
\* wherever the change, the recovery or the renewal were cut off.
RoutesMatchPolicy ==
    Free /\ ~live.reset => /\ reg \subseteq {live.store}
                           /\ own \in {live.store, None}
                           /\ renewing \in {live.store, None}

\* What the server answers and shows is what a restart brings back: between
\* handlers the file agrees with the live policies and with the pending flag,
\* except for the storage policy a failed rollback announced.
FileMatchesLive ==
    Free => /\ Overlay(file).forward = live.forward
            /\ Overlay(file).history = live.history
            /\ file.reset = live.reset
            /\ Overlay(file).store # live.store => announced # None

\* An edit of the startup settings is decided on what is in the file: no save
\* overrides another administrator's edit that its author has not seen.
EditsAreNotLost ==
    [][file'.res # file.res => Overlay(file).res = cfg.res]_vars

\* One confirmation changes the file once, not again when the settings happen
\* to be back at the previewed revision in a later process.
NoConfirmationReplayed ==
    [][\A t \in previews : SaveEditable(t) => t \notin confirmed]_vars

\* An accepted storage change takes effect: the process restarts, finishes the
\* registry reset whatever crashes come in between, and serves without it.
ResetCompletes ==
    (live.reset /\ scheduled) ~> (phase = "serving" /\ ~live.reset)
=============================================================================
