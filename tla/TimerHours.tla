----------------------------- MODULE TimerHours -----------------------------
(***************************************************************************)
(* When CodeLock may lock: the timer's settings, the active hours          *)
(* (services/schedule.ts), and the recurring timer that arms the next lock *)
(* when one ends (services/lockSessions.ts armSession, rearmAfterSession). *)
(* Beside them the settings screen (desktop renderer/screens/settings.tsx, *)
(* and the mobile one, which is the same), with its own copy of the        *)
(* settings and requests that may overlap.                                 *)
(*                                                                         *)
(* Time is the learner's local minute of the week; a day has as many       *)
(* minutes as the instance says.  LockSession has the sessions in detail.  *)
(***************************************************************************)
EXTENDS Integers, FiniteSets

CONSTANTS
    Day,            \* minutes in a day (1440)
    Saves,          \* requests the screen may have in flight
    ScreenPatches,  \* what the screen may save
    OtherPatches,   \* what another client of PATCH /settings/timer may save
    Shifts          \* by how much the local clock may be set

Fields == {"enabled", "autoRearm", "mask", "from", "to"}
Week   == 7 * Day

(* timerConfigSchema, field by field: a mask of days, and minutes of a day. *)
IsPatch(p) ==
    /\ DOMAIN p \subseteq Fields
    /\ "mask" \in DOMAIN p => p.mask \subseteq 0 .. 6
    /\ \A f \in DOMAIN p \cap {"from", "to"} : p[f] \in 0 .. Day

ASSUME HoursAssumption ==
    /\ Day \in Nat \ {0}
    /\ Shifts \subseteq Nat
    /\ \A p \in ScreenPatches \cup OtherPatches : IsPatch(p)
    /\ \A p \in ScreenPatches : "from" \in DOMAIN p \/ "to" \in DOMAIN p => p.from # p.to

VARIABLES
    localTime,  \* the learner's local time
    config,     \* the row of timer_configs
    session,    \* of the learner: none, armed or locked
    ended,      \* how the last one ended
    arming,     \* the arms under way, the learner's and the recurring timer's
    shown,      \* the screen's copy of the settings
    saves,      \* the screen's requests
    beside,     \* history: the fields of the saves each one was under way with
    doubtful    \* history: the fields the screen was given reason to have wrong

screen    == <<shown, saves, beside, doubtful>>
hoursVars == <<localTime, config, session, ended, arming, screen>>

Callers == {"learner", "repeat"}
Idle    == [stage |-> "idle", patch |-> <<>>, previous |-> <<>>]

Merged(p, c) == [f \in Fields |-> IF f \in DOMAIN p THEN p[f] ELSE c[f]]

Defaults == [enabled |-> TRUE, autoRearm |-> TRUE, mask |-> 0 .. 6, from |-> 0, to |-> Day]

HoursInit ==
    /\ localTime = 0
    /\ config = Defaults
    /\ session = "none" /\ ended = "never"
    /\ arming = [c \in Callers |-> "idle"]
    /\ shown = Defaults
    /\ saves = [s \in Saves |-> Idle]
    /\ beside = [s \in Saves |-> {}]
    /\ doubtful = {}

----------------------------------------------------------------------------
Wraps(c) == c.from > c.to

(* Mutant: the small hours are of their own day.                           *)
MutantEffectiveDay(c, t) == t \div Day

(* A wrapping window's small hours are of the day before.                  *)
EffectiveDay(c, t) ==
    IF Wraps(c) /\ t % Day < c.to THEN (t \div Day + 6) % 7 ELSE t \div Day

InTime(c, t) ==
    LET minute == t % Day IN
    IF Wraps(c) THEN minute >= c.from \/ minute < c.to ELSE minute >= c.from /\ minute < c.to

IsWithinActiveWindow(c, t) == EffectiveDay(c, t) \in c.mask /\ InTime(c, t)

----------------------------------------------------------------------------
GotoArm(c, label) == arming' = [arming EXCEPT ![c] = label]

(* POST /lock/arm.                                                         *)
Arm ==
    /\ arming["learner"] = "idle"
    /\ GotoArm("learner", "read")
    /\ UNCHANGED <<localTime, config, session, ended, screen>>

(* rearmAfterSession's own read.                                           *)
ReadRepeat ==
    /\ arming["repeat"] = "repeat"
    /\ GotoArm("repeat", IF config.autoRearm THEN "read" ELSE "idle")
    /\ UNCHANGED <<localTime, config, session, ended, screen>>

(* armSession, up to its answer about the hours.                           *)
ReadArm(c) ==
    /\ arming[c] = "read"
    /\ GotoArm(c, IF session = "none" /\ config.enabled /\ IsWithinActiveWindow(config, localTime)
                  THEN "create" ELSE "idle")
    /\ UNCHANGED <<localTime, config, session, ended, screen>>

(* The row; the index lets one session of the learner in.                  *)
Create(c) ==
    /\ arming[c] = "create"
    /\ session' = IF session = "none" THEN "armed" ELSE session
    /\ GotoArm(c, "idle")
    /\ UNCHANGED <<localTime, config, ended, screen>>

Fire ==
    /\ session = "armed"
    /\ session' = "locked"
    /\ UNCHANGED <<localTime, config, ended, arming, screen>>

(* Mutant: a spent skip ends the day, as it once did.                      *)
MutantRearms(ending) == ending = "solved"

Rearms(ending) == ending \in {"solved", "skipped"}

(* Solved, skipped, given up with the kill switch, or after an activity.   *)
(* A lock takes longer than the arm before it.                             *)
EndSession ==
    /\ session = "locked" /\ arming["repeat"] = "idle"
    /\ session' = "none"
    /\ \E e \in {"solved", "skipped", "abandoned", "participated"} :
          /\ ended' = e
          /\ GotoArm("repeat", IF Rearms(e) THEN "repeat" ELSE "idle")
    /\ UNCHANGED <<localTime, config, screen>>

----------------------------------------------------------------------------
(* timerConfigSchema's refinement: of a patch with both ends.              *)
IsValid(p) == ({"from", "to"} \subseteq DOMAIN p) => p.from < p.to

(* PATCH /settings/timer from another client.                              *)
Patch(p) ==
    /\ IsValid(p)
    /\ config' = Merged(p, config)
    /\ doubtful' = doubtful \cup DOMAIN p
    /\ UNCHANGED <<localTime, session, ended, arming, shown, saves, beside>>

(* The screen shows the patch and sends it, whatever else is under way: its*)
(* controls stay enabled.                                                  *)
Save(s, p) ==
    /\ saves[s].stage = "idle"
    /\ saves' = [saves EXCEPT ![s] = [stage |-> "sent", patch |-> p, previous |-> shown]]
    /\ shown' = Merged(p, shown)
    /\ beside' = [t \in Saves |->
          IF t = s THEN UNION {DOMAIN saves[u].patch : u \in Saves}
          ELSE IF saves[t].stage = "idle" THEN {}
          ELSE beside[t] \cup DOMAIN p]
    /\ doubtful' = doubtful \cup (DOMAIN p \cap UNION {DOMAIN saves[u].patch : u \in Saves})
    /\ UNCHANGED <<localTime, config, session, ended, arming>>

(* PATCH of what the screen sent, which may have stopped waiting for it.   *)
Handle(s) ==
    /\ saves[s].stage \in {"sent", "late"}
    /\ config' = IF IsValid(saves[s].patch) THEN Merged(saves[s].patch, config) ELSE config
    /\ \/ /\ saves[s].stage = "sent"
          /\ saves' = [saves EXCEPT ![s].stage =
                           IF IsValid(saves[s].patch) THEN "ok" ELSE "refused"]
          /\ UNCHANGED <<beside, doubtful>>
       \/ /\ saves[s].stage = "late"
          /\ saves' = [saves EXCEPT ![s] = Idle]
          /\ beside' = [beside EXCEPT ![s] = {}]
          /\ doubtful' = IF IsValid(saves[s].patch) THEN doubtful \cup DOMAIN saves[s].patch
                         ELSE doubtful
    /\ UNCHANGED <<localTime, session, ended, arming, shown>>

(* Mutant: what was refused stays on the screen.                           *)
MutantTakenBack(s) == shown

(* The catch: the copy from before the save, whatever the error is.        *)
TakenBack(s) == saves[s].previous

(* The screen hears that the save is stored, or that it is refused.        *)
Answer(s) ==
    /\ \/ /\ saves[s].stage = "ok"
          /\ UNCHANGED <<shown, doubtful>>
       \/ /\ saves[s].stage = "refused"
          /\ shown' = TakenBack(s)
          /\ doubtful' = doubtful \cup beside[s]
    /\ saves' = [saves EXCEPT ![s] = Idle]
    /\ beside' = [beside EXCEPT ![s] = {}]
    /\ UNCHANGED <<localTime, config, session, ended, arming>>

(* The screen hears an error instead: the request never arrived, is yet to *)
(* be handled, or was, and its answer is lost.                             *)
Lose(s) ==
    /\ saves[s].stage \in {"sent", "ok", "refused"}
    /\ shown' = TakenBack(s)
    /\ doubtful' = doubtful \cup beside[s] \cup
          (IF saves[s].stage = "ok" THEN DOMAIN saves[s].patch ELSE {})
    /\ \/ /\ saves' = [saves EXCEPT ![s] = Idle]
          /\ beside' = [beside EXCEPT ![s] = {}]
       \/ /\ saves[s].stage = "sent"
          /\ saves' = [saves EXCEPT ![s].stage = "late"]
          /\ UNCHANGED beside
    /\ UNCHANGED <<localTime, config, session, ended, arming>>

Minute ==
    /\ localTime' = (localTime + 1) % Week
    /\ UNCHANGED <<config, session, ended, arming, screen>>

(* Another time zone (PATCH /settings/profile), or the end of summer time. *)
SetClock(k) ==
    /\ localTime' = (localTime + k) % Week
    /\ UNCHANGED <<config, session, ended, arming, screen>>

ArmStep == ReadRepeat \/ \E c \in Callers : ReadArm(c) \/ Create(c)

HoursNext ==
    \/ Arm \/ ArmStep \/ Fire \/ EndSession \/ Minute
    \/ \E k \in Shifts : SetClock(k)
    \/ \E p \in OtherPatches : Patch(p)
    \/ \E s \in Saves : Handle(s) \/ Answer(s) \/ Lose(s) \/ \E p \in ScreenPatches : Save(s, p)

HoursSpec == HoursInit /\ [][HoursNext]_hoursVars

(* A request that was begun is carried out.                                *)
FairSpec ==
    /\ HoursSpec
    /\ WF_hoursVars(ReadRepeat)
    /\ \A c \in Callers : WF_hoursVars(ReadArm(c) \/ Create(c))

----------------------------------------------------------------------------
HoursTypeOK ==
    /\ localTime \in 0 .. Week - 1
    /\ DOMAIN config = Fields /\ config.mask \subseteq 0 .. 6
    /\ config.from \in 0 .. Day /\ config.to \in 0 .. Day
    /\ session \in {"none", "armed", "locked"}
    /\ arming["learner"] \in {"idle", "read", "create"}
    /\ arming["repeat"] \in {"idle", "repeat", "read", "create"}
    /\ arming["repeat"] # "idle" => ended \in {"solved", "skipped"}
    /\ \A s \in Saves : saves[s].stage # "idle" => DOMAIN saves[s].previous = Fields

(* What the hours mean: a window opens on each chosen day and stays open   *)
(* until its end, on the next day if it must.                              *)
WindowLength(c) == IF c.from > c.to THEN Day - c.from + c.to ELSE c.to - c.from

IsOpen(c, t) == \E d \in c.mask : (t - (d * Day + c.from)) % Week < WindowLength(c)

(* schedule.ts:86: the code's answer is that one, in every week, for every *)
(* window that the settings can come to hold.                              *)
HoursAreHonoured == IsWithinActiveWindow(config, localTime) <=> IsOpen(config, localTime)

(* settings.tsx:222: when a session ends, solved or skipped, the next      *)
(* countdown starts, as long as it is not stopped and the hours are open.  *)
RepeatKeepsGoing ==
    [](config.autoRearm /\ config.enabled /\ IsOpen(config, localTime))
        => ((session = "none" /\ ended \in {"solved", "skipped"}) ~> session # "none")

(* dashboard.tsx:720: stopping the repeat is a promise about the next      *)
(* countdown.                                                              *)
StopIsKept ==
    [][(arming["repeat"] = "create" /\ arming'["repeat"] = "idle" /\ session = "none")
         => config.autoRearm]_hoursVars

(* schedule.ts:84: a window past midnight is an ordinary way to describe   *)
(* an evening session, not an invalid one.                                 *)
OvernightIsOrdinary ==
    \A s \in Saves : saves[s].stage = "refused" => ~Wraps(saves[s].patch)

Settled == \A s \in Saves : saves[s].stage = "idle"

(* settings.tsx:66: the change is shown before it is saved, and taken back *)
(* on any error.  However the saves overlap and whatever is lost, once they*)
(* are settled the screen shows what is stored, but for the fields         *)
(* - that another client saved,                                            *)
(* - that two saves had which were under way together,                     *)
(* - of a save under way together with one that failed, and                *)
(* - of a save that is stored though the screen heard an error.            *)
ShownIsStored == Settled => \A f \in Fields \ doubtful : shown[f] = config[f]

ShowsIts(s) == \A f \in DOMAIN saves[s].patch : shown'[f] = config'[f]

(* settings.tsx:74: "Saved. It applies to the next session."               *)
SavedIsShown ==
    [][\A s \in Saves : saves[s].stage = "ok" /\ Answer(s) => ShowsIts(s)]_hoursVars

(* settings.tsx:77: "Could not save."                                      *)
FailedIsNotStored ==
    [][\A s \in Saves : saves[s].stage = "ok" /\ Lose(s) => ShowsIts(s)]_hoursVars

=============================================================================
