-------------------------------- MODULE Doze --------------------------------
(***************************************************************************)
(* Doze: the service that listens to the pickup and pocket sensors while   *)
(* the display is off (DozeService.kt, PickupSensor.kt, PocketSensor.kt),  *)
(* and what starts and stops it (Utils.kt, DozeSettingsFragment.kt,        *)
(* BootCompletedReceiver.kt).  The activity manager creates and destroys   *)
(* the service some time after it was asked to, a broadcast arrives some   *)
(* time after the display has changed, a posted check runs after the       *)
(* preference was stored, and each sensor has a thread of its own.         *)
(***************************************************************************)
EXTENDS Naturals, Sequences

CONSTANTS
    Sensors,      \* the sensors this device has
    Instances,    \* objects of the service that have work at the same time
    None,         \* no service
    MaxChanges,   \* bound: settings changed
    MaxQueue      \* bound: broadcasts and jobs that wait

ASSUME DozeAssumption == /\ None \notin Instances
                         /\ MaxChanges \in Nat
                         /\ MaxQueue \in Nat

VARIABLES
    doze,         \* Settings.Secure.DOZE_ENABLED
    alwaysOn,     \* Settings.Secure.DOZE_ALWAYS_ON
    gesture,      \* the preference of each sensor is not off
    changes,      \* settings changed so far
    open,         \* the settings fragment is attached
    posted,       \* checkDozeService posted by it and not yet run
    booting,      \* BOOT_COMPLETED has not been delivered
    record,       \* the service is started, to the activity manager
    scheduled,    \* what it has sent to the main thread
    service,      \* the object that exists
    display,      \* the display is on
    broadcasts,   \* SCREEN_ON and SCREEN_OFF sent to its receiver
    jobs,         \* submitted to the executor of each sensor of each object
    listening,    \* listeners registered with the sensor manager
    stale,        \* history: a check was lost, and none has run since
    raced         \* history: sensors turned off with a broadcast on its way

settings  == <<doze, alwaysOn, gesture, changes>>
app       == <<open, posted, booting, stale>>
manager   == <<record, scheduled>>
listeners == <<jobs, listening>>
vars == <<settings, app, manager, service, display, broadcasts, listeners, raced>>
-----------------------------------------------------------------------------
(* Utils.                                                                  *)

StartService ==
    /\ record' = TRUE
    /\ scheduled' = IF record THEN scheduled ELSE Append(scheduled, "create")

StopService ==
    /\ record' = FALSE
    /\ scheduled' = IF record THEN Append(scheduled, "destroy") ELSE scheduled

\* isDozeEnabled, isAlwaysOnEnabled and areGesturesEnabled.
Wanted(d, a, g) == d /\ ~ a /\ \E s \in Sensors : g[s]

CheckDozeService(d, a, g) ==
    \/ Wanted(d, a, g) /\ StartService
    \/ ~ Wanted(d, a, g) /\ StopService

BootCompleted ==
    /\ booting
    /\ booting' = FALSE
    /\ stale' = FALSE
    /\ CheckDozeService(doze, alwaysOn, gesture)
    /\ UNCHANGED <<settings, open, posted, service, display, broadcasts, listeners, raced>>
-----------------------------------------------------------------------------
(* DozeSettingsFragment.                                                   *)

\* The user reaches it while the display is on.
Changes ==
    /\ open /\ display
    /\ changes < MaxChanges
    /\ changes' = changes + 1
    /\ UNCHANGED <<open, booting, stale, service, display, broadcasts, listeners>>

\* (mutant) Always-on is written and nothing looks at it.
ChangeAlwaysOnUnchecked ==
    /\ Changes
    /\ doze
    /\ alwaysOn' = ~ alwaysOn
    /\ UNCHANGED <<doze, gesture, posted, manager, raced>>

\* The setting is written, and the check that looks at it is posted.
ChangeAlwaysOn ==
    /\ Changes
    /\ doze
    /\ alwaysOn' = ~ alwaysOn
    /\ posted' = posted + 1
    /\ UNCHANGED <<doze, gesture, manager, raced>>

\* The main switch is checked at once as well, before always-on goes off with it.
ChangeDoze ==
    /\ Changes
    /\ doze' = ~ doze
    /\ CheckDozeService(~ doze, alwaysOn, gesture)
    /\ alwaysOn' = (alwaysOn /\ ~ doze)
    /\ posted' = posted + 1
    /\ UNCHANGED <<gesture, raced>>

\* (mutant) The check runs in the listener, before the preference is stored.
ChangeGestureCheckedAtOnce(s) ==
    /\ Changes
    /\ doze /\ ~ alwaysOn
    /\ gesture' = [gesture EXCEPT ![s] = ~ @]
    /\ raced' = IF gesture[s] /\ broadcasts # <<>> THEN raced \cup {s} ELSE raced
    /\ CheckDozeService(doze, alwaysOn, gesture)
    /\ UNCHANGED <<doze, alwaysOn, posted>>

\* The preference is stored once onPreferenceChange has returned, and the check runs
\* after that.
ChangeGesture(s) ==
    /\ Changes
    /\ doze /\ ~ alwaysOn
    /\ gesture' = [gesture EXCEPT ![s] = ~ @]
    /\ raced' = IF gesture[s] /\ broadcasts # <<>> THEN raced \cup {s} ELSE raced
    /\ posted' = posted + 1
    /\ UNCHANGED <<doze, alwaysOn, manager>>

\* The process dies: a started service that is sticky is created again.
Dies ==
    /\ scheduled' = IF record THEN <<"create">> ELSE <<>>
    /\ service' = None
    /\ broadcasts' = <<>>
    /\ jobs' = [s \in Sensors |-> [i \in Instances |-> <<>>]]
    /\ listening' = {}
    /\ raced' = {}
    /\ open' = FALSE
    /\ posted' = 0
    /\ stale' = TRUE
    /\ UNCHANGED <<settings, booting, record, display>>

\* A posted check runs.  Without a fragment requireContext throws.
HandleCheck ==
    /\ posted > 0
    /\ IF open
          THEN /\ posted' = posted - 1
               /\ stale' = FALSE
               /\ CheckDozeService(doze, alwaysOn, gesture)
               /\ UNCHANGED <<settings, open, booting, service, display, broadcasts,
                              listeners, raced>>
          ELSE Dies

\* Another fragment is shown when the checks of the last one have run.
Shows ==
    /\ open' = (~ open)
    /\ ~ open => posted = 0 /\ display
    /\ UNCHANGED <<settings, posted, booting, stale, manager, service, display, broadcasts,
                   listeners, raced>>
-----------------------------------------------------------------------------
(* DozeService and its sensors.                                            *)

\* enable and disable submit a job to the sensor's executor.
Submit(job, sensors) ==
    jobs' = [s \in Sensors |->
               IF s \in sensors THEN [jobs[s] EXCEPT ![service] = Append(@, job)]
                                ELSE jobs[s]]

Enabled == {s \in Sensors : gesture[s]}

OnCreate(i) ==
    /\ scheduled # <<>> /\ Head(scheduled) = "create"
    /\ \A s \in Sensors : jobs[s][i] = <<>> /\ <<s, i>> \notin listening
    /\ scheduled' = Tail(scheduled)
    /\ service' = i
    /\ UNCHANGED <<settings, app, record, display, broadcasts, listeners, raced>>

\* (mutant) It unregisters the listeners itself.
OnDestroyUnregisters ==
    /\ scheduled # <<>> /\ Head(scheduled) = "destroy"
    /\ scheduled' = Tail(scheduled)
    /\ listening' = listening \ {<<s, service>> : s \in Sensors}
    /\ service' = None
    /\ broadcasts' = <<>>
    /\ raced' = {}
    /\ UNCHANGED <<settings, app, record, display, jobs>>

\* The receiver hears no more broadcasts, and both sensors are disabled.
OnDestroy ==
    /\ scheduled # <<>> /\ Head(scheduled) = "destroy"
    /\ scheduled' = Tail(scheduled)
    /\ Submit("unregister", Sensors)
    /\ service' = None
    /\ broadcasts' = <<>>
    /\ raced' = {}
    /\ UNCHANGED <<settings, app, record, display, listening>>

\* (mutant) The second sensor is not looked at when the first is enabled.
OnDisplayOnDisablesOne ==
    /\ broadcasts # <<>> /\ Head(broadcasts) = "SCREEN_ON"
    /\ broadcasts' = Tail(broadcasts)
    /\ \/ Enabled = {} /\ UNCHANGED jobs
       \/ \E s \in Enabled : Submit("unregister", {s})
    /\ raced' = raced \ Enabled
    /\ UNCHANGED <<settings, app, manager, service, display, listening>>

\* It asks the preferences as they are now.
OnDisplayOn ==
    /\ broadcasts # <<>> /\ Head(broadcasts) = "SCREEN_ON"
    /\ broadcasts' = Tail(broadcasts)
    /\ Submit("unregister", Enabled)
    /\ raced' = raced \ Enabled
    /\ UNCHANGED <<settings, app, manager, service, display, listening>>

OnDisplayOff ==
    /\ broadcasts # <<>> /\ Head(broadcasts) = "SCREEN_OFF"
    /\ broadcasts' = Tail(broadcasts)
    /\ Submit("register", Enabled)
    /\ UNCHANGED <<settings, app, manager, service, display, listening, raced>>

\* The executor of a sensor runs its next job.
RunJob(s, i) ==
    /\ jobs[s][i] # <<>>
    /\ jobs' = [jobs EXCEPT ![s][i] = Tail(@)]
    /\ listening' = IF Head(jobs[s][i]) = "register" THEN listening \cup {<<s, i>>}
                                                     ELSE listening \ {<<s, i>>}
    /\ UNCHANGED <<settings, app, manager, service, display, broadcasts, raced>>

\* The display goes on or off; the receiver is told if there is one.
DisplayChanges ==
    /\ \A s \in Sensors, i \in Instances : Len(jobs[s][i]) + Len(broadcasts) < MaxQueue
    /\ display' = (~ display)
    /\ broadcasts' = IF service = None THEN broadcasts
                     ELSE Append(broadcasts, IF display THEN "SCREEN_OFF" ELSE "SCREEN_ON")
    /\ UNCHANGED <<settings, app, manager, service, listeners, raced>>
-----------------------------------------------------------------------------
Init ==
    /\ doze \in BOOLEAN
    /\ alwaysOn \in BOOLEAN
    /\ gesture \in [Sensors -> BOOLEAN]
    /\ changes = 0
    /\ open = FALSE
    /\ posted = 0
    /\ booting = TRUE
    /\ record = FALSE
    /\ scheduled = <<>>
    /\ service = None
    /\ display = TRUE
    /\ broadcasts = <<>>
    /\ jobs = [s \in Sensors |-> [i \in Instances |-> <<>>]]
    /\ listening = {}
    /\ stale = TRUE
    /\ raced = {}

Next ==
    \/ BootCompleted
    \/ ChangeAlwaysOn
    \/ ChangeDoze
    \/ \E s \in Sensors : ChangeGesture(s)
    \/ HandleCheck
    \/ Shows
    \/ \E i \in Instances : OnCreate(i)
    \/ OnDestroy
    \/ OnDisplayOn
    \/ OnDisplayOff
    \/ \E s \in Sensors, i \in Instances : RunJob(s, i)
    \/ DisplayChanges

Spec == Init /\ [][Next]_vars

\* What was sent to the main thread, or submitted to an executor, is run some time:
\* both take their work in order.
FairSpec ==
    /\ Spec
    /\ WF_vars(BootCompleted)
    /\ WF_vars(HandleCheck)
    /\ WF_vars(\E i \in Instances : OnCreate(i))
    /\ WF_vars(OnDestroy)
    /\ WF_vars(OnDisplayOn)
    /\ WF_vars(OnDisplayOff)
    /\ \A s \in Sensors, i \in Instances : WF_vars(RunJob(s, i))
-----------------------------------------------------------------------------
(* Properties.                                                             *)

\* Every variable has its type.
TypeOK ==
    /\ doze \in BOOLEAN
    /\ alwaysOn \in BOOLEAN
    /\ gesture \in [Sensors -> BOOLEAN]
    /\ changes \in Nat
    /\ open \in BOOLEAN
    /\ posted \in Nat
    /\ booting \in BOOLEAN
    /\ record \in BOOLEAN
    /\ scheduled \in Seq({"create", "destroy"})
    /\ service \in Instances \cup {None}
    /\ display \in BOOLEAN
    /\ broadcasts \in Seq({"SCREEN_ON", "SCREEN_OFF"})
    /\ jobs \in [Sensors -> [Instances -> Seq({"register", "unregister"})]]
    /\ listening \subseteq Sensors \X Instances
    /\ stale \in BOOLEAN
    /\ raced \subseteq Sensors

\* A service that was destroyed listens to nothing, once its executors are done, in
\* whatever order the display, the settings and the threads came (onDestroy).
NothingOutlivesService ==
    \A s \in Sensors, i \in Instances :
        i # service /\ jobs[s][i] = <<>> => <<s, i>> \notin listening

\* With the display on, and all work done, no sensor is listened to.  The exception is
\* a sensor turned off before the service had heard of the display, since
\* onDisplayOn only disables what is enabled by then.
ListensWithDisplayOff ==
    \A s \in Sensors, i \in Instances :
        display /\ broadcasts = <<>> /\ jobs[s][i] = <<>> /\ <<s, i>> \in listening
            => s \in raced

\* When no check waits, the last one has seen the settings as they are: the activity
\* manager was asked for the service exactly if they want it (handler.post).
Checked == posted = 0 /\ ~ stale => (record <=> Wanted(doze, alwaysOn, gesture))

\* Once nobody changes the settings the service exists exactly if they want it, unless
\* the check was lost with the process (checkDozeService, START_STICKY).
ServiceFollowsSettings ==
    <>[](stale \/ (service # None <=> Wanted(doze, alwaysOn, gesture)))
=============================================================================
