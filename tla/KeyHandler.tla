----------------------------- MODULE KeyHandler -----------------------------
(***************************************************************************)
(* The alert slider service (packages/KeyHandler/.../KeyHandler.kt).       *)
(*                                                                         *)
(* The uevent thread turns a slider position into a task, a single thread  *)
(* executor carries the tasks out against the notification and audio       *)
(* services, and the main thread hears of changes of the music stream in   *)
(* broadcasts that arrive when they arrive.  wasMuted belongs to both      *)
(* threads and to no lock.                                                 *)
(***************************************************************************)
EXTENDS Integers, Sequences

CONSTANTS ModeOf,      \* the preferences: the mode of each position
          MuteMedia,   \* the preference config_mute_media
          ShowDialog,  \* the preference config_show_dialog
          Meddlers,    \* who else sets the zen mode or the music stream here
          MaxMoves,    \* bound: slider positions reported over a behaviour
          MaxMeddling  \* bound: changes the others make over a behaviour

Positions == {1, 2, 3}     \* POSITION_TOP, POSITION_MIDDLE, POSITION_BOTTOM

None   == -1               \* the action "none" of the preferences
Silent == 0                \* AudioManager.RINGER_MODE_SILENT
Normal == 2                \* AudioManager.RINGER_MODE_NORMAL
Modes  == -1 .. 5

ASSUME KeyHandlerAssumption ==
    /\ ModeOf \in [Positions -> Modes]
    /\ MuteMedia \in BOOLEAN
    /\ ShowDialog \in BOOLEAN
    /\ Meddlers \subseteq {"zen", "music"}
    /\ MaxMoves \in Nat
    /\ MaxMeddling \in Nat

VARIABLES
    slider,     \* the position last reported (0: none yet)
    tasks,      \* positions whose task waits in executorService
    pc,         \* where the executor's thread stands
    position,   \* the position its task is about
    requested,  \* a zen mode asked for and not committed yet, or NoZen
    zen,        \* NotificationManager.zenMode
    ringer,     \* AudioManager.ringerModeInternal
    muted,      \* the music stream is muted
    wasMuted,   \* wasMuted
    changes,    \* STREAM_MUTE_CHANGED broadcasts on their way
    broadcasts, \* UPDATE_SETTINGS broadcasts on their way: their positions
    moves, meddling, \* the bounds' counters
    muter,      \* history: the stream was muted by the slider and left so
    overtaken,  \* history: an unmute was announced after the slider's mute
    disturbed   \* history: someone else has set the zen mode

system  == <<requested, zen, ringer, muted, changes>>
history == <<muter, overtaken, disturbed>>
counts  == <<moves, meddling>>
vars == <<slider, tasks, pc, position, requested, zen, ringer, muted, wasMuted,
          changes, broadcasts, moves, meddling, muter, overtaken,
          disturbed>>

NoZen == -1

Steps == {"idle", "zen", "wait", "ringer", "media", "remember", "notify"}

mode == IF position = 0 THEN None ELSE ModeOf[position]

\* The zen mode a ringer or zen mode stands for (mode - ZEN_OFFSET).
ZenOf(m) == IF m > Normal THEN m - 2 ELSE 0

RingerOf(m) == IF m > Normal THEN Normal ELSE m
-----------------------------------------------------------------------------
(* The uevent thread.                                                      *)

\* onUEvent and handleMode: the preferences are read and a task is submitted.
SliderMoved ==
    /\ moves < MaxMoves
    /\ \E p \in Positions \ {slider} :
          /\ slider' = p
          /\ tasks' = Append(tasks, p)
    /\ moves' = moves + 1
    /\ UNCHANGED <<pc, position, system, wasMuted, broadcasts, meddling, history>>
-----------------------------------------------------------------------------
(* The executor's thread.                                                  *)

\* The task's mode decides what is set first, the ringer mode or the zen mode.
TakeTask ==
    /\ pc = "idle"
    /\ tasks # <<>>
    /\ position' = Head(tasks)
    /\ tasks' = Tail(tasks)
    /\ pc' = IF ModeOf[position'] = None THEN "notify"
             ELSE IF ModeOf[position'] > Normal THEN "ringer" ELSE "zen"
    /\ UNCHANGED <<slider, system, wasMuted, broadcasts, counts, history>>

\* setZenMode asks for the change ...
SetZenMode ==
    /\ pc = "zen"
    /\ requested' = ZenOf(mode)
    /\ pc' = "wait"
    /\ UNCHANGED <<slider, tasks, position, zen, ringer, muted, changes,
                   wasMuted, broadcasts, counts, muter, overtaken, disturbed>>

\* ... and looks every 10 ms whether the zen mode is the one it asked for.
ZenModeSeen ==
    /\ pc = "wait"
    /\ zen = ZenOf(mode)
    /\ pc' = IF mode > Normal THEN "media" ELSE "ringer"
    /\ UNCHANGED <<slider, tasks, position, system, wasMuted, broadcasts, counts,
                   history>>

SetRingerMode ==
    /\ pc = "ringer"
    /\ ringer' = RingerOf(mode)
    /\ pc' = IF mode > Normal THEN "zen" ELSE "media"
    /\ UNCHANGED <<slider, tasks, position, requested, zen, muted, changes,
                   wasMuted, broadcasts, counts, history>>

\* adjustVolume: the service mutes or unmutes and tells everyone if that is news.
AdjustMute(m) ==
    /\ muted' = m
    /\ changes' = IF m # muted THEN Append(changes, m) ELSE changes

\* (mutant) The stream is unmuted by the zen modes only.
AdjustMediaForZen ==
    /\ pc = "media"
    /\ \/ /\ mode = Silent /\ MuteMedia
          /\ AdjustMute(TRUE)
          /\ muter' = TRUE
          /\ overtaken' = FALSE
          /\ pc' = "remember"
       \/ /\ mode > Normal /\ MuteMedia /\ wasMuted
          /\ AdjustMute(FALSE)
          /\ muter' = FALSE
          /\ pc' = "notify"
          /\ UNCHANGED overtaken
       \/ /\ MuteMedia => mode # Silent /\ (mode <= Normal \/ ~ wasMuted)
          /\ UNCHANGED <<muted, changes, muter, overtaken>>
          /\ pc' = "notify"
    /\ UNCHANGED <<slider, tasks, position, requested, zen, ringer, wasMuted,
                   broadcasts, counts, disturbed>>

AdjustMedia ==
    /\ pc = "media"
    /\ \/ /\ mode = Silent /\ MuteMedia
          /\ AdjustMute(TRUE)
          /\ muter' = TRUE
          /\ overtaken' = FALSE
          /\ pc' = "remember"
       \/ /\ mode # Silent /\ MuteMedia /\ wasMuted
          /\ AdjustMute(FALSE)
          /\ muter' = FALSE
          /\ pc' = "notify"
          /\ UNCHANGED overtaken
       \/ /\ MuteMedia => mode # Silent /\ ~ wasMuted
          /\ UNCHANGED <<muted, changes, muter, overtaken>>
          /\ pc' = "notify"
    /\ UNCHANGED <<slider, tasks, position, requested, zen, ringer, wasMuted,
                   broadcasts, counts, disturbed>>

\* wasMuted = true, after the call that muted.
RememberMuted ==
    /\ pc = "remember"
    /\ wasMuted' = TRUE
    /\ pc' = "notify"
    /\ UNCHANGED <<slider, tasks, position, system, broadcasts, counts, history>>

\* sendNotification and vibrateIfNeeded.
SendNotification ==
    /\ pc = "notify"
    /\ broadcasts' = IF ShowDialog THEN Append(broadcasts, position) ELSE broadcasts
    /\ pc' = "idle"
    /\ UNCHANGED <<slider, tasks, position, system, wasMuted, counts, history>>
-----------------------------------------------------------------------------
(* The main thread and the system's services.                              *)

\* broadcastReceiver: the music stream is not muted any more, or was not when
\* this was sent.
MuteChangeHeard ==
    /\ changes # <<>>
    /\ wasMuted' = (wasMuted /\ Head(changes))
    /\ changes' = Tail(changes)
    /\ overtaken' = (overtaken \/ (~ Head(changes) /\ muted))
    /\ UNCHANGED <<slider, tasks, pc, position, requested, zen, ringer, muted,
                   broadcasts, counts, muter, disturbed>>

\* NotificationManager commits a zen mode some time after it was asked to.
ZenModeCommitted ==
    /\ requested # NoZen
    /\ zen' = requested
    /\ requested' = NoZen
    /\ UNCHANGED <<slider, tasks, pc, position, ringer, muted, changes, wasMuted,
                   broadcasts, counts, muter, overtaken, disturbed>>

\* Someone else turns do not disturb on or off.
ZenModeMeddled ==
    /\ "zen" \in Meddlers
    /\ meddling < MaxMeddling
    /\ meddling' = meddling + 1
    /\ zen' \in (0 .. 3) \ {zen}
    /\ disturbed' = TRUE
    /\ UNCHANGED <<slider, tasks, pc, position, requested, ringer, muted, changes,
                   wasMuted, broadcasts, moves, muter, overtaken>>

\* Someone else mutes or unmutes the music.
MusicMeddled ==
    /\ "music" \in Meddlers
    /\ meddling < MaxMeddling
    /\ meddling' = meddling + 1
    /\ AdjustMute(~ muted)
    /\ muter' = FALSE
    /\ UNCHANGED <<slider, tasks, pc, position, requested, zen, ringer, wasMuted,
                   broadcasts, moves, overtaken, disturbed>>

\* An announcement is delivered.
NotificationHeard ==
    /\ broadcasts # <<>>
    /\ broadcasts' = Tail(broadcasts)
    /\ UNCHANGED <<slider, tasks, pc, position, system, wasMuted, counts, history>>
-----------------------------------------------------------------------------
Init ==
    /\ slider = 0
    /\ tasks = <<>>
    /\ pc = "idle"
    /\ position = 0
    /\ requested = NoZen
    /\ zen = 0
    /\ ringer = Normal
    /\ muted = FALSE
    /\ wasMuted = FALSE
    /\ changes = <<>>
    /\ broadcasts = <<>>
    /\ moves = 0
    /\ meddling = 0
    /\ muter = FALSE
    /\ overtaken = FALSE
    /\ disturbed = FALSE

Executor ==
    \/ TakeTask
    \/ SetZenMode
    \/ ZenModeSeen
    \/ SetRingerMode
    \/ AdjustMedia
    \/ RememberMuted
    \/ SendNotification

Next ==
    \/ SliderMoved
    \/ Executor
    \/ MuteChangeHeard
    \/ ZenModeCommitted
    \/ ZenModeMeddled
    \/ MusicMeddled
    \/ NotificationHeard

Spec == Init /\ [][Next]_vars

\* The executor's thread runs, the notification service commits what it was asked
\* to, broadcasts are delivered.  Nothing is assumed of the user or of others.
FairSpec ==
    /\ Spec
    /\ WF_vars(Executor)
    /\ WF_vars(ZenModeCommitted)
    /\ WF_vars(MuteChangeHeard)
-----------------------------------------------------------------------------
(* Properties.                                                             *)

\* Every variable has its type.
TypeOK ==
    /\ slider \in Positions \cup {0}
    /\ tasks \in Seq(Positions)
    /\ pc \in Steps
    /\ position \in Positions \cup {0}
    /\ requested \in -1 .. 3
    /\ zen \in 0 .. 3
    /\ ringer \in 0 .. 2
    /\ muted \in BOOLEAN
    /\ wasMuted \in BOOLEAN
    /\ changes \in Seq(BOOLEAN)
    /\ broadcasts \in Seq(Positions)
    /\ moves \in 0 .. MaxMoves
    /\ meddling \in 0 .. MaxMeddling
    /\ muter \in BOOLEAN
    /\ overtaken \in BOOLEAN
    /\ disturbed \in BOOLEAN

\* Music that the slider muted plays again when the slider has left the silent
\* position, unless an earlier unmute was announced only after it muted: that broadcast
\* makes the service forget what it muted.
MusicComesBack ==
    LET OutOfSilent == /\ pc = "idle" /\ position # 0
                       /\ mode \notin {None, Silent}
    IN  OutOfSilent /\ ~ overtaken => ~ (muter /\ muted)

\* setZenMode is to "Wait until zen mode change is committed": once it is, the
\* executor goes on.
WaitsUntilCommitted == pc = "wait" /\ requested = NoZen ~> pc # "wait"
=============================================================================
