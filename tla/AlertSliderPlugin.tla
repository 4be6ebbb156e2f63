-------------------------- MODULE AlertSliderPlugin --------------------------
(***************************************************************************)
(* The dialog of the alert slider (packages/KeyHandler: AlertSliderPlugin, *)
(* AlertSliderDialog).  Everything runs on the main looper: the broadcast  *)
(* receiver posts messages, the handler takes them one at a time, a        *)
(* delayed MSG_DIALOG_DISMISS waits for its time, and an animation moves   *)
(* the dialog over several frames.  What can go wrong is the order: a      *)
(* message that is due between two others, and removeMessages, which takes *)
(* messages away wherever they wait.                                       *)
(***************************************************************************)
EXTENDS Naturals, Sequences

CONSTANTS Infos,       \* the positions with their modes that are announced here
          NoInfo,      \* none yet
          MaxChanges,  \* bound: announcements over a behaviour
          MaxConfigs   \* bound: changes of the configuration

ASSUME PluginAssumption ==
    /\ NoInfo \notin Infos
    /\ MaxChanges \in Nat
    /\ MaxConfigs \in Nat

VARIABLES
    registered, \* updateReceiver is registered
    messages,   \* messages due, in the order of their time
    timer,      \* a MSG_DIALOG_DISMISS waits for its time
    showing,    \* showing
    lastInfo,   \* lastInfo
    current,    \* the configuration the handler knows (currDensity and so on)
    dialog,     \* the dialog: what it was made for and what it displays
    stray,      \* dialogs on screen that the handler holds no more
    config,     \* the configuration of the device
    heard,      \* how many of its changes updateReceiver has heard of
    announced,  \* the bound's counter
    owed,       \* history: a change was announced and its time is not over
    lost        \* history: a dismissal took a waiting MSG_DIALOG_SHOW with it

dialogVars == <<registered, messages, timer, showing, lastInfo, current, dialog, stray,
          config, heard, announced, owed, lost>>

Message == [what : {"SHOW", "DISMISS", "RECREATE"}, info : {NoInfo}] \cup
           [what : {"UPDATE"}, info : Infos]

Msg(what) == [what |-> what, info |-> NoInfo]

\* shown: on screen; mode, position: of which announcement; moving: the
\* announcement whose position an animation is on its way to.
Dialog == [config : 0 .. MaxConfigs, shown : BOOLEAN, mode : Infos \cup {NoInfo},
           position : Infos \cup {NoInfo}, moving : Infos \cup {NoInfo}]

AlertSliderDialog(c) ==
    [config |-> c, shown |-> FALSE, mode |-> NoInfo, position |-> NoInfo,
     moving |-> NoInfo]

\* The messages that removeMessages(what) leaves.
Without(ms, whats) ==
    LET kept[k \in 0 .. Len(ms)] ==
            IF k = 0 THEN <<>>
            ELSE IF ms[k].what \in whats THEN kept[k - 1] ELSE Append(kept[k - 1], ms[k])
    IN  kept[Len(ms)]

Waiting(what) == \E k \in 1 .. Len(messages) : messages[k].what = what
-----------------------------------------------------------------------------
(* The dialog.                                                             *)

\* (mutant) A dialog off screen is left as it is.
SetStateShown(d, info) ==
    IF d.shown
       THEN [d EXCEPT !.mode = info,
                      !.position = IF d.moving # NoInfo THEN d.moving ELSE @,
                      !.moving = info]
       ELSE d

\* setState: a dialog on screen shows the mode at once and moves to its position,
\* after the move it was making has been cut short; one off screen is set.
SetState(d, info) ==
    IF d.shown
       THEN [d EXCEPT !.mode = info,
                      !.position = IF d.moving # NoInfo THEN d.moving ELSE @,
                      !.moving = info]
       ELSE [d EXCEPT !.mode = info, !.position = info]

\* onAnimationEnd, 100 ms later.
AnimationEnds ==
    /\ dialog.moving # NoInfo
    /\ dialog' = [dialog EXCEPT !.position = dialog.moving, !.moving = NoInfo]
    /\ UNCHANGED <<registered, messages, timer, showing, lastInfo, current, stray,
                   config, heard, announced, owed, lost>>
-----------------------------------------------------------------------------
(* The receiver.                                                           *)

\* CHANGED_ACTION with a mode.
ChangeReceived(info) ==
    /\ registered
    /\ announced < MaxChanges
    /\ announced' = announced + 1
    /\ messages' = messages \o <<[what |-> "UPDATE", info |-> info], Msg("SHOW")>>
    /\ owed' = TRUE
    /\ lost' = FALSE
    /\ UNCHANGED <<registered, timer, showing, lastInfo, current, dialog, stray,
                   config, heard>>

\* The device is turned, or its density or theme changed ...
ConfigurationChanged ==
    /\ config < MaxConfigs
    /\ config' = config + 1
    /\ UNCHANGED <<registered, messages, timer, showing, lastInfo, current, dialog,
                   stray, heard, announced, owed, lost>>

\* ... and ACTION_CONFIGURATION_CHANGED is received.
ConfigurationHeard ==
    /\ registered
    /\ heard < config
    /\ heard' = heard + 1
    /\ messages' = Append(messages, Msg("RECREATE"))
    /\ UNCHANGED <<registered, timer, showing, lastInfo, current, dialog, stray,
                   config, announced, owed, lost>>

OnDestroy ==
    /\ registered
    /\ registered' = FALSE
    /\ UNCHANGED <<messages, timer, showing, lastInfo, current, dialog, stray,
                   config, heard, announced, owed, lost>>
-----------------------------------------------------------------------------
(* The handler.                                                            *)

Takes(what) == messages # <<>> /\ Head(messages).what = what

\* (mutant) The setter takes the pending messages away last.
HandleShowRemovingLast ==
    /\ Takes("SHOW")
    /\ showing' = TRUE
    /\ \/ /\ ~ showing
          /\ messages' = Without(Tail(messages), {"SHOW", "DISMISS"})
          /\ timer' = FALSE
          /\ dialog' = [dialog EXCEPT !.shown = TRUE]
       \/ /\ showing
          /\ messages' = Tail(messages)
          /\ UNCHANGED <<timer, dialog>>
    /\ UNCHANGED <<registered, lastInfo, current, stray, config, heard, announced, owed,
                   lost>>

\* handleShow: showing = true.  The setter takes every waiting SHOW and DISMISS
\* away, sets the timer and shows the dialog; if the dialog shows already it does
\* nothing.
HandleShow ==
    /\ Takes("SHOW")
    /\ showing' = TRUE
    /\ \/ /\ ~ showing
          /\ messages' = Without(Tail(messages), {"SHOW", "DISMISS"})
          /\ timer' = TRUE
          /\ dialog' = [dialog EXCEPT !.shown = TRUE]
       \/ /\ showing
          /\ messages' = Tail(messages)
          /\ UNCHANGED <<timer, dialog>>
    /\ UNCHANGED <<registered, lastInfo, current, stray, config, heard, announced, owed,
                   lost>>

\* handleDismiss: showing = false.
HandleDismiss ==
    /\ Takes("DISMISS")
    /\ showing' = FALSE
    /\ \/ /\ showing
          /\ messages' = Without(Tail(messages), {"SHOW", "DISMISS"})
          /\ timer' = FALSE
          /\ dialog' = [dialog EXCEPT !.shown = FALSE]
          /\ lost' = (lost \/ Waiting("SHOW"))
       \/ /\ ~ showing
          /\ messages' = Tail(messages)
          /\ UNCHANGED <<timer, dialog, lost>>
    /\ owed' = (owed /\ Waiting("SHOW"))
    /\ UNCHANGED <<registered, lastInfo, current, stray, config, heard, announced>>

\* (mutant) The pending message is taken away after the timeout is set.
HandleUpdateRemovingLast ==
    /\ Takes("UPDATE")
    /\ LET info == Head(messages).info
       IN  /\ lastInfo' = info
           /\ dialog' = SetState(dialog, info)
    /\ messages' = Without(Tail(messages), {"DISMISS"})
    /\ timer' = FALSE
    /\ UNCHANGED <<registered, showing, current, stray, config, heard, announced, owed,
                   lost>>

\* handleUpdate, which starts the timeout anew.
HandleUpdate ==
    /\ Takes("UPDATE")
    /\ LET info == Head(messages).info
       IN  /\ lastInfo' = info
           /\ dialog' = SetState(dialog, info)
    /\ messages' = Without(Tail(messages), {"DISMISS"})
    /\ timer' = TRUE
    /\ UNCHANGED <<registered, showing, current, stray, config, heard, announced, owed,
                   lost>>

\* A dialog made anew, in the state last announced.
Recreated ==
    LET d == AlertSliderDialog(config)
    IN  IF lastInfo = NoInfo THEN d ELSE SetState(d, lastInfo)

\* (mutant) The dialog is replaced before it is dismissed.
HandleRecreateTooEarly ==
    /\ Takes("RECREATE")
    /\ \/ /\ config # current
          /\ current' = config
          /\ stray' = IF dialog.shown THEN stray + 1 ELSE stray
          /\ dialog' = [Recreated EXCEPT !.shown = showing]
          /\ messages' = IF showing THEN Without(Tail(messages), {"SHOW", "DISMISS"})
                                    ELSE Tail(messages)
          /\ timer' = (timer \/ showing)
       \/ /\ config = current
          /\ messages' = Tail(messages)
          /\ UNCHANGED <<timer, current, dialog, stray>>
    /\ UNCHANGED <<registered, showing, lastInfo, config, heard, announced, owed, lost>>

\* (mutant) The new dialog stays off screen.
HandleRecreateHidden ==
    /\ Takes("RECREATE")
    /\ \/ /\ config # current
          /\ current' = config
          /\ dialog' = Recreated
          /\ showing' = FALSE
          /\ messages' = IF showing THEN Without(Tail(messages), {"SHOW", "DISMISS"})
                                    ELSE Tail(messages)
          /\ timer' = (timer /\ ~ showing)
       \/ /\ config = current
          /\ messages' = Tail(messages)
          /\ UNCHANGED <<timer, current, dialog, showing>>
    /\ UNCHANGED <<registered, lastInfo, stray, config, heard, announced, owed, lost>>

\* (mutant) The new dialog is not told what was announced last.
HandleRecreateBlank ==
    /\ Takes("RECREATE")
    /\ \/ /\ config # current
          /\ current' = config
          /\ dialog' = [AlertSliderDialog(config) EXCEPT !.shown = showing]
          /\ messages' = IF showing THEN Without(Tail(messages), {"SHOW", "DISMISS"})
                                    ELSE Tail(messages)
          /\ timer' = (timer \/ showing)
       \/ /\ config = current
          /\ messages' = Tail(messages)
          /\ UNCHANGED <<timer, current, dialog>>
    /\ UNCHANGED <<registered, showing, lastInfo, stray, config, heard, announced, owed,
                   lost>>

\* handleRecreate: if the device has changed since, the dialog is dismissed, made
\* anew and, if it was on screen, shown again with a timeout of its own.
HandleRecreate ==
    /\ Takes("RECREATE")
    /\ \/ /\ config # current
          /\ current' = config
          /\ dialog' = [Recreated EXCEPT !.shown = showing]
          /\ messages' = IF showing THEN Without(Tail(messages), {"SHOW", "DISMISS"})
                                    ELSE Tail(messages)
          /\ timer' = (timer \/ showing)
       \/ /\ config = current
          /\ messages' = Tail(messages)
          /\ UNCHANGED <<timer, current, dialog>>
    /\ UNCHANGED <<registered, showing, lastInfo, stray, config, heard, announced, owed,
                   lost>>

\* DIALOG_TIMEOUT is over: the message takes its place behind those that are due
\* already.  An animation takes 100 ms of the 3000.
TimeoutDue ==
    /\ timer
    /\ dialog.moving = NoInfo
    /\ timer' = FALSE
    /\ messages' = Append(messages, Msg("DISMISS"))
    /\ UNCHANGED <<registered, showing, lastInfo, current, dialog, stray, config, heard,
                   announced, owed, lost>>
-----------------------------------------------------------------------------
DialogInit ==
    /\ registered = TRUE
    /\ messages = <<>>
    /\ timer = FALSE
    /\ showing = FALSE
    /\ lastInfo = NoInfo
    /\ current = 0
    /\ dialog = AlertSliderDialog(0)
    /\ stray = 0
    /\ config = 0
    /\ heard = 0
    /\ announced = 0
    /\ owed = FALSE
    /\ lost = FALSE

Looper ==
    \/ HandleShow
    \/ HandleDismiss
    \/ HandleUpdate
    \/ HandleRecreate
    \/ AnimationEnds

DialogNext ==
    \/ Looper
    \/ TimeoutDue
    \/ \E info \in Infos : ChangeReceived(info)
    \/ ConfigurationChanged
    \/ ConfigurationHeard
    \/ OnDestroy

DialogSpec == DialogInit /\ [][DialogNext]_dialogVars
-----------------------------------------------------------------------------
(* Properties.                                                             *)

\* Every variable has its type.
DialogTypeOK ==
    /\ registered \in BOOLEAN
    /\ messages \in Seq(Message)
    /\ timer \in BOOLEAN
    /\ showing \in BOOLEAN
    /\ lastInfo \in Infos \cup {NoInfo}
    /\ current \in 0 .. MaxConfigs
    /\ dialog \in Dialog
    /\ stray \in Nat
    /\ config \in 0 .. MaxConfigs
    /\ heard \in 0 .. MaxConfigs
    /\ announced \in 0 .. MaxChanges
    /\ owed \in BOOLEAN
    /\ lost \in BOOLEAN

\* showing speaks of the one dialog there is: no window stays behind on screen
\* when the dialog is made anew.
OneDialog == (showing <=> dialog.shown) /\ stray = 0

\* A dialog on screen is always about to be dismissed, whatever messages were
\* taken away meanwhile.
DismissalPending == showing => timer \/ Waiting("DISMISS")

\* At rest a dialog on screen shows the position and the mode announced last, and
\* was made for the configuration the device is in, if its changes were heard of.
ShowsLastChange ==
    showing /\ messages = <<>> /\ dialog.moving = NoInfo =>
        /\ dialog.mode = lastInfo /\ dialog.position = lastInfo
        /\ heard = config => dialog.config = config

\* A change that was announced is on screen until a timeout after it, across any
\* number of recreated dialogs, unless the timeout of the one before was due at
\* the moment it was announced: handleDismiss then takes its MSG_DIALOG_SHOW away.
ChangeIsShown == owed /\ messages = <<>> /\ ~ lost => showing

\* Once the slider and the device are left alone, the dialog goes away.
DialogGoesAway == <>[](~ showing)
=============================================================================
