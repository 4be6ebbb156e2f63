----------------------------- MODULE AlertSlider -----------------------------
(***************************************************************************)
(* The alert slider as a whole: the service (KeyHandler) in its process    *)
(* announces each position it has carried out, and the plugin of the       *)
(* system's user interface (AlertSliderPlugin), in another, shows it.      *)
(* Between them there is nothing but a broadcast.                          *)
(***************************************************************************)
EXTENDS KeyHandler, AlertSliderPlugin

ASSUME SliderAssumption == Infos = Positions /\ NoInfo = 0

sliderVars == <<vars, dialogVars>>

\* The service at work, on its own.
ServiceSteps ==
    /\ Executor \/ SliderMoved \/ MuteChangeHeard
          \/ ZenModeCommitted \/ ZenModeMeddled \/ MusicMeddled
    /\ UNCHANGED dialogVars

\* The receiver in the plugin: a position without a mode is not shown.
ChangeHeard ==
    /\ NotificationHeard
    /\ LET p == Head(broadcasts)
       IN  \/ ModeOf[p] # None /\ ChangeReceived(p)
           \/ ModeOf[p] = None /\ UNCHANGED dialogVars
           \/ ~ registered     /\ UNCHANGED dialogVars

\* The dialog at work, on its own.
DialogSteps ==
    /\ Looper \/ TimeoutDue \/ ConfigurationChanged \/ ConfigurationHeard \/ OnDestroy
    /\ UNCHANGED vars

SliderInit == Init /\ DialogInit

SliderNext == ServiceSteps \/ ChangeHeard \/ DialogSteps

SliderSpec == SliderInit /\ [][SliderNext]_sliderVars

\* On either side what can go on goes on: the executor with what the notification
\* service commits to it, the looper with the broadcasts it is delivered and with time.
\* Nothing is assumed of the user or of others.
FairSliderSpec ==
    /\ SliderSpec
    /\ WF_sliderVars((Executor \/ ZenModeCommitted) /\ UNCHANGED dialogVars)
    /\ WF_sliderVars(ChangeHeard \/ ((Looper \/ TimeoutDue) /\ UNCHANGED vars))
-----------------------------------------------------------------------------
(* Properties of the two together.                                         *)

\* The phone ends up as the slider stands: however fast it was moved, its last
\* position decides the ringer mode and the zen mode, and is what the dialog displays,
\* made anew or not, as long as nobody else sets the zen mode.
SliderDecides ==
    LET HasMode == ModeOf[slider] # None
        Carried == /\ ringer = RingerOf(ModeOf[slider])
                   /\ zen = ZenOf(ModeOf[slider])
        Shown   == dialog.mode = slider /\ dialog.position = slider
    IN  <>[](slider # 0 /\ ~ disturbed /\ HasMode =>
                Carried /\ (ShowDialog /\ registered => Shown))
=============================================================================
