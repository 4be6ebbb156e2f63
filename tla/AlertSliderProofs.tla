------------------------- MODULE AlertSliderProofs -------------------------
(***************************************************************************)
(* The alert slider for every assignment of modes to positions, every      *)
(* length of the executor's queue, of the broadcasts on their way and of   *)
(* the handler's messages, and any number of configurations.               *)
(***************************************************************************)
EXTENDS AlertSlider, SequenceTheorems, WellFoundedInduction, TLAPS

\* What the slider muted is remembered until a late broadcast clears it.
MuteRemembered ==
    muter /\ muted /\ ~ overtaken => wasMuted \/ pc = "remember"

\* Nothing is muted by the slider unless the preference says so.
MutedByPreference == muter => MuteMedia

\* A task at work has a position.
TaskHasPosition == pc # "idle" => position # 0

\* A task past its first choice has a mode, and only the silent one remembers.
StepHasMode ==
    /\ pc \notin {"idle", "notify"} => position # 0 /\ mode # None
    /\ pc = "remember" => mode = Silent

\* A task that is past its adjustVolume has left nothing muted out of silent mode.
UnmutedOnceDone ==
    pc \in {"notify", "idle"} /\ position # 0 /\ mode \notin {None, Silent}
        => ~ (muter /\ muted /\ ~ overtaken)

KInv ==
    /\ TypeOK
    /\ MuteRemembered
    /\ MutedByPreference
    /\ TaskHasPosition
    /\ StepHasMode
    /\ UnmutedOnceDone

-----------------------------------------------------------------------------
(* What the modes stand for.                                               *)

\* A mode of the preferences names a zen mode the service knows.
LEMMA ZenOfType == ASSUME NEW m \in Modes PROVE ZenOf(m) \in 0 .. 3
  BY DEF ZenOf, Modes, Normal

\* A mode other than "none" names a ringer mode.
LEMMA RingerOfType ==
    ASSUME NEW m \in Modes, m # None PROVE RingerOf(m) \in 0 .. 2
  BY DEF RingerOf, Modes, Normal, None

\* The task's mode is a mode of the preferences.
LEMMA ModeType == ASSUME TypeOK PROVE mode \in Modes
  BY KeyHandlerAssumption DEF mode, TypeOK, Modes, None

-----------------------------------------------------------------------------
LEMMA KInvInit == Init => KInv
<1>1. << >> \in Seq(Positions) /\ << >> \in Seq(BOOLEAN)
  BY EmptySeq
<1>2. Init => TypeOK
  <2>1. 0 \in 0 .. MaxMoves /\ 0 \in 0 .. MaxMeddling
    BY KeyHandlerAssumption
  <2>2. ASSUME Init
        PROVE  /\ slider \in Positions \cup {0} /\ position \in Positions \cup {0}
               /\ pc \in Steps
               /\ requested \in -1 .. 3 /\ zen \in 0 .. 3 /\ ringer \in 0 .. 2
    BY <2>2 DEF Init, NoZen, Normal, Steps
  <2>3. ASSUME Init
        PROVE  /\ muted \in BOOLEAN /\ wasMuted \in BOOLEAN
               /\ muter \in BOOLEAN /\ overtaken \in BOOLEAN
               /\ disturbed \in BOOLEAN
    BY <2>3 DEF Init
  <2>4. ASSUME Init
        PROVE  /\ tasks \in Seq(Positions) /\ changes \in Seq(BOOLEAN)
               /\ broadcasts \in Seq(Positions)
               /\ moves \in 0 .. MaxMoves /\ meddling \in 0 .. MaxMeddling
    BY <1>1, <2>1, <2>4 DEF Init
  <2> QED
    BY <2>2, <2>3, <2>4 DEF TypeOK
<1>3. Init => MuteRemembered /\ MutedByPreference /\ TaskHasPosition
                /\ StepHasMode /\ UnmutedOnceDone
  BY DEF Init, MuteRemembered, MutedByPreference, TaskHasPosition, StepHasMode,
         UnmutedOnceDone
<1> QED
  BY <1>2, <1>3 DEF KInv

LEMMA TypeStep == KInv /\ [Next]_vars => TypeOK'
<1> SUFFICES ASSUME KInv, [Next]_vars PROVE TypeOK'
  OBVIOUS
<1> USE KeyHandlerAssumption, ModeType DEF KInv, TypeOK
<1>1. CASE SliderMoved
  <2>1. PICK p \in Positions : slider' = p /\ tasks' = Append(tasks, p)
    BY <1>1 DEF SliderMoved
  <2>2. tasks' \in Seq(Positions)
    BY <2>1, AppendProperties
  <2> QED
    BY <1>1, <2>1, <2>2 DEF SliderMoved, system, history
<1>2. CASE TakeTask
  <2>1. Head(tasks) \in Positions /\ Tail(tasks) \in Seq(Positions)
    BY <1>2, HeadTailProperties DEF TakeTask
  <2> QED
    BY <1>2, <2>1 DEF TakeTask, system, counts, history, Steps
<1>3. CASE SetZenMode
  <2>1. ZenOf(mode) \in 0 .. 3
    BY ZenOfType
  <2>2. requested' \in -1 .. 3
    BY <1>3, <2>1 DEF SetZenMode
  <2> QED
    BY <1>3, <2>2 DEF SetZenMode, counts, Steps
<1>4. CASE ZenModeSeen
  BY <1>4 DEF ZenModeSeen, system, counts, history, Steps
<1>5. CASE SetRingerMode
  BY <1>5, RingerOfType DEF SetRingerMode, StepHasMode, counts, history, Steps
<1>6. CASE AdjustMedia
  <2>1. /\ muted' \in BOOLEAN /\ muter' \in BOOLEAN /\ overtaken' \in BOOLEAN
        /\ pc' \in Steps
    BY <1>6 DEF AdjustMedia, AdjustMute, Steps
  <2>2. changes' \in Seq(BOOLEAN)
    <3>1. \A m \in BOOLEAN : Append(changes, m) \in Seq(BOOLEAN)
      BY AppendProperties
    <3> QED
      BY <1>6, <3>1 DEF AdjustMedia, AdjustMute
  <2> QED
    BY <1>6, <2>1, <2>2 DEF AdjustMedia, counts
<1>7. CASE RememberMuted
  BY <1>7 DEF RememberMuted, system, counts, history, Steps
<1>8. CASE SendNotification
  <2>1. position \in Positions
    BY <1>8 DEF SendNotification, TaskHasPosition
  <2>2. Append(broadcasts, position) \in Seq(Positions)
    BY <2>1, AppendProperties
  <2> QED
    BY <1>8, <2>2 DEF SendNotification, system, counts, history, Steps
<1>9. CASE MuteChangeHeard
  <2>1. Head(changes) \in BOOLEAN /\ Tail(changes) \in Seq(BOOLEAN)
    BY <1>9, HeadTailProperties DEF MuteChangeHeard
  <2> QED
    BY <1>9, <2>1 DEF MuteChangeHeard, counts
<1>10. CASE ZenModeCommitted
  BY <1>10 DEF ZenModeCommitted, NoZen, counts
<1>11. CASE ZenModeMeddled
  BY <1>11 DEF ZenModeMeddled
<1>12. CASE MusicMeddled
  <2>1. muted' \in BOOLEAN
    BY <1>12 DEF MusicMeddled, AdjustMute
  <2>2. changes' \in Seq(BOOLEAN)
    BY <1>12, AppendProperties DEF MusicMeddled, AdjustMute
  <2>3. meddling' \in 0 .. MaxMeddling
    BY <1>12 DEF MusicMeddled
  <2>4. muter' \in BOOLEAN
    BY <1>12 DEF MusicMeddled
  <2> QED
    BY <1>12, <2>1, <2>2, <2>3, <2>4 DEF MusicMeddled
<1>13. CASE NotificationHeard
  <2>1. Tail(broadcasts) \in Seq(Positions)
    BY <1>13, HeadTailProperties DEF NotificationHeard
  <2> QED
    BY <1>13, <2>1 DEF NotificationHeard, system, counts, history
<1>14. CASE UNCHANGED vars
  BY <1>14 DEF vars
<1> QED
  BY <1>1, <1>2, <1>3, <1>4, <1>5, <1>6, <1>7, <1>8, <1>9, <1>10, <1>11, <1>12,
     <1>13, <1>14 DEF Next, Executor

LEMMA KInvStep == KInv /\ [Next]_vars => KInv'
<1> SUFFICES ASSUME KInv, [Next]_vars PROVE KInv'
  OBVIOUS
<1> USE KeyHandlerAssumption
    DEF KInv, MuteRemembered, MutedByPreference, TaskHasPosition, StepHasMode,
        UnmutedOnceDone
<1>0. TypeOK'
  BY TypeStep
<1>1. CASE SliderMoved
  BY <1>0, <1>1 DEF SliderMoved, system, history, mode
<1>2. CASE TakeTask
  <2>1. position' \in Positions
    BY <1>2, HeadTailProperties DEF TakeTask, TypeOK
  <2>2. position' # 0 /\ mode' = ModeOf[position']
    BY <2>1 DEF mode, Positions
  <2> QED
    BY <1>0, <1>2, <2>2 DEF TakeTask, system, history
<1>3. CASE SetZenMode
  BY <1>0, <1>3 DEF SetZenMode, mode
<1>4. CASE ZenModeSeen
  BY <1>0, <1>4 DEF ZenModeSeen, system, history, mode
<1>5. CASE SetRingerMode
  BY <1>0, <1>5 DEF SetRingerMode, history, mode
<1>6. CASE AdjustMedia
  <2>1. mode' = mode
    BY <1>6 DEF AdjustMedia, mode
  <2>2. CASE mode = Silent /\ MuteMedia
    BY <1>0, <1>6, <2>1, <2>2 DEF AdjustMedia, AdjustMute, Silent, None
  <2>3. CASE mode # Silent /\ MuteMedia /\ wasMuted
    BY <1>0, <1>6, <2>1, <2>3 DEF AdjustMedia, AdjustMute, Silent, None
  <2>4. CASE UNCHANGED <<muted, changes, muter, overtaken>>
             /\ pc' = "notify" /\ (MuteMedia => mode # Silent /\ ~ wasMuted)
    <3>1. ~ (muter /\ muted /\ ~ overtaken)
      BY <1>6, <2>4 DEF AdjustMedia
    <3>2. ~ (muter' /\ muted' /\ ~ overtaken') /\ (muter' => MuteMedia)
      BY <2>4, <3>1
    <3>3. TaskHasPosition'
      BY <1>6 DEF AdjustMedia
    <3> QED
      BY <1>0, <2>4, <3>2, <3>3
  <2> QED
    BY <1>6, <2>2, <2>3, <2>4 DEF AdjustMedia
<1>7. CASE RememberMuted
  BY <1>0, <1>7 DEF RememberMuted, system, history, mode
<1>8. CASE SendNotification
  BY <1>0, <1>8 DEF SendNotification, system, history, mode
<1>9. CASE MuteChangeHeard
  <2>1. Head(changes) \in BOOLEAN
    BY <1>9, HeadTailProperties DEF MuteChangeHeard, TypeOK
  <2> QED
    BY <1>0, <1>9, <2>1 DEF MuteChangeHeard, mode
<1>10. CASE ZenModeCommitted
  BY <1>0, <1>10 DEF ZenModeCommitted, mode
<1>11. CASE ZenModeMeddled
  BY <1>0, <1>11 DEF ZenModeMeddled, mode
<1>12. CASE MusicMeddled
  BY <1>0, <1>12 DEF MusicMeddled, mode
<1>13. CASE NotificationHeard
  BY <1>0, <1>13 DEF NotificationHeard, system, history, mode
<1>14. CASE UNCHANGED vars
  BY <1>0, <1>14 DEF vars, mode
<1> QED
  BY <1>1, <1>2, <1>3, <1>4, <1>5, <1>6, <1>7, <1>8, <1>9, <1>10, <1>11, <1>12,
     <1>13, <1>14 DEF Next, Executor

-----------------------------------------------------------------------------
(* Either half of the slider behaves as it does alone.                     *)

LEMMA ServiceStep == [SliderNext]_sliderVars => [Next]_vars
<1>1. ServiceSteps => Next
  BY DEF ServiceSteps, Next
<1>2. ChangeHeard => Next
  BY DEF ChangeHeard, Next
<1>3. DialogSteps \/ UNCHANGED sliderVars => UNCHANGED vars
  BY DEF DialogSteps, sliderVars
<1> QED
  BY <1>1, <1>2, <1>3 DEF SliderNext

LEMMA DialogStep == [SliderNext]_sliderVars /\ TypeOK => [DialogNext]_dialogVars
<1> SUFFICES ASSUME [SliderNext]_sliderVars, TypeOK PROVE [DialogNext]_dialogVars
  OBVIOUS
<1>1. CASE ServiceSteps \/ UNCHANGED sliderVars
  BY <1>1 DEF ServiceSteps, sliderVars
<1>2. CASE ChangeHeard
  <2>1. Head(broadcasts) \in Infos
    BY <1>2, HeadTailProperties, SliderAssumption
       DEF ChangeHeard, NotificationHeard, TypeOK
  <2> QED
    BY <1>2, <2>1 DEF ChangeHeard, DialogNext
<1>3. CASE DialogSteps
  BY <1>3 DEF DialogSteps, DialogNext
<1> QED
  BY <1>1, <1>2, <1>3 DEF SliderNext

-----------------------------------------------------------------------------
(* What removeMessages leaves.                                             *)

\* A set of numbers has a least one, which makes induction over a set of them possible.
LEMMA Least ==
    ASSUME NEW T, T \subseteq Nat, T # {}
    PROVE  \E n \in T : \A m \in T : ~ (m < n)
<1> DEFINE R == OpToRel(<, Nat)
<1>1. \E n \in T : \A m \in T : ~ (<<m, n>> \in R)
  <2> HIDE DEF R
  <2>1. IsWellFoundedOn(R, Nat)
    BY NatLessThanWellFounded DEF R
  <2> QED BY <2>1, WFMin
<1>2. \A m, n \in Nat : m < n => <<m, n>> \in R
  BY DEF OpToRel
<1> QED BY <1>1, <1>2

\* A set that has 0 and with each number the next has them all.
LEMMA Induct ==
    ASSUME NEW S, 0 \in S, \A n \in Nat : n \in S => n + 1 \in S
    PROVE  Nat \subseteq S
<1> DEFINE T == Nat \ S
<1> SUFFICES ASSUME T # {} PROVE FALSE
  OBVIOUS
<1>1. PICK n \in T : \A m \in T : ~ (m < n)
  BY Least
<1>2. n # 0 /\ n \in Nat
  OBVIOUS
<1>3. n - 1 \in Nat /\ n - 1 < n /\ (n - 1) + 1 = n
  BY <1>2
<1>4. n - 1 \in S
  BY <1>1, <1>3
<1> QED BY <1>3, <1>4

\* What removeMessages has kept of the messages up to each of them.
Keeps(g, ms, whats, n) ==
    g = [k \in 0 .. n |->
            IF k = 0 THEN <<>>
            ELSE IF ms[k].what \in whats THEN g[k - 1] ELSE Append(g[k - 1], ms[k])]

\* There is such a function for every prefix.
LEMMA KeepsExists ==
    ASSUME NEW ms, NEW whats, NEW n \in Nat
    PROVE  \E g : Keeps(g, ms, whats, n)
<1> DEFINE S == {i \in Nat : \E g : Keeps(g, ms, whats, i)}
<1>1. 0 \in S
  <2>1. Keeps([k \in 0 .. 0 |-> <<>>], ms, whats, 0)
    BY DEF Keeps
  <2> QED BY <2>1
<1>2. ASSUME NEW i \in Nat, i \in S PROVE i + 1 \in S
  <2>1. PICK g : Keeps(g, ms, whats, i)
    BY <1>2
  <2> DEFINE next == IF ms[i + 1].what \in whats THEN g[i] ELSE Append(g[i], ms[i + 1])
             h == [k \in 0 .. (i + 1) |-> IF k = i + 1 THEN next ELSE g[k]]
  <2>2. \A k \in 0 .. i : h[k] = g[k]
    BY <1>2
  <2>3. h[i + 1] = next
    BY <1>2
  <2>4. \A k \in 0 .. i : g[k] = IF k = 0 THEN <<>>
            ELSE IF ms[k].what \in whats THEN g[k - 1] ELSE Append(g[k - 1], ms[k])
    BY <2>1 DEF Keeps
  <2>5. \A k \in 0 .. (i + 1) : h[k] = IF k = 0 THEN <<>>
            ELSE IF ms[k].what \in whats THEN h[k - 1] ELSE Append(h[k - 1], ms[k])
    <3> HIDE DEF h
    <3> SUFFICES ASSUME NEW k \in 0 .. (i + 1)
                 PROVE h[k] = IF k = 0 THEN <<>>
            ELSE IF ms[k].what \in whats THEN h[k - 1] ELSE Append(h[k - 1], ms[k])
      OBVIOUS
    <3>1. CASE k = 0
      BY <2>2, <2>4, <3>1
    <3>2. CASE k # 0 /\ k # i + 1
      <4>1. k \in 0 .. i /\ k - 1 \in 0 .. i
        BY <3>2
      <4> QED BY <2>2, <2>4, <3>2, <4>1
    <3>3. CASE k = i + 1
      <4>1. k - 1 = i /\ i \in 0 .. i /\ k # 0
        BY <3>3
      <4> QED BY <2>2, <2>3, <3>3, <4>1
    <3> QED BY <3>1, <3>2, <3>3
  <2>6. Keeps(h, ms, whats, i + 1)
    BY <2>5 DEF Keeps
  <2> QED BY <1>2, <2>6
<1> HIDE DEF S
<1>3. n \in S
  BY <1>1, <1>2, Induct
<1> QED BY <1>3 DEF S

\* removeMessages leaves what it has kept of all messages.
LEMMA WithoutIsKept ==
    ASSUME NEW ms \in Seq(Message), NEW whats
    PROVE  \E g : Keeps(g, ms, whats, Len(ms)) /\ Without(ms, whats) = g[Len(ms)]
<1> DEFINE kept == CHOOSE g : Keeps(g, ms, whats, Len(ms))
<1>1. Len(ms) \in Nat
  OBVIOUS
<1>2. Keeps(kept, ms, whats, Len(ms))
  BY <1>1, KeepsExists
<1>3. Without(ms, whats) = kept[Len(ms)]
  BY DEF Without, Keeps
<1> QED BY <1>2, <1>3

\* The messages of a queue, whatever their order.
Those(ms) == {ms[k] : k \in 1 .. Len(ms)}

\* A message sent is one more ...
LEMMA ThoseOfAppend ==
    ASSUME NEW ms \in Seq(Message), NEW m \in Message
    PROVE  Append(ms, m) \in Seq(Message) /\ Those(Append(ms, m)) = Those(ms) \cup {m}
<1>1. /\ Append(ms, m) \in Seq(Message) /\ Len(Append(ms, m)) = Len(ms) + 1
      /\ \A k \in 1 .. Len(ms) : Append(ms, m)[k] = ms[k]
      /\ Append(ms, m)[Len(ms) + 1] = m
  BY AppendProperties
<1>2. 1 .. (Len(ms) + 1) = (1 .. Len(ms)) \cup {Len(ms) + 1}
  BY LenProperties
<1> QED BY <1>1, <1>2 DEF Those

\* ... and one taken is one less.
LEMMA ThoseOfTail ==
    ASSUME NEW ms \in Seq(Message), ms # <<>>
    PROVE  /\ Head(ms) \in Message /\ Tail(ms) \in Seq(Message)
           /\ Those(ms) = Those(Tail(ms)) \cup {Head(ms)}
<1>1. /\ Head(ms) = ms[1] /\ Head(ms) \in Message /\ Tail(ms) \in Seq(Message)
      /\ Len(ms) \in Nat \ {0} /\ Len(Tail(ms)) = Len(ms) - 1
      /\ \A k \in 1 .. Len(Tail(ms)) : Tail(ms)[k] = ms[k + 1]
  BY HeadTailProperties, LenProperties, EmptySeq
<1>2. \A k \in 1 .. Len(ms) : k = 1 \/ (k - 1 \in 1 .. Len(Tail(ms)) /\ (k - 1) + 1 = k)
  BY <1>1
<1>3. \A k \in 1 .. Len(Tail(ms)) : k + 1 \in 1 .. Len(ms)
  BY <1>1
<1>4. 1 \in 1 .. Len(ms)
  BY <1>1
<1>5. Those(Tail(ms)) \cup {Head(ms)} \subseteq Those(ms)
  BY <1>1, <1>3, <1>4 DEF Those
<1>6. ASSUME NEW k \in 1 .. Len(ms) PROVE ms[k] \in Those(Tail(ms)) \cup {Head(ms)}
  <2>1. CASE k = 1
    BY <1>1, <2>1
  <2>2. CASE k # 1
    <3>1. k - 1 \in 1 .. Len(Tail(ms)) /\ (k - 1) + 1 = k
      BY <1>2, <2>2
    <3>2. Tail(ms)[k - 1] = ms[k]
      BY <1>1, <3>1
    <3> QED BY <3>1, <3>2 DEF Those
  <2> QED BY <2>1, <2>2
<1> QED BY <1>1, <1>5, <1>6 DEF Those

\* removeMessages takes away the messages of its kinds, all of them and no other.
LEMMA WithoutProperties ==
    ASSUME NEW ms \in Seq(Message), NEW whats
    PROVE  /\ Without(ms, whats) \in Seq(Message)
           /\ Those(Without(ms, whats)) = {m \in Those(ms) : m.what \notin whats}
<1>1. PICK g : Keeps(g, ms, whats, Len(ms)) /\ Without(ms, whats) = g[Len(ms)]
  BY WithoutIsKept
<1> DEFINE n == Len(ms)
           Upto(i) == {ms[k] : k \in 1 .. i}
           Good(i) == /\ g[i] \in Seq(Message)
                      /\ Those(g[i]) = {m \in Upto(i) : m.what \notin whats}
           S == {i \in Nat : i <= n => Good(i)}
<1>2. n \in Nat /\ \A k \in 1 .. n : ms[k] \in Message
  BY LenProperties, ElementOfSeq
<1>3. \A k \in 0 .. n : g[k] = IF k = 0 THEN <<>>
            ELSE IF ms[k].what \in whats THEN g[k - 1] ELSE Append(g[k - 1], ms[k])
  BY <1>1 DEF Keeps
<1> HIDE DEF n
<1>4. 0 \in S
  <2>1. g[0] = <<>>
    BY <1>2, <1>3
  <2>2. <<>> \in Seq(Message) /\ Those(<<>>) = {}
    BY EmptySeq DEF Those
  <2>3. Upto(0) = {}
    OBVIOUS
  <2>4. Good(0)
    <3> HIDE DEF Upto
    <3> QED BY <2>1, <2>2, <2>3
  <2> QED BY <2>4
<1>5. ASSUME NEW i \in Nat, i \in S PROVE i + 1 \in S
  <2> SUFFICES ASSUME i + 1 <= n PROVE Good(i + 1)
    OBVIOUS
  <2>1. i <= n /\ i + 1 \in 1 .. n /\ i + 1 \in 0 .. n /\ i + 1 # 0 /\ (i + 1) - 1 = i
    BY <1>2
  <2>2. Good(i)
    BY <1>5, <2>1
  <2> DEFINE m == ms[i + 1]
  <2>3. m \in Message
    BY <1>2, <2>1
  <2>4. Upto(i + 1) = Upto(i) \cup {m}
    <3>1. 1 .. (i + 1) = (1 .. i) \cup {i + 1}
      OBVIOUS
    <3> QED BY <3>1
  <2>5. g[i + 1] = IF m.what \in whats THEN g[i] ELSE Append(g[i], m)
    BY <1>3, <2>1
  <2> HIDE DEF m, Upto
  <2>6. CASE m.what \in whats
    BY <2>2, <2>4, <2>5, <2>6
  <2>7. CASE m.what \notin whats
    <3>1. /\ Append(g[i], m) \in Seq(Message)
          /\ Those(Append(g[i], m)) = Those(g[i]) \cup {m}
      BY <2>2, <2>3, ThoseOfAppend
    <3> QED BY <2>2, <2>4, <2>5, <2>7, <3>1
  <2> QED BY <2>6, <2>7
<1>6. n \in S
  <2> HIDE DEF S
  <2> QED BY <1>2, <1>4, <1>5, Induct
<1> QED BY <1>1, <1>2, <1>6 DEF n, Those

-----------------------------------------------------------------------------
(* The dialog: what is displayed, what is on its way, and the timeout.     *)

\* A change that was announced is on screen or will be, if its message is not lost.
ChangePending == owed /\ ~ lost => showing \/ Waiting("SHOW")

\* The dialog is of the configuration the handler knows, which is the device's once
\* all its changes were heard of and taken.
MadeForCurrent ==
    /\ dialog.config = current
    /\ heard <= config
    /\ heard = config => current = config \/ Waiting("RECREATE")

\* The dialog displays what was taken last, or moves there.
DisplaysLast ==
    /\ dialog.mode = lastInfo
    /\ dialog.moving = NoInfo => dialog.position = lastInfo
    /\ dialog.moving # NoInfo => dialog.moving = lastInfo

\* It moves on screen only, and is not dismissed meanwhile.
MovesOnScreen == dialog.moving # NoInfo => dialog.shown /\ ~ Waiting("DISMISS")

DInv ==
    /\ DialogTypeOK
    /\ OneDialog
    /\ DismissalPending
    /\ ChangePending
    /\ MadeForCurrent
    /\ DisplaysLast
    /\ MovesOnScreen

\* What waits after a message was taken, ...
LEMMA AfterTail ==
    ASSUME messages \in Seq(Message), NEW took, Takes(took), messages' = Tail(messages)
    PROVE  /\ messages' \in Seq(Message) /\ Waiting(took)
           /\ \A what : /\ Waiting(what)' => Waiting(what)
                        /\ what # took /\ Waiting(what) => Waiting(what)'
<1>1. messages' \in Seq(Message) /\ Those(messages) = Those(messages') \cup {Head(messages)}
  BY ThoseOfTail DEF Takes
<1>2. \A what : /\ Waiting(what) <=> \E m \in Those(messages) : m.what = what
                /\ Waiting(what)' <=> \E m \in Those(messages') : m.what = what
  BY DEF Waiting, Those
<1> QED BY <1>1, <1>2 DEF Takes

\* ... after removeMessages as well, ...
LEMMA AfterRemoval ==
    ASSUME messages \in Seq(Message), NEW took, NEW whats, Takes(took),
           messages' = Without(Tail(messages), whats)
    PROVE  /\ messages' \in Seq(Message) /\ Waiting(took)
           /\ \A what : /\ Waiting(what)' => Waiting(what) /\ what \notin whats
                        /\ what # took /\ what \notin whats /\ Waiting(what) => Waiting(what)'
<1>1. /\ Tail(messages) \in Seq(Message)
      /\ Those(messages) = Those(Tail(messages)) \cup {Head(messages)}
  BY ThoseOfTail DEF Takes
<1>2. /\ messages' \in Seq(Message)
      /\ Those(messages') = {m \in Those(Tail(messages)) : m.what \notin whats}
  BY <1>1, WithoutProperties
<1>3. \A what : /\ Waiting(what) <=> \E m \in Those(messages) : m.what = what
                /\ Waiting(what)' <=> \E m \in Those(messages') : m.what = what
  BY DEF Waiting, Those
<1> QED BY <1>1, <1>2, <1>3 DEF Takes

\* ... and after one was sent.
LEMMA AfterAppend ==
    ASSUME messages \in Seq(Message), NEW m \in Message, messages' = Append(messages, m)
    PROVE  /\ messages' \in Seq(Message) /\ messages' # <<>>
           /\ \A what : Waiting(what)' <=> Waiting(what) \/ m.what = what
<1>1. messages' \in Seq(Message) /\ Those(messages') = Those(messages) \cup {m}
  BY ThoseOfAppend
<1>2. \A what : /\ Waiting(what) <=> \E l \in Those(messages) : l.what = what
                /\ Waiting(what)' <=> \E l \in Those(messages') : l.what = what
  BY DEF Waiting, Those
<1>3. messages' # <<>>
  BY AppendProperties
<1> QED BY <1>1, <1>2, <1>3

\* A message of one of the three kinds without a position is a message.
LEMMA MsgType ==
    /\ \A what \in {"SHOW", "DISMISS", "RECREATE"} : Msg(what) \in Message /\ Msg(what).what = what
    /\ \A info \in Infos : [what |-> "UPDATE", info |-> info] \in Message
BY DEF Msg, Message

\* A position that is announced is a position.
LEMMA UpdateInfo ==
    ASSUME messages \in Seq(Message), Takes("UPDATE")
    PROVE  Head(messages).info \in Infos
<1>1. Head(messages) \in Message /\ Head(messages).what = "UPDATE"
  BY ThoseOfTail DEF Takes
<1> QED BY <1>1 DEF Message

\* A new state is displayed or moved to; on screen or off it, the dialog stays there.
LEMMA SetStateProperties ==
    ASSUME NEW d \in Dialog, NEW info \in Infos
    PROVE  /\ SetState(d, info) \in Dialog
           /\ SetState(d, info).shown = d.shown
           /\ SetState(d, info).config = d.config
           /\ SetState(d, info).mode = info
           /\ d.shown => SetState(d, info).moving = info
           /\ ~ d.shown => /\ SetState(d, info).moving = d.moving
                           /\ SetState(d, info).position = info
<1>1. CASE d.shown
  <2> DEFINE place == IF d.moving # NoInfo THEN d.moving ELSE d.position
  <2>1. place \in Infos \cup {NoInfo}
    BY DEF Dialog
  <2>2. SetState(d, info) =
            [d EXCEPT !.mode = info, !.position = place, !.moving = info]
    BY <1>1 DEF SetState, Dialog
  <2> HIDE DEF place
  <2> QED BY <1>1, <2>1, <2>2 DEF Dialog
<1>2. CASE ~ d.shown
  BY <1>2 DEF SetState, Dialog
<1> QED BY <1>1, <1>2

\* A dialog made anew is off screen and displays what was taken last.
LEMMA RecreatedProperties ==
    ASSUME config \in 0 .. MaxConfigs, lastInfo \in Infos \cup {NoInfo}
    PROVE  /\ Recreated \in Dialog
           /\ Recreated.config = config
           /\ Recreated.mode = lastInfo
           /\ Recreated.position = lastInfo
           /\ Recreated.moving = NoInfo
<1> DEFINE d == AlertSliderDialog(config)
<1>1. /\ d \in Dialog /\ d.config = config /\ d.shown = FALSE
      /\ d.mode = NoInfo /\ d.position = NoInfo /\ d.moving = NoInfo
  BY DEF AlertSliderDialog, Dialog
<1>2. Recreated = IF lastInfo = NoInfo THEN d ELSE SetState(d, lastInfo)
  BY DEF Recreated
<1> HIDE DEF d
<1>3. CASE lastInfo = NoInfo
  BY <1>1, <1>2, <1>3
<1>4. CASE lastInfo # NoInfo
  BY <1>1, <1>2, <1>4, SetStateProperties
<1> QED BY <1>3, <1>4

\* There is nothing to display in the beginning.
LEMMA DInvInit == DialogInit => DInv
<1> SUFFICES ASSUME DialogInit PROVE DInv
  OBVIOUS
<1>1. 0 \in 0 .. MaxConfigs /\ 0 \in 0 .. MaxChanges
  BY PluginAssumption
<1>2. /\ dialog \in Dialog /\ dialog.config = 0 /\ dialog.shown = FALSE
      /\ dialog.mode = NoInfo /\ dialog.position = NoInfo /\ dialog.moving = NoInfo
  BY <1>1 DEF DialogInit, AlertSliderDialog, Dialog
<1>3. messages \in Seq(Message)
  BY EmptySeq DEF DialogInit
<1>4. DialogTypeOK
  BY <1>1, <1>2, <1>3 DEF DialogInit, DialogTypeOK
<1> QED BY <1>1, <1>2, <1>4 DEF DialogInit, DInv, OneDialog, DismissalPending, ChangePending,
           MadeForCurrent, DisplaysLast, MovesOnScreen

\* Every step of the handler, the receiver, the timeout and the animation keeps it.
LEMMA DInvStep == DInv /\ [DialogNext]_dialogVars => DInv'
<1> SUFFICES ASSUME DInv, [DialogNext]_dialogVars PROVE DInv'
  OBVIOUS
<1> USE PluginAssumption
<1>0. /\ DialogTypeOK /\ OneDialog /\ DismissalPending /\ ChangePending
      /\ MadeForCurrent /\ DisplaysLast /\ MovesOnScreen
  BY DEF DInv
<1>m. messages \in Seq(Message) /\ dialog \in Dialog /\ showing \in BOOLEAN
  BY <1>0 DEF DialogTypeOK
<1> USE DEF OneDialog, DismissalPending, ChangePending, MadeForCurrent, DisplaysLast,
        MovesOnScreen
<1>1. CASE HandleShow
  <2>1. CASE showing
    <3>1. messages' = Tail(messages) /\ Takes("SHOW")
          /\ UNCHANGED <<registered, timer, showing, lastInfo, current, dialog, stray, config,
                         heard, announced, owed, lost>>
      BY <1>1, <1>m, <2>1 DEF HandleShow
    <3>2. /\ messages' \in Seq(Message)
          /\ \A what : /\ Waiting(what)' => Waiting(what)
                       /\ what # "SHOW" /\ Waiting(what) => Waiting(what)'
      BY <1>m, <3>1, AfterTail
    <3> QED BY <1>0, <2>1, <3>1, <3>2 DEF DialogTypeOK, DInv
  <2>2. CASE ~ showing
    <3>1. /\ messages' = Without(Tail(messages), {"SHOW", "DISMISS"}) /\ Takes("SHOW")
          /\ timer' = TRUE /\ showing' = TRUE /\ dialog' = [dialog EXCEPT !.shown = TRUE]
          /\ UNCHANGED <<registered, lastInfo, current, stray, config, heard, announced,
                         owed, lost>>
      BY <1>1, <2>2 DEF HandleShow
    <3>2. /\ messages' \in Seq(Message)
          /\ \A what : /\ Waiting(what)' => Waiting(what) /\ what \notin {"SHOW", "DISMISS"}
                       /\ what # "SHOW" /\ what \notin {"SHOW", "DISMISS"} /\ Waiting(what)
                              => Waiting(what)'
      BY <1>m, <3>1, AfterRemoval
    <3>3. /\ dialog' \in Dialog /\ dialog'.shown = TRUE /\ dialog'.config = dialog.config
          /\ dialog'.mode = dialog.mode /\ dialog'.position = dialog.position
          /\ dialog'.moving = dialog.moving
      BY <1>m, <3>1 DEF Dialog
    <3> QED BY <1>0, <3>1, <3>2, <3>3 DEF DialogTypeOK, DInv
  <2> QED BY <2>1, <2>2
<1>2. CASE HandleDismiss
  <2>0. Takes("DISMISS") /\ showing' = FALSE /\ owed' = (owed /\ Waiting("SHOW"))
        /\ UNCHANGED <<registered, lastInfo, current, stray, config, heard, announced>>
    BY <1>2 DEF HandleDismiss
  <2>1. CASE ~ showing
    <3>1. messages' = Tail(messages) /\ UNCHANGED <<timer, dialog, lost>>
      BY <1>2, <2>1 DEF HandleDismiss
    <3>2. /\ messages' \in Seq(Message)
          /\ \A what : /\ Waiting(what)' => Waiting(what)
                       /\ what # "DISMISS" /\ Waiting(what) => Waiting(what)'
      BY <1>m, <2>0, <3>1, AfterTail
    <3> QED BY <1>0, <2>0, <2>1, <3>1, <3>2 DEF DialogTypeOK, DInv
  <2>2. CASE showing
    <3>1. /\ messages' = Without(Tail(messages), {"SHOW", "DISMISS"})
          /\ timer' = FALSE /\ dialog' = [dialog EXCEPT !.shown = FALSE]
          /\ lost' = (lost \/ Waiting("SHOW"))
      BY <1>2, <2>2 DEF HandleDismiss
    <3>2. /\ messages' \in Seq(Message) /\ Waiting("DISMISS")
          /\ \A what : /\ Waiting(what)' => Waiting(what) /\ what \notin {"SHOW", "DISMISS"}
                       /\ what # "DISMISS" /\ what \notin {"SHOW", "DISMISS"} /\ Waiting(what)
                              => Waiting(what)'
      BY <1>m, <2>0, <3>1, AfterRemoval
    <3>3. /\ dialog' \in Dialog /\ dialog'.shown = FALSE /\ dialog'.config = dialog.config
          /\ dialog'.mode = dialog.mode /\ dialog'.position = dialog.position
          /\ dialog'.moving = dialog.moving
      BY <1>m, <3>1 DEF Dialog
    <3> QED BY <1>0, <2>0, <3>1, <3>2, <3>3 DEF DialogTypeOK, DInv
  <2> QED BY <1>m, <2>1, <2>2
<1>3. CASE HandleUpdate
  <2> DEFINE info == Head(messages).info
  <2>1. /\ Takes("UPDATE") /\ lastInfo' = info /\ dialog' = SetState(dialog, info)
        /\ messages' = Without(Tail(messages), {"DISMISS"}) /\ timer' = TRUE
        /\ UNCHANGED <<registered, showing, current, stray, config, heard, announced, owed,
                       lost>>
    BY <1>3 DEF HandleUpdate
  <2>2. info \in Infos
    BY <1>m, <2>1, UpdateInfo
  <2>3. /\ messages' \in Seq(Message)
        /\ \A what : /\ Waiting(what)' => Waiting(what) /\ what \notin {"DISMISS"}
                     /\ what # "UPDATE" /\ what \notin {"DISMISS"} /\ Waiting(what)
                            => Waiting(what)'
    BY <1>m, <2>1, AfterRemoval
  <2> HIDE DEF info
  <2>4. /\ dialog' \in Dialog /\ dialog'.shown = dialog.shown
        /\ dialog'.config = dialog.config /\ dialog'.mode = info
        /\ dialog.shown => dialog'.moving = info
        /\ ~ dialog.shown => dialog'.moving = dialog.moving /\ dialog'.position = info
    BY <1>m, <2>1, <2>2, SetStateProperties
  <2> QED BY <1>0, <2>1, <2>2, <2>3, <2>4 DEF DialogTypeOK, DInv
<1>4. CASE HandleRecreate
  <2>0. Takes("RECREATE")
        /\ UNCHANGED <<registered, showing, lastInfo, stray, config, heard, announced, owed,
                       lost>>
    BY <1>4 DEF HandleRecreate
  <2>1. CASE config = current
    <3>1. messages' = Tail(messages) /\ UNCHANGED <<timer, current, dialog>>
      BY <1>4, <2>1 DEF HandleRecreate
    <3>2. /\ messages' \in Seq(Message)
          /\ \A what : /\ Waiting(what)' => Waiting(what)
                       /\ what # "RECREATE" /\ Waiting(what) => Waiting(what)'
      BY <1>m, <2>0, <3>1, AfterTail
    <3> QED BY <1>0, <2>0, <2>1, <3>1, <3>2 DEF DialogTypeOK, DInv
  <2>2. CASE config # current
    <3>1. /\ current' = config /\ dialog' = [Recreated EXCEPT !.shown = showing]
          /\ timer' = (timer \/ showing)
          /\ messages' = IF showing THEN Without(Tail(messages), {"SHOW", "DISMISS"})
                                    ELSE Tail(messages)
      BY <1>4, <2>2 DEF HandleRecreate
    <3>2. /\ messages' \in Seq(Message)
          /\ ~ showing /\ Waiting("SHOW") => Waiting("SHOW")'
      <4>1. CASE showing
        BY <1>m, <2>0, <3>1, <4>1, AfterRemoval
      <4>2. CASE ~ showing
        BY <1>m, <2>0, <3>1, <4>2, AfterTail
      <4> QED BY <1>m, <4>1, <4>2
    <3>3. config \in 0 .. MaxConfigs /\ lastInfo \in Infos \cup {NoInfo}
      BY <1>0 DEF DialogTypeOK
    <3>4. /\ dialog' \in Dialog /\ dialog'.shown = showing /\ dialog'.config = config
          /\ dialog'.mode = lastInfo /\ dialog'.position = lastInfo
          /\ dialog'.moving = NoInfo
      BY <1>m, <3>1, <3>3, RecreatedProperties DEF Dialog
    <3>5. timer' \in BOOLEAN /\ (showing => timer')
      BY <1>0, <1>m, <3>1 DEF DialogTypeOK
    <3> HIDE DEF DismissalPending
    <3>6. DismissalPending'
      BY <2>0, <3>5 DEF DismissalPending
    <3> QED BY <1>0, <2>0, <3>1, <3>2, <3>3, <3>4, <3>5, <3>6 DEF DialogTypeOK, DInv
  <2> QED BY <2>1, <2>2
<1>5. CASE AnimationEnds
  <2>1. /\ dialog.moving # NoInfo
        /\ dialog' = [dialog EXCEPT !.position = dialog.moving, !.moving = NoInfo]
        /\ UNCHANGED <<registered, messages, timer, showing, lastInfo, current, stray,
                   config, heard, announced, owed, lost>>
    BY <1>5 DEF AnimationEnds
  <2>2. /\ dialog' \in Dialog /\ dialog'.shown = dialog.shown
        /\ dialog'.config = dialog.config /\ dialog'.mode = dialog.mode
        /\ dialog'.position = dialog.moving /\ dialog'.moving = NoInfo
    BY <1>m, <2>1 DEF Dialog
  <2>3. \A what : Waiting(what)' <=> Waiting(what)
    BY <2>1 DEF Waiting
  <2> QED BY <1>0, <2>1, <2>2, <2>3 DEF DialogTypeOK, DInv
<1>6. CASE TimeoutDue
  <2>1. /\ timer /\ dialog.moving = NoInfo /\ timer' = FALSE
        /\ messages' = Append(messages, Msg("DISMISS"))
        /\ UNCHANGED <<registered, showing, lastInfo, current, dialog, stray, config, heard,
                       announced, owed, lost>>
    BY <1>6 DEF TimeoutDue
  <2>2. Msg("DISMISS") \in Message /\ Msg("DISMISS").what = "DISMISS"
    BY MsgType
  <2>3. /\ messages' \in Seq(Message)
        /\ \A what : Waiting(what)' <=> Waiting(what) \/ "DISMISS" = what
    BY <1>m, <2>1, <2>2, AfterAppend
  <2> QED BY <1>0, <2>1, <2>3 DEF DialogTypeOK, DInv
<1>7. CASE ConfigurationHeard
  <2>1. /\ heard < config /\ heard' = heard + 1
        /\ messages' = Append(messages, Msg("RECREATE"))
        /\ UNCHANGED <<registered, timer, showing, lastInfo, current, dialog, stray,
                   config, announced, owed, lost>>
    BY <1>7 DEF ConfigurationHeard
  <2>2. Msg("RECREATE") \in Message /\ Msg("RECREATE").what = "RECREATE"
    BY MsgType
  <2>3. /\ messages' \in Seq(Message)
        /\ \A what : Waiting(what)' <=> Waiting(what) \/ "RECREATE" = what
    BY <1>m, <2>1, <2>2, AfterAppend
  <2>4. heard' \in 0 .. MaxConfigs /\ heard' <= config
    BY <1>0, <2>1 DEF DialogTypeOK
  <2> QED BY <1>0, <2>1, <2>3, <2>4 DEF DialogTypeOK, DInv
<1>8. ASSUME NEW info \in Infos, ChangeReceived(info) PROVE DInv'
  <2> DEFINE update == [what |-> "UPDATE", info |-> info]
             show   == Msg("SHOW")
  <2>1. /\ announced < MaxChanges /\ announced' = announced + 1
        /\ messages' = messages \o <<update, show>>
        /\ owed' = TRUE /\ lost' = FALSE
        /\ UNCHANGED <<registered, timer, showing, lastInfo, current, dialog, stray, config,
                       heard>>
    BY <1>8 DEF ChangeReceived
  <2>2. update \in Message /\ show \in Message /\ update.what = "UPDATE" /\ show.what = "SHOW"
    BY MsgType
  <2> HIDE DEF update, show
  <2>3. /\ messages' \in Seq(Message)
        /\ Len(messages') = Len(messages) + 2
        /\ \A k \in 1 .. Len(messages) : messages'[k] = messages[k]
        /\ messages'[Len(messages) + 1] = update /\ messages'[Len(messages) + 2] = show
    BY <1>m, <2>1, <2>2
  <2>4. \A what : Waiting(what)' <=> Waiting(what) \/ what \in {"UPDATE", "SHOW"}
    <3>1. Len(messages) \in Nat
      BY <1>m, LenProperties
    <3>2. 1 .. Len(messages') =
              (1 .. Len(messages)) \cup {Len(messages) + 1, Len(messages) + 2}
      BY <2>3, <3>1
    <3>3. Those(messages') = Those(messages) \cup {update, show}
      BY <2>3, <3>2 DEF Those
    <3>4. \A what : /\ Waiting(what) <=> \E m \in Those(messages) : m.what = what
                    /\ Waiting(what)' <=> \E m \in Those(messages') : m.what = what
      BY DEF Waiting, Those
    <3> QED BY <2>2, <3>3, <3>4
  <2>5. announced' \in 0 .. MaxChanges
    BY <1>0, <2>1 DEF DialogTypeOK
  <2> QED BY <1>0, <2>1, <2>3, <2>4, <2>5 DEF DialogTypeOK, DInv
<1>9. CASE ConfigurationChanged \/ OnDestroy \/ UNCHANGED dialogVars
  <2>1. UNCHANGED <<messages, timer, showing, lastInfo, current, dialog, stray, heard,
                    announced, owed, lost>>
    BY <1>9 DEF ConfigurationChanged, OnDestroy, dialogVars
  <2>2. \/ config' = config
        \/ (config' = config + 1 /\ config < MaxConfigs)
    BY <1>9 DEF ConfigurationChanged, OnDestroy, dialogVars
  <2>3. config' \in 0 .. MaxConfigs /\ registered' \in BOOLEAN
    <3>1. config \in 0 .. MaxConfigs /\ registered \in BOOLEAN
      BY <1>0 DEF DialogTypeOK
    <3>2. registered' \in {registered, FALSE}
      BY <1>9 DEF ConfigurationChanged, OnDestroy, dialogVars
    <3>3. config' \in 0 .. MaxConfigs
      BY <2>2, <3>1
    <3> QED BY <3>1, <3>2, <3>3
  <2>4. \A what : Waiting(what)' <=> Waiting(what)
    BY <2>1 DEF Waiting
  <2>5. heard' <= config' /\ (heard' = config' => config' = config)
    <3>1. config \in Nat /\ heard \in Nat /\ heard <= config /\ heard' = heard
      BY <1>0, <2>1 DEF DialogTypeOK
    <3> QED BY <2>2, <3>1
  <2> QED BY <1>0, <2>1, <2>3, <2>4, <2>5 DEF DialogTypeOK, DInv
<1> QED BY <1>1, <1>2, <1>3, <1>4, <1>5, <1>6, <1>7, <1>8, <1>9 DEF DialogNext, Looper

\* It holds of the dialog alone, whatever is announced to it.
LEMMA DInvHolds == DialogSpec => []DInv
BY DInvInit, DInvStep, PTL DEF DialogSpec

\* Where nothing waits, what was taken last is what is displayed and announced.
LEMMA RestShowsLast == DInv => ShowsLastChange /\ ChangeIsShown
<1>1. messages = <<>> => \A what : ~ Waiting(what)
  BY DEF Waiting
<1> QED BY <1>1 DEF DInv, DisplaysLast, MadeForCurrent, ChangePending, ShowsLastChange, ChangeIsShown

-----------------------------------------------------------------------------
\* Every variable of the service keeps its type, whatever the preferences say.
THEOREM TypeCorrect == Spec => []TypeOK
<1>1. KInv => TypeOK
  BY DEF KInv
<1> QED
  BY <1>1, KInvInit, KInvStep, PTL DEF Spec

\* The service in the slider is the service alone: the dialog has no say in it.
THEOREM ServiceAlone == SliderSpec => Spec
<1>1. SliderInit => Init
  BY DEF SliderInit
<1> QED
  BY <1>1, ServiceStep, PTL DEF SliderSpec, Spec

\* The dialog in the slider is the dialog alone: what the service announces to it is
\* what it is made for.
THEOREM DialogAlone == SliderSpec => DialogSpec
<1>1. SliderInit => DialogInit
  BY DEF SliderInit
<1> QED
  BY <1>1, DialogStep, ServiceAlone, TypeCorrect, PTL DEF SliderSpec, DialogSpec

\* Once a task that is not the silent one is through, the slider has left nothing
\* muted that it muted itself, unless an unmute was announced after its mute.
THEOREM MusicReturns == SliderSpec => []MusicComesBack
<1>1. KInv => MusicComesBack
  BY DEF KInv, UnmutedOnceDone, MusicComesBack
<1> QED
  BY <1>1, KInvInit, KInvStep, ServiceAlone, PTL DEF Spec

\* Every variable of the dialog keeps its type, however many messages wait.
THEOREM DialogTypeCorrect == SliderSpec => []DialogTypeOK
<1>1. DInv => DialogTypeOK
  BY DEF DInv
<1> QED
  BY <1>1, DInvHolds, DialogAlone, PTL

\* The handler never loses sight of a dialog on screen, however often it is made anew.
THEOREM OneDialogHolds == SliderSpec => []OneDialog
<1>1. DInv => OneDialog
  BY DEF DInv
<1> QED
  BY <1>1, DInvHolds, DialogAlone, PTL

\* No removeMessages takes the last timeout of a dialog on screen away.
THEOREM TimeoutIsKept == SliderSpec => []DismissalPending
<1>1. DInv => DismissalPending
  BY DEF DInv
<1> QED
  BY <1>1, DInvHolds, DialogAlone, PTL

\* What is on screen once the handler is through is what the service announced last,
\* after any number of changes, recreated dialogs and interrupted animations.
THEOREM LastChangeIsShown == SliderSpec => []ShowsLastChange
<1> QED
  BY RestShowsLast, DInvHolds, DialogAlone, PTL

\* An announcement is not left unshown, but for the one whose message a dismissal took.
THEOREM NoChangeIsMissed == SliderSpec => []ChangeIsShown
<1> QED
  BY RestShowsLast, DInvHolds, DialogAlone, PTL

-----------------------------------------------------------------------------
(* The slider at rest.                                                     *)

\* Nobody has anything left to do for the slider.
AtRest ==
    /\ pc = "idle" /\ tasks = <<>> /\ broadcasts = <<>>
    /\ messages = <<>> /\ dialog.moving = NoInfo

\* The phone stands as its slider does, unless somebody else has set the zen mode.
StandsAsSlider ==
    LET Carried == /\ ringer = RingerOf(ModeOf[slider])
                   /\ zen = ZenOf(ModeOf[slider])
        Shown   == dialog.mode = slider /\ dialog.position = slider
    IN  AtRest /\ slider # 0 /\ ~ disturbed /\ ModeOf[slider] # None
            => Carried /\ (ShowDialog /\ registered => Shown)

\* The position reported last is the last to be carried out.
LastReported ==
    IF tasks = <<>> THEN position = slider ELSE tasks[Len(tasks)] = slider

\* The task has set the ringer mode; it has seen its zen mode.
RingerDone ==
    \/ pc \in {"media", "remember", "notify", "idle"}
    \/ mode > Normal /\ pc \in {"zen", "wait"}
ZenDone ==
    \/ pc \in {"media", "remember", "notify", "idle"}
    \/ mode <= Normal /\ pc = "ringer"

RingerCarried == mode # None /\ RingerDone => ringer = RingerOf(mode)

\* What is asked for and not committed yet is the task's own zen mode.
ZenCarried ==
    ~ disturbed /\ mode # None =>
        /\ pc = "wait" => \/ requested = ZenOf(mode)
                          \/ requested = NoZen /\ zen = ZenOf(mode)
        /\ ZenDone => zen = ZenOf(mode) /\ requested \in {NoZen, ZenOf(mode)}

Carries == LastReported /\ RingerCarried /\ ZenCarried

\* The last position among the messages, or the one displayed if there is none.
LatestIs(ms, info) ==
    \E k \in 1 .. Len(ms) :
        /\ ms[k].what = "UPDATE" /\ ms[k].info = info
        /\ \A j \in (k + 1) .. Len(ms) : ms[j].what # "UPDATE"

ToldLast(info) ==
    \/ LatestIs(messages, info)
    \/ ~ Waiting("UPDATE") /\ lastInfo = info

\* What the service announced last is the last the dialog will display.
Announced ==
    ShowDialog /\ registered /\ pc = "idle" =>
        \A p \in Positions :
            p = position =>
                IF broadcasts # <<>> THEN broadcasts[Len(broadcasts)] = p
                                     ELSE ModeOf[p] # None => ToldLast(p)

\* Nothing was reported and nothing asked for in the beginning.
LEMMA CarriesInit == Init => Carries
<1> SUFFICES ASSUME Init PROVE Carries
  OBVIOUS
<1>1. mode = None
  BY DEF Init, mode
<1> QED BY <1>1 DEF Init, Carries, LastReported, RingerCarried, ZenCarried

\* Each step of a task brings the phone nearer to its position, and no step but that of
\* somebody else takes it away from there.
LEMMA CarriesStep == KInv /\ Carries /\ [Next]_vars => Carries'
<1> SUFFICES ASSUME KInv, Carries, [Next]_vars PROVE Carries'
  OBVIOUS
<1> USE KeyHandlerAssumption, ModeType
    DEF Carries, LastReported, RingerCarried, ZenCarried, RingerDone, ZenDone
<1>0. TypeOK /\ StepHasMode /\ mode \in Modes
  BY DEF KInv
<1>1. CASE SliderMoved
  <2>1. PICK p \in Positions : slider' = p /\ tasks' = Append(tasks, p)
    BY <1>1 DEF SliderMoved
  <2>2. tasks' # <<>> /\ tasks'[Len(tasks')] = p
    BY <1>0, <2>1, AppendProperties DEF TypeOK
  <2>3. UNCHANGED <<pc, mode, ringer, zen, requested, disturbed>>
    BY <1>1 DEF SliderMoved, system, history, mode
  <2> QED BY <2>1, <2>2, <2>3
<1>2. CASE TakeTask
  <2>1. /\ tasks \in Seq(Positions) /\ tasks # <<>> /\ position' = Head(tasks)
        /\ tasks' = Tail(tasks) /\ slider' = slider /\ mode' = ModeOf[position']
        /\ pc' \in {"notify", "ringer", "zen"}
        /\ (pc' = "notify" => mode' = None)
        /\ (pc' = "ringer" => mode' > Normal)
        /\ (pc' = "zen" => ~ (mode' > Normal))
    <3>1. Head(tasks) \in Positions
      BY <1>0, <1>2, HeadTailProperties DEF TakeTask, TypeOK
    <3>2. position' # 0
      BY <1>2, <3>1 DEF TakeTask, Positions
    <3> QED BY <1>0, <1>2, <3>2 DEF TakeTask, TypeOK, mode, None
  <2>2. LastReported'
    <3>1. /\ Head(tasks) = tasks[1] /\ Tail(tasks) \in Seq(Positions)
          /\ Len(tasks) \in Nat \ {0} /\ Len(Tail(tasks)) = Len(tasks) - 1
          /\ \A k \in 1 .. Len(Tail(tasks)) : Tail(tasks)[k] = tasks[k + 1]
      BY <2>1, HeadTailProperties, LenProperties, EmptySeq
    <3>2. Tail(tasks) = <<>> <=> Len(Tail(tasks)) = 0
      BY <3>1, EmptySeq
    <3>3. CASE Tail(tasks) = <<>>
      <4>1. Len(tasks) = 1
        BY <3>1, <3>2, <3>3
      <4> QED BY <2>1, <3>1, <3>3, <4>1
    <3>4. CASE Tail(tasks) # <<>>
      <4>1. /\ Len(Tail(tasks)) \in 1 .. Len(Tail(tasks))
            /\ Len(Tail(tasks)) + 1 = Len(tasks)
        BY <3>1, <3>2, <3>4
      <4>2. Tail(tasks)[Len(Tail(tasks))] = tasks[Len(tasks)]
        BY <3>1, <4>1
      <4> QED BY <2>1, <3>4, <4>2
    <3> QED BY <3>3, <3>4
  <2>3. mode' \in Modes
    <3>1. position' \in Positions
      BY <2>1, HeadTailProperties
    <3> QED BY <2>1, <3>1
  <2>4. mode' # None => ~ RingerDone' /\ ~ ZenDone' /\ pc' # "wait"
    BY <2>1, <2>3 DEF Normal, Modes, None
  <2> QED BY <2>2, <2>4
<1>3. CASE SetZenMode
  <2>1. mode' = mode /\ requested' = ZenOf(mode) /\ pc = "zen" /\ pc' = "wait"
        /\ UNCHANGED <<tasks, slider, position, ringer, zen, disturbed>>
    BY <1>3 DEF SetZenMode, mode
  <2> QED BY <2>1
<1>4. CASE ZenModeSeen
  <2>1. /\ mode' = mode /\ pc = "wait" /\ zen = ZenOf(mode)
        /\ pc' = IF mode > Normal THEN "media" ELSE "ringer"
        /\ UNCHANGED <<tasks, slider, position, requested, ringer, zen, disturbed>>
    BY <1>4 DEF ZenModeSeen, mode, system, history
  <2> QED BY <2>1
<1>5. CASE SetRingerMode
  <2>1. /\ mode' = mode /\ pc = "ringer" /\ ringer' = RingerOf(mode)
        /\ pc' = IF mode > Normal THEN "zen" ELSE "media"
        /\ UNCHANGED <<tasks, slider, position, requested, zen, disturbed>>
    BY <1>5 DEF SetRingerMode, mode, history
  <2>2. mode <= Normal \/ mode > Normal
    BY <1>0 DEF Modes, Normal
  <2> QED BY <2>1, <2>2
<1>6. CASE AdjustMedia \/ RememberMuted \/ SendNotification
  <2>1. /\ mode' = mode /\ pc \in {"media", "remember", "notify"}
        /\ pc' \in {"remember", "notify", "idle"}
        /\ UNCHANGED <<tasks, slider, position, requested, ringer, zen, disturbed>>
    BY <1>6 DEF AdjustMedia, RememberMuted, SendNotification, mode, system, history
  <2> QED BY <2>1
<1>7. CASE ZenModeCommitted
  <2>1. /\ mode' = mode /\ requested # NoZen /\ zen' = requested /\ requested' = NoZen
        /\ UNCHANGED <<pc, tasks, slider, position, ringer, disturbed>>
    BY <1>7 DEF ZenModeCommitted, mode
  <2> QED BY <2>1
<1>8. CASE ZenModeMeddled
  <2>1. /\ mode' = mode /\ disturbed' = TRUE
        /\ UNCHANGED <<pc, tasks, slider, position, ringer>>
    BY <1>8 DEF ZenModeMeddled, mode
  <2> QED BY <2>1
<1>9. CASE MuteChangeHeard \/ MusicMeddled \/ NotificationHeard \/ UNCHANGED vars
  <2>1. /\ mode' = mode
        /\ UNCHANGED <<pc, tasks, slider, position, requested, ringer, zen, disturbed>>
    BY <1>9 DEF MuteChangeHeard, MusicMeddled, NotificationHeard, vars, mode, system, history
  <2> QED BY <2>1
<1> QED BY <1>1, <1>2, <1>3, <1>4, <1>5, <1>6, <1>7, <1>8, <1>9 DEF Next, Executor

\* A message sent later is the last one if it announces a position, ...
LEMMA LatestOfAppend ==
    ASSUME NEW ms \in Seq(Message), NEW m \in Message, NEW info
    PROVE  /\ m.what # "UPDATE" /\ LatestIs(ms, info) => LatestIs(Append(ms, m), info)
           /\ m.what = "UPDATE" => LatestIs(Append(ms, m), m.info)
<1>1. /\ Len(ms) \in Nat /\ Len(Append(ms, m)) = Len(ms) + 1
      /\ \A k \in 1 .. Len(ms) : Append(ms, m)[k] = ms[k]
      /\ Append(ms, m)[Len(ms) + 1] = m
  BY AppendProperties, LenProperties
<1>2. ASSUME m.what # "UPDATE", LatestIs(ms, info) PROVE LatestIs(Append(ms, m), info)
  <2>1. PICK k \in 1 .. Len(ms) :
            /\ ms[k].what = "UPDATE" /\ ms[k].info = info
            /\ \A j \in (k + 1) .. Len(ms) : ms[j].what # "UPDATE"
    BY <1>2 DEF LatestIs
  <2>2. ASSUME NEW j \in (k + 1) .. (Len(ms) + 1) PROVE Append(ms, m)[j].what # "UPDATE"
    <3>1. j = Len(ms) + 1 \/ (j \in (k + 1) .. Len(ms) /\ j \in 1 .. Len(ms))
      BY <1>1
    <3> QED BY <1>1, <1>2, <2>1, <3>1
  <2>3. k \in 1 .. (Len(ms) + 1) /\ Append(ms, m)[k] = ms[k]
    BY <1>1
  <2> QED BY <1>1, <2>1, <2>2, <2>3 DEF LatestIs
<1>3. ASSUME m.what = "UPDATE" PROVE LatestIs(Append(ms, m), m.info)
  <2>1. Len(ms) + 1 \in 1 .. (Len(ms) + 1) /\ ((Len(ms) + 1) + 1) .. (Len(ms) + 1) = {}
    BY <1>1
  <2> QED BY <1>1, <1>3, <2>1 DEF LatestIs
<1> QED BY <1>2, <1>3

\* ... one taken was it only if it is the only one, ...
LEMMA LatestOfTail ==
    ASSUME NEW ms \in Seq(Message), ms # <<>>, NEW info, LatestIs(ms, info)
    PROVE  \/ LatestIs(Tail(ms), info)
           \/ /\ Head(ms).what = "UPDATE" /\ Head(ms).info = info
              /\ \A m \in Those(Tail(ms)) : m.what # "UPDATE"
<1>1. /\ Head(ms) = ms[1] /\ Len(ms) \in Nat \ {0} /\ Len(Tail(ms)) = Len(ms) - 1
      /\ \A k \in 1 .. Len(Tail(ms)) : Tail(ms)[k] = ms[k + 1]
  BY HeadTailProperties, LenProperties, EmptySeq
<1>2. PICK k \in 1 .. Len(ms) :
          /\ ms[k].what = "UPDATE" /\ ms[k].info = info
          /\ \A j \in (k + 1) .. Len(ms) : ms[j].what # "UPDATE"
  BY DEF LatestIs
<1>3. CASE k = 1
  <2>1. \A j \in 1 .. Len(Tail(ms)) : j + 1 \in (k + 1) .. Len(ms)
    BY <1>1, <1>3
  <2>2. \A j \in 1 .. Len(Tail(ms)) : Tail(ms)[j].what # "UPDATE"
    BY <1>1, <1>2, <2>1
  <2> QED BY <1>1, <1>2, <1>3, <2>2 DEF Those
<1>4. CASE k # 1
  <2>1. k - 1 \in 1 .. Len(Tail(ms)) /\ (k - 1) + 1 = k
    BY <1>1, <1>4
  <2>2. Tail(ms)[k - 1] = ms[k]
    BY <1>1, <2>1
  <2>3. ASSUME NEW j \in ((k - 1) + 1) .. Len(Tail(ms)) PROVE Tail(ms)[j].what # "UPDATE"
    <3>1. j \in 1 .. Len(Tail(ms)) /\ j + 1 \in (k + 1) .. Len(ms)
      BY <1>1, <2>1
    <3> QED BY <1>1, <1>2, <3>1
  <2> QED BY <1>2, <2>1, <2>2, <2>3 DEF LatestIs
<1> QED BY <1>3, <1>4

\* ... and removeMessages, which takes none of them away, leaves it the last.
LEMMA LatestOfWithout ==
    ASSUME NEW ms \in Seq(Message), NEW whats, "UPDATE" \notin whats,
           NEW info, LatestIs(ms, info)
    PROVE  LatestIs(Without(ms, whats), info)
<1>1. PICK g : Keeps(g, ms, whats, Len(ms)) /\ Without(ms, whats) = g[Len(ms)]
  BY WithoutIsKept
<1> DEFINE n == Len(ms)
           Upto(i) == \E k \in 1 .. i :
                          /\ ms[k].what = "UPDATE" /\ ms[k].info = info
                          /\ \A j \in (k + 1) .. i : ms[j].what # "UPDATE"
           Good(i) == g[i] \in Seq(Message) /\ (Upto(i) => LatestIs(g[i], info))
           S == {i \in Nat : i <= n => Good(i)}
<1>2. n \in Nat /\ \A k \in 1 .. n : ms[k] \in Message
  BY LenProperties, ElementOfSeq
<1>3. \A k \in 0 .. n : g[k] = IF k = 0 THEN <<>>
            ELSE IF ms[k].what \in whats THEN g[k - 1] ELSE Append(g[k - 1], ms[k])
  BY <1>1 DEF Keeps
<1> HIDE DEF n
<1>4. 0 \in S
  <2>1. g[0] = <<>> /\ <<>> \in Seq(Message)
    BY <1>2, <1>3, EmptySeq
  <2>2. ~ Upto(0)
    OBVIOUS
  <2>3. Good(0)
    <3> HIDE DEF Upto
    <3> QED BY <2>1, <2>2
  <2> QED BY <2>3
<1>5. ASSUME NEW i \in Nat, i \in S PROVE i + 1 \in S
  <2> SUFFICES ASSUME i + 1 <= n PROVE Good(i + 1)
    OBVIOUS
  <2>1. i <= n /\ i + 1 \in 1 .. n /\ i + 1 \in 0 .. n /\ i + 1 # 0 /\ (i + 1) - 1 = i
    BY <1>2
  <2>2. Good(i)
    BY <1>5, <2>1
  <2> DEFINE m == ms[i + 1]
  <2>3. m \in Message
    BY <1>2, <2>1
  <2>4. g[i + 1] = IF m.what \in whats THEN g[i] ELSE Append(g[i], m)
    BY <1>3, <2>1
  <2>5. Upto(i + 1) => IF m.what = "UPDATE" THEN m.info = info ELSE Upto(i)
    <3> SUFFICES ASSUME NEW k \in 1 .. (i + 1), ms[k].what = "UPDATE", ms[k].info = info,
                        \A j \in (k + 1) .. (i + 1) : ms[j].what # "UPDATE"
                 PROVE  IF m.what = "UPDATE" THEN m.info = info ELSE Upto(i)
      OBVIOUS
    <3>1. CASE k = i + 1
      BY <3>1
    <3>2. CASE k # i + 1
      <4>1. k \in 1 .. i /\ i + 1 \in (k + 1) .. (i + 1)
        BY <3>2
      <4>2. \A j \in (k + 1) .. i : j \in (k + 1) .. (i + 1)
        OBVIOUS
      <4> QED BY <4>1, <4>2
    <3> QED BY <3>1, <3>2
  <2>6. Append(g[i], m) \in Seq(Message)
    BY <2>2, <2>3, AppendProperties
  <2> HIDE DEF m, Upto
  <2>7. CASE m.what = "UPDATE"
    <3>1. LatestIs(Append(g[i], m), m.info)
      BY <2>2, <2>3, <2>7, LatestOfAppend
    <3> QED BY <2>4, <2>5, <2>6, <2>7, <3>1
  <2>8. CASE m.what # "UPDATE"
    <3>1. LatestIs(g[i], info) => LatestIs(Append(g[i], m), info)
      BY <2>2, <2>3, <2>8, LatestOfAppend
    <3> QED BY <2>2, <2>4, <2>5, <2>6, <2>8, <3>1
  <2> QED BY <2>7, <2>8
<1>6. n \in S
  <2> HIDE DEF S
  <2> QED BY <1>2, <1>4, <1>5, Induct
<1>7. Upto(n)
  BY DEF n, LatestIs
<1> HIDE DEF Upto
<1> QED BY <1>1, <1>2, <1>6, <1>7 DEF n

\* Taking a message, with or without removeMessages, does not change what the dialog will
\* have been told last.
LEMMA ToldTaken ==
    ASSUME messages \in Seq(Message), messages # <<>>,
           NEW whats, "UPDATE" \notin whats,
           messages' \in {Tail(messages), Without(Tail(messages), whats)},
           IF Head(messages).what = "UPDATE" THEN lastInfo' = Head(messages).info
                                             ELSE lastInfo' = lastInfo,
           NEW info, ToldLast(info)
    PROVE  ToldLast(info)'
<1>1. /\ Tail(messages) \in Seq(Message)
      /\ Those(messages) = Those(Tail(messages)) \cup {Head(messages)}
  BY ThoseOfTail
<1>2. Those(messages') \subseteq Those(Tail(messages))
  BY <1>1, WithoutProperties
<1>3. /\ Waiting("UPDATE") <=> \E m \in Those(messages) : m.what = "UPDATE"
      /\ Waiting("UPDATE")' <=> \E m \in Those(messages') : m.what = "UPDATE"
  BY DEF Waiting, Those
<1>4. CASE LatestIs(Tail(messages), info)
  <2>1. LatestIs(messages', info)
    BY <1>1, <1>4, LatestOfWithout
  <2> QED BY <2>1 DEF ToldLast
<1>5. CASE /\ Head(messages).what = "UPDATE" /\ Head(messages).info = info
           /\ \A m \in Those(Tail(messages)) : m.what # "UPDATE"
  BY <1>2, <1>3, <1>5 DEF ToldLast
<1>6. CASE ~ Waiting("UPDATE") /\ lastInfo = info
  BY <1>1, <1>2, <1>3, <1>6 DEF ToldLast
<1> QED BY <1>4, <1>5, <1>6, LatestOfTail DEF ToldLast

\* Nor does a message of another kind.
LEMMA ToldSent ==
    ASSUME messages \in Seq(Message), NEW m \in Message, m.what # "UPDATE",
           messages' = Append(messages, m), lastInfo' = lastInfo, NEW info, ToldLast(info)
    PROVE  ToldLast(info)'
<1>1. LatestIs(messages, info) => LatestIs(messages', info)
  BY LatestOfAppend
<1>2. Waiting("UPDATE")' <=> Waiting("UPDATE")
  BY AfterAppend
<1> QED BY <1>1, <1>2 DEF ToldLast

\* The dialog at work keeps to what it was told last.
LEMMA ToldKept ==
    ASSUME DInv, NEW info, ToldLast(info),
           \/ Looper \/ TimeoutDue \/ ConfigurationChanged \/ ConfigurationHeard \/ OnDestroy
           \/ UNCHANGED dialogVars
    PROVE  ToldLast(info)'
<1>0. messages \in Seq(Message)
  BY DEF DInv, DialogTypeOK
<1>1. CASE HandleShow \/ HandleDismiss \/ HandleUpdate \/ HandleRecreate
  <2>1. /\ messages # <<>>
        /\ \E whats : /\ "UPDATE" \notin whats
                      /\ messages' \in {Tail(messages), Without(Tail(messages), whats)}
        /\ IF Head(messages).what = "UPDATE" THEN lastInfo' = Head(messages).info
                                             ELSE lastInfo' = lastInfo
    <3>1. /\ "UPDATE" \notin {"SHOW", "DISMISS"} /\ "UPDATE" \notin {"DISMISS"}
      OBVIOUS
    <3> DEFINE both == {"SHOW", "DISMISS"}
               one  == {"DISMISS"}
    <3>2. "UPDATE" \notin both /\ "UPDATE" \notin one
      OBVIOUS
    <3>3. messages # <<>>
      BY <1>1 DEF HandleShow, HandleDismiss, HandleUpdate, HandleRecreate, Takes
    <3>4. \/ messages' \in {Tail(messages), Without(Tail(messages), both)}
          \/ messages' \in {Tail(messages), Without(Tail(messages), one)}
      BY <1>1 DEF HandleShow, HandleDismiss, HandleUpdate, HandleRecreate
    <3>5. IF Head(messages).what = "UPDATE" THEN lastInfo' = Head(messages).info
                                            ELSE lastInfo' = lastInfo
      BY <1>1 DEF HandleShow, HandleDismiss, HandleUpdate, HandleRecreate, Takes
    <3> HIDE DEF both, one
    <3> QED BY <3>2, <3>3, <3>4, <3>5
  <2> QED BY <1>0, <2>1, ToldTaken
<1>2. CASE TimeoutDue \/ ConfigurationHeard
  <2>1. /\ messages' \in {Append(messages, Msg("DISMISS")), Append(messages, Msg("RECREATE"))}
        /\ lastInfo' = lastInfo
    BY <1>2 DEF TimeoutDue, ConfigurationHeard
  <2>2. /\ Msg("DISMISS") \in Message /\ Msg("DISMISS").what # "UPDATE"
        /\ Msg("RECREATE") \in Message /\ Msg("RECREATE").what # "UPDATE"
    BY MsgType
  <2> QED BY <1>0, <2>1, <2>2, ToldSent
<1>3. CASE AnimationEnds \/ ConfigurationChanged \/ OnDestroy \/ UNCHANGED dialogVars
  <2>1. messages' = messages /\ lastInfo' = lastInfo
    BY <1>3 DEF AnimationEnds, ConfigurationChanged, OnDestroy, dialogVars
  <2> QED BY <2>1 DEF ToldLast, Waiting
<1> QED BY <1>1, <1>2, <1>3 DEF Looper

\* And an announcement received is what it was told last.
LEMMA ToldAnew ==
    ASSUME DInv, NEW info \in Infos, ChangeReceived(info)
    PROVE  ToldLast(info)'
<1> DEFINE update == [what |-> "UPDATE", info |-> info]
           show   == Msg("SHOW")
<1>1. messages \in Seq(Message) /\ messages' = messages \o <<update, show>>
  BY DEF ChangeReceived, DInv, DialogTypeOK
<1>2. /\ update.what = "UPDATE" /\ update.info = info /\ show.what # "UPDATE"
      /\ update \in Message /\ show \in Message
  BY MsgType
<1> HIDE DEF update, show
<1>3. /\ Len(messages) \in Nat /\ Len(messages') = Len(messages) + 2
      /\ messages'[Len(messages) + 1] = update /\ messages'[Len(messages) + 2] = show
  BY <1>1, <1>2
<1>4. /\ Len(messages) + 1 \in 1 .. (Len(messages) + 2)
      /\ ((Len(messages) + 1) + 1) .. (Len(messages) + 2) = {Len(messages) + 2}
  BY <1>3
<1>5. LatestIs(messages', info)
  BY <1>2, <1>3, <1>4 DEF LatestIs
<1> QED BY <1>5 DEF ToldLast

\* The announcements go through in order: the broadcasts', then the messages'.
LEMMA AnnouncedStep ==
    KInv /\ DInv /\ Announced /\ [SliderNext]_sliderVars => Announced'
<1> SUFFICES ASSUME KInv, DInv, Announced, [SliderNext]_sliderVars,
                    ShowDialog, registered', pc' = "idle",
                    NEW p \in Positions, p = position'
             PROVE  IF broadcasts' # <<>> THEN broadcasts'[Len(broadcasts')] = p
                    ELSE ModeOf[p] # None => ToldLast(p)'
  BY DEF Announced
<1>0. broadcasts \in Seq(Positions)
  BY DEF KInv, TypeOK
<1>1. CASE ServiceSteps /\ SendNotification
  <2>1. broadcasts' = Append(broadcasts, p)
    BY <1>1 DEF SendNotification
  <2>2. broadcasts' # <<>> /\ broadcasts'[Len(broadcasts')] = p
    BY <1>0, <2>1, AppendProperties
  <2> QED BY <2>2
<1>2. CASE ServiceSteps /\ ~ SendNotification
  <2>1. /\ pc = "idle" /\ UNCHANGED <<broadcasts, position>> /\ UNCHANGED dialogVars
    BY <1>2 DEF ServiceSteps, Executor, TakeTask, SetZenMode, ZenModeSeen, SetRingerMode,
       AdjustMedia, RememberMuted, SliderMoved, MuteChangeHeard, ZenModeCommitted,
       ZenModeMeddled, MusicMeddled
  <2>2. registered = registered'
    BY <2>1 DEF dialogVars
  <2>3. ToldLast(p) => ToldLast(p)'
    BY <2>1, ToldKept
  <2> QED BY <2>1, <2>2, <2>3 DEF Announced
<1>3. CASE ChangeHeard
  <2>1. /\ broadcasts # <<>> /\ broadcasts' = Tail(broadcasts)
        /\ UNCHANGED <<pc, position>>
    BY <1>3 DEF ChangeHeard, NotificationHeard
  <2>2. registered
    BY <1>3 DEF ChangeHeard, ChangeReceived, dialogVars
  <2>3. broadcasts[Len(broadcasts)] = p
    BY <2>1, <2>2 DEF Announced
  <2>4. /\ Head(broadcasts) = broadcasts[1] /\ Tail(broadcasts) \in Seq(Positions)
        /\ Len(broadcasts) \in Nat \ {0} /\ Len(Tail(broadcasts)) = Len(broadcasts) - 1
        /\ \A k \in 1 .. Len(Tail(broadcasts)) : Tail(broadcasts)[k] = broadcasts[k + 1]
    BY <1>0, <2>1, HeadTailProperties, LenProperties, EmptySeq
  <2>5. Tail(broadcasts) = <<>> <=> Len(Tail(broadcasts)) = 0
    BY <2>4, EmptySeq
  <2>6. CASE Tail(broadcasts) # <<>>
    <3>1. /\ Len(Tail(broadcasts)) \in 1 .. Len(Tail(broadcasts))
          /\ Len(Tail(broadcasts)) + 1 = Len(broadcasts)
      BY <2>4, <2>5, <2>6
    <3> QED BY <2>1, <2>3, <2>4, <2>6, <3>1
  <2>7. CASE Tail(broadcasts) = <<>>
    <3>1. Head(broadcasts) = p
      BY <2>3, <2>4, <2>5, <2>7
    <3> SUFFICES ASSUME ModeOf[p] # None PROVE ToldLast(p)'
      BY <2>1, <2>7
    <3>2. ChangeReceived(p) /\ p \in Infos
      BY <1>3, <2>2, <3>1, SliderAssumption DEF ChangeHeard
    <3> QED BY <3>2, ToldAnew
  <2> QED BY <2>6, <2>7
<1>4. CASE DialogSteps \/ UNCHANGED sliderVars
  <2>1. UNCHANGED <<pc, position, broadcasts>> /\ registered
    BY <1>4 DEF DialogSteps, vars, sliderVars, dialogVars, OnDestroy, Looper, HandleShow,
       HandleDismiss, HandleUpdate, HandleRecreate, AnimationEnds, TimeoutDue,
       ConfigurationChanged, ConfigurationHeard
  <2>2. ToldLast(p) => ToldLast(p)'
    BY <1>4, ToldKept DEF DialogSteps, sliderVars
  <2> QED BY <2>1, <2>2 DEF Announced
<1> QED BY <1>1, <1>2, <1>3, <1>4 DEF SliderNext

\* Where all is done, what was reported last is carried out, announced and displayed.
LEMMA RestStands ==
    TypeOK /\ DInv /\ Carries /\ Announced => StandsAsSlider
<1> SUFFICES ASSUME TypeOK, DInv, Carries, Announced, AtRest,
                    slider # 0, ~ disturbed, ModeOf[slider] # None
             PROVE  /\ ringer = RingerOf(ModeOf[slider]) /\ zen = ZenOf(ModeOf[slider])
                    /\ ShowDialog /\ registered =>
                           dialog.mode = slider /\ dialog.position = slider
  BY DEF StandsAsSlider
<1>1. position = slider /\ mode = ModeOf[slider]
  BY DEF AtRest, Carries, LastReported, mode
<1>2. ringer = RingerOf(mode) /\ zen = ZenOf(mode)
  BY <1>1 DEF AtRest, Carries, RingerCarried, ZenCarried, RingerDone, ZenDone
<1>3. ASSUME ShowDialog, registered PROVE dialog.mode = slider /\ dialog.position = slider
  <2>1. slider \in Positions
    BY DEF TypeOK
  <2>2. ToldLast(slider)
    BY <1>1, <1>3, <2>1 DEF Announced, AtRest
  <2>3. lastInfo = slider
    BY <2>2 DEF ToldLast, LatestIs, AtRest
  <2> QED BY <2>3 DEF DInv, DisplaysLast, AtRest
<1> QED BY <1>1, <1>2, <1>3

\* However fast the slider was moved, and in whatever order the processes worked: once
\* they are through, ringer mode, zen mode and dialog are those of its last position.
THEOREM SliderIsObeyed == SliderSpec => []StandsAsSlider
<1>1. SliderInit => Announced
  BY DEF SliderInit, Init, Announced, Positions
<1>2. Spec => []Carries
  <2>1. Spec => []KInv
    BY KInvInit, KInvStep, PTL DEF Spec
  <2> QED BY <2>1, CarriesInit, CarriesStep, PTL DEF Spec
<1>3. Spec => []KInv
  BY KInvInit, KInvStep, PTL DEF Spec
<1>4. SliderSpec => []Announced
  BY <1>1, <1>3, AnnouncedStep, DInvHolds, ServiceAlone, DialogAlone, PTL DEF SliderSpec
<1>5. KInv => TypeOK
  BY DEF KInv
<1> QED BY <1>2, <1>3, <1>4, <1>5, RestStands, DInvHolds, ServiceAlone, DialogAlone, PTL
=============================================================================
