--------------------------- MODULE VibratorProofs ---------------------------
(***************************************************************************)
(* The vibrator HAL for any number of calls, slots and timeouts.           *)
(***************************************************************************)
EXTENDS Vibrator, TLAPS

\* What vibrates is in the slot at hand or in one that was lost.
PlayingAccounted ==
    \A v \in playing : device # "led" => v.slot \in {mCurrAppId} \cup leaked

\* The numbers of the calls so far.
CallsNumbered ==
    /\ \A v \in playing : v.call <= calls
    /\ \A t \in sleepers : t.call <= calls
    /\ \A n \in completed : n <= calls

\* A thread does not wake up before its call's vibration is over, if that ends by
\* itself and the time is no overflow.
SleepersOutlast ==
    \A v \in playing, t \in sleepers :
        Timed(v) /\ t.call = v.call => v.left <= t.left

\* Without a device nothing vibrates.
NothingPlays == device = "none" => playing = {}

VInv ==
    /\ NothingPlays
    /\ TypeOK
    /\ SlotsAccounted
    /\ PlayingAccounted
    /\ CallsNumbered
    /\ SleepersOutlast
    /\ CompletionNotEarly
    /\ OffSilences

\* The device's part of a call: what the rest of the call can rely on.
DeviceStep(n, time) ==
    /\ device = "none" => playing' = {}
    /\ slots' \subseteq Slots
    /\ mCurrAppId' \in Slots \cup {Invalid}
    /\ leaked' \subseteq Slots
    /\ slots' \subseteq {mCurrAppId'} \cup leaked'
    /\ \A v \in playing' : device # "led" => v.slot \in {mCurrAppId'} \cup leaked'
    /\ \A v \in playing' : \/ v \in playing
                           \/ /\ v.slot \in Slots \cup {LedSlot}
                              /\ v.left \in Nat /\ v.left <= time
                              /\ v.call = n /\ v.time = time
                              /\ v = Vibration(v.slot, v.left, time, n)

USE VibratorAssumption DEF Invalid, LedSlot
-----------------------------------------------------------------------------
(* The device.                                                             *)

LEMMA RemoveStep ==
    ASSUME VInv, Remove, mCurrAppId' = Invalid, device = "ff", NEW n, NEW time
    PROVE  /\ DeviceStep(n, time)
           /\ playing' \subseteq playing /\ \A v \in playing' : v.slot \in leaked'
<1> USE DEF VInv, TypeOK, Remove, StoppedIn, SlotsAccounted, PlayingAccounted
<1>1. /\ slots' \subseteq Slots /\ leaked' = leaked
      /\ slots' \subseteq {mCurrAppId'} \cup leaked'
  OBVIOUS
<1>2. \A v \in playing : v.slot \in Slots \cup {LedSlot}
  OBVIOUS
<1>3. playing' \subseteq playing /\ \A v \in playing' : v.slot \in leaked'
  BY <1>2
<1> QED
  BY <1>1, <1>3 DEF DeviceStep

LEMMA RemoveFailsStep ==
    ASSUME VInv, RemoveFails, device = "ff", NEW n, NEW time
    PROVE  DeviceStep(n, time)
  BY DEF VInv, TypeOK, RemoveFails, DeviceStep, SlotsAccounted, PlayingAccounted

LEMMA UploadsStep ==
    ASSUME VInv, device = "ff", NEW n \in Calls, NEW time \in Nat,
           NEW length \in Nat, length <= time, Uploads(n, time, length)
    PROVE  DeviceStep(n, time)
<1> USE DEF VInv, TypeOK, StoppedIn, SlotsAccounted, PlayingAccounted
<1>1. PICK i \in Slots : /\ slots' = (slots \ {mCurrAppId}) \cup {i}
                         /\ playing' \subseteq StoppedIn(mCurrAppId) \cup
                                {Vibration(i, length, time, n)}
                         /\ mCurrAppId' = i
                         /\ leaked' = leaked
  BY DEF Uploads
<1>2. /\ slots' \subseteq Slots /\ slots' \subseteq {mCurrAppId'} \cup leaked'
      /\ mCurrAppId' \in Slots /\ leaked' \subseteq Slots
  BY <1>1
<1>3. \A v \in playing' :
          \/ v \in playing /\ v.slot # mCurrAppId
          \/ v = Vibration(i, length, time, n)
  BY <1>1
<1>4. \A v \in playing' : device # "led" => v.slot \in {mCurrAppId'} \cup leaked'
  BY <1>1, <1>3 DEF Vibration
<1>5. \A v \in playing' :
          \/ v \in playing
          \/ /\ v.slot \in Slots \cup {LedSlot}
             /\ v.left \in Nat /\ v.left <= time
             /\ v.call = n /\ v.time = time
             /\ v = Vibration(v.slot, v.left, time, n)
  BY <1>3 DEF Vibration
<1> QED
  BY <1>2, <1>4, <1>5 DEF DeviceStep

LEMMA PlayFailsStep ==
    ASSUME VInv, device = "ff", NEW ok \in BOOLEAN, PlayFails(ok), NEW n, NEW time
    PROVE  DeviceStep(n, time)
<1> USE DEF VInv, TypeOK, StoppedIn, SlotsAccounted, PlayingAccounted
<1>1. playing' \subseteq playing /\ \A v \in playing' : v.slot # mCurrAppId
  BY DEF PlayFails
<1>2. /\ mCurrAppId' = Invalid /\ slots' \subseteq Slots /\ leaked' \subseteq Slots
      /\ leaked \subseteq leaked' /\ slots' \subseteq leaked'
  BY DEF PlayFails
<1> QED
  BY <1>1, <1>2 DEF DeviceStep

\* play with a time, whatever it returns.
LEMMA PlayStep ==
    ASSUME VInv, device = "ff", NEW n \in Calls, NEW time \in Nat,
           NEW length \in Nat, length <= time,
           NEW ok \in BOOLEAN, Play(n, time, length, ok)
    PROVE  DeviceStep(n, time)
  BY RemoveStep, RemoveFailsStep, UploadsStep, PlayFailsStep DEF Play, UploadFails

\* play without one leaves nothing that was not lost, if it succeeds.
LEMMA StopStep ==
    ASSUME VInv, device = "ff", NEW ok \in BOOLEAN, Stop(ok), NEW n, NEW time
    PROVE  /\ DeviceStep(n, time) /\ playing' \subseteq playing
           /\ ok => \A v \in playing' : v.slot \in leaked'
<1>1. CASE ~ ok /\ RemoveFails
  BY <1>1, RemoveFailsStep DEF RemoveFails
<1>2. CASE ok /\ Remove /\ mCurrAppId' = Invalid
  BY <1>2, RemoveStep
<1> QED
  BY <1>1, <1>2 DEF Stop

LEMMA LedStep ==
    ASSUME VInv, device = "led", NEW n \in Nat, NEW time \in Nat,
           NEW ok \in BOOLEAN, LedPlays(n, time, ok)
    PROVE  /\ DeviceStep(n, time)
           /\ time = 0 => playing' \subseteq playing
           /\ ok /\ time = 0 => playing' = {}
<1>1. /\ slots' = slots /\ mCurrAppId' = mCurrAppId /\ leaked' = leaked
  BY DEF LedPlays
<1>2. \A v \in playing' :
          \/ v \in playing
          \/ v = Vibration(LedSlot, time, time, n)
  BY DEF LedPlays
<1>3. \A v \in playing' :
          \/ v \in playing
          \/ /\ v.slot \in Slots \cup {LedSlot}
             /\ v.left \in Nat /\ v.left <= time
             /\ v.call = n /\ v.time = time
             /\ v = Vibration(v.slot, v.left, time, n)
  BY <1>2 DEF Vibration
<1> QED
  BY <1>1, <1>3 DEF DeviceStep, VInv, TypeOK, SlotsAccounted, LedPlays

\* No device: nothing changes.
LEMMA IdleStep ==
    ASSUME VInv, UNCHANGED <<slots, playing, mCurrAppId, leaked>>, NEW n, NEW time
    PROVE  DeviceStep(n, time)
  BY DEF DeviceStep, VInv, TypeOK, SlotsAccounted, PlayingAccounted, NothingPlays
-----------------------------------------------------------------------------
(* The calls.                                                              *)

\* What any step keeps that the last reply says nothing about.
Kept == /\ NothingPlays /\ SlotsAccounted /\ PlayingAccounted /\ CallsNumbered
        /\ SleepersOutlast /\ CompletionNotEarly

\* A vibration numbered afresh, and a thread that sleeps no shorter.
LEMMA NewCall ==
    ASSUME VInv, calls < MaxCalls, calls' = calls + 1, device' = device,
           completed' = completed,
           NEW time \in Nat, NEW sleep \in Nat, time < ProductLimit => time <= sleep,
           DeviceStep(calls', time),
           CallsBack(calls', sleep) \/ UNCHANGED sleepers
    PROVE  /\ Kept'
           /\ playing' \subseteq [slot : Slots \cup {LedSlot}, left : Nat, time : Nat,
                                  call : Calls]
           /\ sleepers' \subseteq [left : Nat, call : Calls]
           /\ calls' \in 0 .. MaxCalls
<1> USE DEF VInv, TypeOK, Calls
<1>1. calls' \in Calls /\ calls' \in 0 .. MaxCalls
  OBVIOUS
<1>2. \A v \in playing' : \/ v \in playing
                          \/ /\ v \in [slot : Slots \cup {LedSlot}, left : Nat, time : Nat,
                                       call : Calls]
                             /\ v.left <= time /\ v.time = time /\ v.call = calls'
  <2> SUFFICES ASSUME NEW v \in playing', v \notin playing
               PROVE  /\ v \in [slot : Slots \cup {LedSlot}, left : Nat, time : Nat,
                                call : Calls]
                      /\ v.left <= time /\ v.time = time /\ v.call = calls'
    OBVIOUS
  <2>1. /\ v.slot \in Slots \cup {LedSlot} /\ v.left \in Nat
        /\ v.left <= time /\ v.time = time /\ v.call = calls'
        /\ v = Vibration(v.slot, v.left, time, calls')
    BY DEF DeviceStep
  <2>2. Vibration(v.slot, v.left, time, calls')
            \in [slot : Slots \cup {LedSlot}, left : Nat, time : Nat, call : Calls]
    BY <1>1, <2>1 DEF Vibration
  <2> QED
    BY <2>1, <2>2
<1>3. \A t \in sleepers' : t \in sleepers \/ t = [left |-> sleep, call |-> calls']
  BY DEF CallsBack
<1>4. \A t \in sleepers' : \/ t \in sleepers
                           \/ /\ t \in [left : Nat, call : Calls]
                              /\ t.left = sleep /\ t.call = calls'
  BY <1>1, <1>3
<1>5. /\ \A v \in playing : v.call \in Nat /\ v.call <= calls /\ v.left \in Nat
      /\ \A t \in sleepers : t.call \in Nat /\ t.call <= calls /\ t.left \in Nat
      /\ \A n \in completed : n \in Nat /\ n <= calls
  BY DEF CallsNumbered
<1>6. CallsNumbered'
  BY <1>2, <1>4, <1>5 DEF CallsNumbered
<1>7. SleepersOutlast'
  <2> SUFFICES ASSUME NEW v \in playing', NEW t \in sleepers',
                      Timed(v), t.call = v.call
               PROVE  v.left <= t.left
    BY DEF SleepersOutlast
  <2>1. CASE v \in playing /\ t \in sleepers
    BY <2>1 DEF SleepersOutlast
  <2>2. CASE v \in playing /\ t \notin sleepers
    BY <1>4, <1>5, <2>2
  <2>3. CASE v \notin playing /\ t \in sleepers
    BY <1>2, <1>5, <2>3
  <2>4. CASE v \notin playing /\ t \notin sleepers
    BY <1>2, <1>4, <2>4 DEF Timed
  <2> QED
    BY <2>1, <2>2, <2>3, <2>4
<1>8. CompletionNotEarly'
  BY <1>2, <1>5 DEF CompletionNotEarly
<1>9. NothingPlays' /\ SlotsAccounted' /\ PlayingAccounted'
  BY DEF DeviceStep, NothingPlays, SlotsAccounted, PlayingAccounted
<1> QED
  BY <1>1, <1>2, <1>4, <1>6, <1>7, <1>8, <1>9 DEF Kept

\* A call that starts nothing.
LEMMA NoNewCall ==
    ASSUME VInv, DeviceStep(0, 0), playing' \subseteq playing,
           UNCHANGED <<device, sleepers, completed, calls>>
    PROVE  Kept'
<1>1. /\ NothingPlays' /\ SlotsAccounted' /\ PlayingAccounted' /\ CallsNumbered'
      /\ SleepersOutlast' /\ CompletionNotEarly'
  BY DEF VInv, DeviceStep, NothingPlays, SlotsAccounted, PlayingAccounted,
              CallsNumbered, SleepersOutlast, CompletionNotEarly, Timed
<1> QED
  BY <1>1 DEF Kept

\* TypeOK of the next state, in the three parts the steps differ in.
LEMMA TypeOfNext ==
    ASSUME TypeOK, device' = device, slots' \subseteq Slots,
           mCurrAppId' \in Slots \cup {Invalid}, leaked' \subseteq Slots,
           playing' \subseteq [slot : Slots \cup {LedSlot}, left : Nat, time : Nat,
                               call : Calls],
           sleepers' \subseteq [left : Nat, call : Calls],
           calls' \in 0 .. MaxCalls, completed' \subseteq Calls,
           mCurrMagnitude' \in Magnitudes, mInExternalControl' \in BOOLEAN,
           reply' \in [what : {"none", "on", "on(0)", "perform", "off",
                               "setAmplitude", "setExternalControl"},
                       ok : BOOLEAN]
    PROVE  TypeOK'
  BY DEF TypeOK

LEMMA OnStep == ASSUME VInv, on PROVE VInv'
<1>1. PICK t \in Timeouts, ok \in BOOLEAN :
          /\ \/ device = "led" /\ LedPlays(calls', t, ok)
             \/ device = "ff" /\ IF t = 0 THEN Stop(ok)
                                          ELSE Play(calls', t, t % ReplayLimit, ok)
             \/ /\ device = "none" /\ ok
                /\ UNCHANGED <<slots, playing, mCurrAppId, leaked>>
          /\ IF ok THEN \E d \in Sleeps(t) : CallsBack(calls', d)
                   ELSE UNCHANGED sleepers
          /\ reply' = Reply(IF t = 0 THEN "on(0)" ELSE "on", ok)
  BY DEF on
<1>2. /\ calls < MaxCalls /\ calls' = calls + 1 /\ calls' \in Calls
      /\ calls' \in Nat /\ t \in Nat
      /\ UNCHANGED <<device, mCurrMagnitude, mInExternalControl, completed>>
  BY DEF on, VInv, TypeOK, Calls
<1>3. t % ReplayLimit \in Nat /\ t % ReplayLimit <= t
  BY <1>2
<1>4. DeviceStep(calls', t)
  <2>1. CASE device = "led" /\ LedPlays(calls', t, ok)
    BY <1>2, <2>1, LedStep
  <2>2. CASE device = "ff" /\ t = 0 /\ Stop(ok)
    BY <1>2, <2>2, StopStep
  <2>3. CASE device = "ff" /\ t # 0 /\ Play(calls', t, t % ReplayLimit, ok)
    BY <1>2, <1>3, <2>3, PlayStep
  <2>4. CASE UNCHANGED <<slots, playing, mCurrAppId, leaked>>
    BY <1>2, <2>4, IdleStep
  <2> QED
    BY <1>1, <2>1, <2>2, <2>3, <2>4
<1>9. PICK d \in Nat : /\ t < ProductLimit => t <= d
                       /\ CallsBack(calls', d) \/ UNCHANGED sleepers
  <2>1. CASE ok
    <3>1. PICK d \in Sleeps(t) : CallsBack(calls', d)
      BY <1>1, <2>1
    <3>2. d \in Nat /\ (t < ProductLimit => t <= d)
      BY <1>2 DEF Sleeps
    <3> QED
      BY <3>1, <3>2
  <2>2. CASE ~ ok
    <3>1. UNCHANGED sleepers
      BY <1>1, <2>2
    <3>2. t <= t
      BY <1>2
    <3> QED
      BY <1>2, <3>1, <3>2
  <2> QED
    BY <2>1, <2>2
<1>5. /\ Kept'
      /\ playing' \subseteq [slot : Slots \cup {LedSlot}, left : Nat, time : Nat,
                             call : Calls]
      /\ sleepers' \subseteq [left : Nat, call : Calls]
      /\ calls' \in 0 .. MaxCalls
  BY <1>2, <1>4, <1>9, NewCall
<1>6. reply' \in [what : {"on", "on(0)"}, ok : BOOLEAN]
  BY <1>1 DEF Reply
<1>7. OffSilences'
  BY <1>6 DEF OffSilences, Reply
<1>8. TypeOK'
  <2>1. /\ slots' \subseteq Slots /\ mCurrAppId' \in Slots \cup {Invalid}
        /\ leaked' \subseteq Slots
    BY <1>4 DEF DeviceStep
  <2>2. /\ completed' \subseteq Calls /\ mCurrMagnitude' \in Magnitudes
        /\ mInExternalControl' \in BOOLEAN
    BY <1>2 DEF VInv, TypeOK
  <2>3. reply' \in [what : {"none", "on", "on(0)", "perform", "off", "setAmplitude",
                            "setExternalControl"},
                    ok : BOOLEAN]
    BY <1>6
  <2> QED
    BY <1>2, <1>5, <2>1, <2>2, <2>3, TypeOfNext DEF VInv
<1> QED
  BY <1>5, <1>7, <1>8 DEF VInv, Kept

LEMMA PerformStep == ASSUME VInv, perform PROVE VInv'
<1>1. PICK ok \in BOOLEAN, es \in Magnitudes :
          /\ \/ /\ device = "led" /\ ok
                /\ LedPlays(calls', EffectTime, TRUE) \/ LedPlays(calls', EffectTime, FALSE)
                /\ UNCHANGED mCurrMagnitude
             \/ /\ device = "ff" /\ mCurrMagnitude' = es
                /\ Play(calls', EffectTime, EffectTime, ok)
             \/ /\ device = "none" /\ ok /\ mCurrMagnitude' = es
                /\ UNCHANGED <<slots, playing, mCurrAppId, leaked>>
          /\ IF ok THEN CallsBack(calls', IF device = "none" THEN 0 ELSE EffectTime)
                   ELSE UNCHANGED sleepers
          /\ reply' = Reply("perform", ok)
  BY DEF perform
<1>2. /\ calls < MaxCalls /\ calls' = calls + 1 /\ calls' \in Calls
      /\ calls' \in Nat
      /\ UNCHANGED <<device, mInExternalControl, completed>>
  BY DEF perform, VInv, TypeOK, Calls
<1>3. PICK time \in Nat, sleep \in Nat :
          /\ time <= sleep /\ DeviceStep(calls', time)
          /\ CallsBack(calls', sleep) \/ UNCHANGED sleepers
  <2>1. CASE device = "led"
    <3>1. EffectTime \in Nat /\ EffectTime <= EffectTime
      OBVIOUS
    <3>2. CallsBack(calls', EffectTime)
      BY <1>1, <2>1
    <3>3. CASE LedPlays(calls', EffectTime, TRUE)
      <4>1. DeviceStep(calls', EffectTime)
        BY <1>2, <2>1, <3>1, <3>3, LedStep
      <4> QED
        BY <3>1, <3>2, <4>1
    <3>4. CASE LedPlays(calls', EffectTime, FALSE)
      <4>1. DeviceStep(calls', EffectTime)
        BY <1>2, <2>1, <3>1, <3>4, LedStep
      <4> QED
        BY <3>1, <3>2, <4>1
    <3> QED
      BY <1>1, <2>1, <3>3, <3>4
  <2>2. CASE device = "ff"
    BY <1>1, <1>2, <2>2, PlayStep
  <2>3. CASE device = "none"
    BY <1>1, <1>2, <2>3, IdleStep
  <2> QED
    BY <1>1, <2>1, <2>2, <2>3
<1>5. /\ Kept'
      /\ playing' \subseteq [slot : Slots \cup {LedSlot}, left : Nat, time : Nat,
                             call : Calls]
      /\ sleepers' \subseteq [left : Nat, call : Calls]
      /\ calls' \in 0 .. MaxCalls
  BY <1>2, <1>3, NewCall
<1>6. reply' \in [what : {"perform"}, ok : BOOLEAN]
  BY <1>1 DEF Reply
<1>7. OffSilences'
  BY <1>6 DEF OffSilences, Reply
<1>8. TypeOK'
  <2>1. /\ slots' \subseteq Slots /\ mCurrAppId' \in Slots \cup {Invalid}
        /\ leaked' \subseteq Slots
    BY <1>3 DEF DeviceStep
  <2>2. /\ completed' \subseteq Calls /\ mCurrMagnitude' \in Magnitudes
        /\ mInExternalControl' \in BOOLEAN
    BY <1>1, <1>2 DEF VInv, TypeOK
  <2>3. reply' \in [what : {"none", "on", "on(0)", "perform", "off", "setAmplitude",
                            "setExternalControl"},
                    ok : BOOLEAN]
    BY <1>6
  <2> QED
    BY <1>2, <1>5, <2>1, <2>2, <2>3, TypeOfNext DEF VInv
<1> QED
  BY <1>5, <1>7, <1>8 DEF VInv, Kept

LEMMA OffStep == ASSUME VInv, off PROVE VInv'
<1>1. PICK ok \in BOOLEAN :
          /\ \/ device = "led" /\ LedPlays(0, 0, ok)
             \/ device = "ff" /\ Stop(ok)
             \/ /\ device = "none" /\ ok
                /\ UNCHANGED <<slots, playing, mCurrAppId, leaked>>
          /\ reply' = Reply("off", ok)
  BY DEF off
<1>2. UNCHANGED <<device, mCurrMagnitude, mInExternalControl, sleepers, completed,
                  calls>>
  BY DEF off
<1>3. /\ DeviceStep(0, 0) /\ playing' \subseteq playing
      /\ ok => \A v \in playing' : v.slot \in leaked'
  <2>1. CASE device = "led" /\ LedPlays(0, 0, ok)
    BY <2>1, LedStep
  <2>2. CASE device = "ff" /\ Stop(ok)
    BY <2>2, StopStep
  <2>3. CASE device = "none" /\ UNCHANGED <<slots, playing, mCurrAppId, leaked>>
    BY <2>3, IdleStep DEF VInv, NothingPlays
  <2> QED
    BY <1>1, <2>1, <2>2, <2>3
<1>4. Kept' /\ playing' \subseteq playing
  BY <1>2, <1>3, NoNewCall
<1>5. reply'.ok = ok /\ reply' \in [what : {"off"}, ok : BOOLEAN]
  BY <1>1 DEF Reply
<1>6. OffSilences'
  <2>1. CASE ok
    BY <1>3, <2>1 DEF OffSilences
  <2>2. CASE ~ ok
    <3>1. reply' # Reply("off", TRUE)
      BY <1>5, <2>2 DEF Reply
    <3> QED
      BY <3>1 DEF OffSilences
  <2> QED
    BY <2>1, <2>2
<1>7. TypeOK'
  <2>1. /\ slots' \subseteq Slots /\ mCurrAppId' \in Slots \cup {Invalid}
        /\ leaked' \subseteq Slots
    BY <1>3 DEF DeviceStep
  <2>2. /\ completed' \subseteq Calls /\ mCurrMagnitude' \in Magnitudes
        /\ mInExternalControl' \in BOOLEAN /\ calls' \in 0 .. MaxCalls
        /\ sleepers' \subseteq [left : Nat, call : Calls]
        /\ playing' \subseteq [slot : Slots \cup {LedSlot}, left : Nat, time : Nat,
                               call : Calls]
    BY <1>2, <1>4 DEF VInv, TypeOK
  <2>3. reply' \in [what : {"none", "on", "on(0)", "perform", "off", "setAmplitude",
                            "setExternalControl"},
                    ok : BOOLEAN]
    BY <1>5
  <2> QED
    BY <1>2, <2>1, <2>2, <2>3, TypeOfNext DEF VInv
<1> QED
  BY <1>4, <1>6, <1>7 DEF VInv, Kept

\* A step that leaves the device alone.
LEMMA OtherStep ==
    ASSUME VInv, setAmplitude \/ setExternalControl \/ UNCHANGED vars PROVE VInv'
<1>1. UNCHANGED <<device, slots, playing, mCurrAppId, sleepers, completed, calls,
                  leaked>>
  BY DEF setAmplitude, setExternalControl, vars
<1>2. /\ mCurrMagnitude' \in Magnitudes
      /\ mInExternalControl' \in BOOLEAN
      /\ reply' \in [what : {"none", "on", "on(0)", "perform", "off", "setAmplitude",
                             "setExternalControl"},
                     ok : BOOLEAN]
      /\ reply' = reply \/ reply'.what # "off"
  <2>1. CASE setAmplitude
    <3>1. PICK ok \in BOOLEAN : reply' = [what |-> "setAmplitude", ok |-> ok]
      <4>1. CASE reply' = Reply("setAmplitude", TRUE)
        BY <4>1 DEF Reply
      <4>2. CASE reply' = Reply("setAmplitude", device = "none")
        BY <4>2 DEF Reply
      <4> QED
        BY <2>1, <4>1, <4>2 DEF setAmplitude
    <3>2. /\ mCurrMagnitude' \in Magnitudes
          /\ mInExternalControl' = mInExternalControl
      BY <2>1 DEF setAmplitude, VInv, TypeOK
    <3> QED
      BY <3>1, <3>2 DEF VInv, TypeOK
  <2>2. CASE setExternalControl
    <3>1. reply' = [what |-> "setExternalControl", ok |-> TRUE]
      BY <2>2 DEF setExternalControl, Reply
    <3>2. mCurrMagnitude' = mCurrMagnitude /\ mInExternalControl' \in BOOLEAN
      BY <2>2 DEF setExternalControl
    <3> QED
      BY <3>1, <3>2 DEF VInv, TypeOK
  <2>3. CASE UNCHANGED vars
    BY <2>3 DEF vars, VInv, TypeOK
  <2> QED
    BY <2>1, <2>2, <2>3
<1>3. TypeOK'
  BY <1>1, <1>2, TypeOfNext DEF VInv, TypeOK
<1>4. OffSilences'
  BY <1>1, <1>2 DEF OffSilences, Reply, VInv
<1> QED
  BY <1>1, <1>3, <1>4
     DEF VInv, NothingPlays, SlotsAccounted, PlayingAccounted, CallsNumbered,
         SleepersOutlast, CompletionNotEarly

LEMMA TickStep == ASSUME VInv, Tick PROVE VInv'
<1> USE DEF VInv
<1>1. /\ playing' = {v \in playing : v.left = 0} \cup
                    {[v EXCEPT !.left = @ - 1] : v \in {v \in playing : v.left > 1}}
      /\ sleepers' = {IF t.left = 0 THEN t ELSE [t EXCEPT !.left = @ - 1] :
                         t \in sleepers}
      /\ UNCHANGED <<device, slots, mCurrAppId, mCurrMagnitude, mInExternalControl,
                     completed, calls, reply, leaked>>
  BY DEF Tick
<1>2. \A w \in playing' : \E v \in playing :
          \/ v.left = 0 /\ w = v
          \/ v.left > 1 /\ w = [v EXCEPT !.left = v.left - 1]
  BY <1>1
<1>3. \A w \in playing' : \E v \in playing :
          /\ w.call = v.call /\ w.slot = v.slot /\ w.time = v.time
          /\ \/ v.left = 0 /\ w.left = 0
             \/ v.left > 1 /\ w.left = v.left - 1
          /\ w \in [slot : Slots \cup {LedSlot}, left : Nat, time : Nat, call : Calls]
  BY <1>2 DEF TypeOK
<1>4. \A u \in sleepers' : \E t \in sleepers :
          /\ u.left = (IF t.left = 0 THEN 0 ELSE t.left - 1) /\ u.call = t.call
          /\ u \in [left : Nat, call : Calls]
  BY <1>1 DEF TypeOK
<1>5. TypeOK'
  BY <1>1, <1>3, <1>4, TypeOfNext DEF TypeOK
<1>6. SleepersOutlast'
  <2> SUFFICES ASSUME NEW w \in playing', NEW u \in sleepers', Timed(w),
                      u.call = w.call
               PROVE  w.left <= u.left
    BY DEF SleepersOutlast
  <2>1. PICK v \in playing : /\ v.left > 1 /\ w.left = v.left - 1
                             /\ w.call = v.call /\ Timed(v)
    BY <1>3 DEF Timed
  <2>2. PICK t \in sleepers : /\ u.left = (IF t.left = 0 THEN 0 ELSE t.left - 1)
                              /\ u.call = t.call
    BY <1>4
  <2>3. v.left <= t.left /\ v.left \in Nat /\ t.left \in Nat
    BY <2>1, <2>2 DEF SleepersOutlast, TypeOK
  <2> QED
    BY <2>1, <2>2, <2>3
<1>7. NothingPlays' /\ SlotsAccounted' /\ PlayingAccounted' /\ OffSilences'
  BY <1>1, <1>3 DEF NothingPlays, SlotsAccounted, PlayingAccounted, OffSilences
<1>8. CallsNumbered'
  BY <1>1, <1>3, <1>4 DEF CallsNumbered
<1>9. CompletionNotEarly'
  <2> SUFFICES ASSUME NEW w \in playing', Timed(w) PROVE w.call \notin completed'
    BY DEF CompletionNotEarly
  <2>1. PICK v \in playing : w.call = v.call /\ Timed(v)
    BY <1>3 DEF Timed, TypeOK
  <2> QED
    BY <1>1, <2>1 DEF CompletionNotEarly
<1> QED
  BY <1>5, <1>6, <1>7, <1>8, <1>9

LEMMA OnCompleteStep == ASSUME VInv, OnComplete PROVE VInv'
<1> USE DEF VInv
<1>1. PICK t \in sleepers : /\ t.left = 0 /\ sleepers' = sleepers \ {t}
                            /\ completed' = completed \cup {t.call}
  BY DEF OnComplete
<1>2. UNCHANGED <<device, slots, playing, mCurrAppId, mCurrMagnitude,
                  mInExternalControl, calls, reply, leaked>>
  BY DEF OnComplete
<1>3. \A v \in playing : Timed(v) => v.call # t.call
  BY <1>1 DEF SleepersOutlast, Timed, TypeOK
<1>4. TypeOK'
  BY <1>1, <1>2, TypeOfNext DEF TypeOK
<1>5. CompletionNotEarly'
  BY <1>1, <1>2, <1>3 DEF CompletionNotEarly
<1> QED
  BY <1>1, <1>2, <1>4, <1>5
     DEF NothingPlays, SlotsAccounted, PlayingAccounted, CallsNumbered,
         SleepersOutlast, OffSilences

LEMMA VInvInit == Init => VInv
<1> SUFFICES ASSUME Init PROVE VInv
  OBVIOUS
<1>1. reply = [what |-> "none", ok |-> TRUE]
  BY DEF Init, Reply
<1>2. TypeOK
  <2>1. reply \in [what : {"none", "on", "on(0)", "perform", "off", "setAmplitude",
                           "setExternalControl"},
                   ok : BOOLEAN]
    BY <1>1
  <2>2. /\ mCurrAppId \in Slots \cup {Invalid}
        /\ mCurrMagnitude \in Magnitudes
        /\ calls \in 0 .. MaxCalls
    BY DEF Init, Magnitudes
  <2>4. mInExternalControl \in BOOLEAN
    BY DEF Init
  <2>3. /\ device \in Devices /\ slots = {} /\ playing = {} /\ sleepers = {}
        /\ completed = {} /\ leaked = {}
    BY DEF Init
  <2> QED
    BY <2>1, <2>2, <2>3, <2>4 DEF TypeOK
<1>3. OffSilences
  BY DEF Init, OffSilences
<1> QED
  BY <1>2, <1>3
     DEF Init, VInv, NothingPlays, SlotsAccounted, PlayingAccounted, CallsNumbered,
         SleepersOutlast, CompletionNotEarly

LEMMA VInvStep == VInv /\ [Next]_vars => VInv'
  BY OnStep, PerformStep, OffStep, OtherStep, TickStep, OnCompleteStep DEF Next

-----------------------------------------------------------------------------
\* The inductive invariant holds of every behaviour.
THEOREM VInvHolds == Spec => []VInv
  BY VInvInit, VInvStep, PTL DEF Spec

\* Every variable keeps its type.
THEOREM TypeCorrect == Spec => []TypeOK
<1>1. VInv => TypeOK
  BY DEF VInv
<1> QED
  BY <1>1, VInvHolds, PTL

\* However many slots the kernel has and calls are made, only removals that failed
\* cost slots.
THEOREM SlotsAreAccounted == Spec => []SlotsAccounted
<1>1. VInv => SlotsAccounted
  BY DEF VInv
<1> QED
  BY <1>1, VInvHolds, PTL

\* off silences the device.
THEOREM OffIsSilent == Spec => []OffSilences
<1>1. VInv => OffSilences
  BY DEF VInv
<1> QED
  BY <1>1, VInvHolds, PTL

\* For any timeouts, limits, slots and number of calls: while a vibration that ends
\* by itself goes on, its own callback has not come, provided that timeoutMs * 1000
\* is an int.  Nothing is said of a longer time, of one that is 0 in 16 bits and so
\* may play until it is stopped, or of a callback of another call.
THEOREM CompletionIsNotEarly == Spec => []CompletionNotEarly
<1>1. VInv => CompletionNotEarly
  BY DEF VInv
<1> QED
  BY <1>1, VInvHolds, PTL
=============================================================================
