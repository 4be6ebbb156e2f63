------------------------------ MODULE Vibrator ------------------------------
(***************************************************************************)
(* The vibrator HAL (aidl/vibrator/Vibrator.cpp): the binder methods over  *)
(* one of two devices, the force feedback input device, whose effects live *)
(* in slots of the kernel, and the LED device of older kernels.            *)
(*                                                                         *)
(* One binder thread makes the calls, each of which is done with the       *)
(* device when it returns; the vibrations go on in the kernel, and every   *)
(* accepted call has left a detached thread behind that sleeps as long and *)
(* calls back.  Nothing ever cancels such a thread.                        *)
(***************************************************************************)
EXTENDS Integers, FiniteSets

CONSTANTS Devices,      \* what may be found: "ff", "led" or "none"
          Timeouts,     \* timeoutMs of on, in ticks
          ReplayLimit,  \* 2^16 ms in ticks: replay.length is 16 bits wide
          ProductLimit, \* the ticks from which timeoutMs * 1000 is no int
          EffectTime,   \* playLengthMs of a predefined effect, in ticks
          Slots,        \* the effect slots of the kernel
          Faults,       \* the calls of the kernel that may fail
          MaxCalls      \* bound: vibrations asked for over a behaviour

ASSUME VibratorAssumption ==
    /\ Devices \subseteq {"ff", "led", "none"}
    /\ Timeouts \subseteq Nat
    /\ ReplayLimit \in Nat \ {0}
    /\ ProductLimit \in Nat
    /\ EffectTime \in Nat \ {0}
    /\ Slots \subseteq Nat
    /\ Faults \subseteq {"EVIOCRMFF", "EVIOCSFF", "play", "gain", "led"}
    /\ MaxCalls \in Nat

VARIABLES
    device,     \* the device the constructors found
    slots,      \* the kernel's slots with an effect uploaded
    playing,    \* vibrations going on: slot, ticks left (0: until it is stopped),
                \* the time asked for, the call's number
    mCurrAppId, \* mCurrAppId
    mCurrMagnitude,     \* mCurrMagnitude
    mInExternalControl, \* mInExternalControl
    sleepers,   \* detached threads: ticks left, the call's number
    completed,  \* the calls whose callback was called
    calls,      \* vibrations asked for so far
    reply,      \* what the last call was and whether it succeeded
    leaked      \* history: effects whose removal failed

vars == <<device, slots, playing, mCurrAppId, mCurrMagnitude, mInExternalControl,
          sleepers, completed, calls, reply, leaked>>

Invalid == -1              \* INVALID_VALUE

LedSlot == -2              \* the LED device plays one thing at a time

Magnitudes == {"LIGHT", "MEDIUM", "STRONG"}   \* EffectStrength

Calls == 1 .. MaxCalls

Reply(what, ok) == [what |-> what, ok |-> ok]

Vibration(i, length, time, n) ==
    [slot |-> i, left |-> length, time |-> time, call |-> n]

\* The kernel's vibrations without those of a slot.
StoppedIn(i) == {v \in playing : v.slot # i}
-----------------------------------------------------------------------------
(* The force feedback device: play.                                        *)

\* (mutant) An application id of 0 is taken for none.
RemoveNonZero ==
    \/ /\ mCurrAppId = Invalid
       /\ UNCHANGED <<slots, playing, leaked>>
    \/ /\ mCurrAppId >= 0
       /\ slots' = IF mCurrAppId = 0 THEN slots ELSE slots \ {mCurrAppId}
       /\ playing' = IF mCurrAppId = 0 THEN playing ELSE StoppedIn(mCurrAppId)
       /\ UNCHANGED leaked

\* EVIOCRMFF of the effect at hand, which stops it.
Remove ==
    \/ /\ mCurrAppId = Invalid
       /\ UNCHANGED <<slots, playing, leaked>>
    \/ /\ mCurrAppId # Invalid
       /\ slots' = slots \ {mCurrAppId}
       /\ playing' = StoppedIn(mCurrAppId)
       /\ UNCHANGED leaked

\* It fails: the id is forgotten all the same, and with it the slot.
RemoveFails ==
    /\ "EVIOCRMFF" \in Faults
    /\ mCurrAppId # Invalid
    /\ mCurrAppId' = Invalid
    /\ leaked' = leaked \cup {mCurrAppId}
    /\ UNCHANGED <<slots, playing>>

\* EVIOCSFF finds no free slot once the effect at hand is gone, or fails.
UploadFails ==
    /\ "EVIOCSFF" \in Faults \/ Slots \subseteq slots \ {mCurrAppId}
    /\ Remove
    /\ mCurrAppId' = Invalid

\* (mutant) The effect at hand is not removed before the next one.
UploadsBeside(n, time, length) ==
    \E i \in Slots \ slots :
        /\ slots' = slots \cup {i}
        /\ playing' = playing \cup {Vibration(i, length, time, n)}
        /\ mCurrAppId' = i
        /\ UNCHANGED leaked

\* The play event is written, and the effect plays for its length.  What a driver
\* makes of none is its own: it plays until it is stopped, or not at all ...
Uploads(n, time, length) ==
    \E i \in Slots \ (slots \ {mCurrAppId}) :
        /\ slots' = (slots \ {mCurrAppId}) \cup {i}
        /\ \/ playing' = StoppedIn(mCurrAppId) \cup {Vibration(i, length, time, n)}
           \/ length = 0 /\ playing' = StoppedIn(mCurrAppId)
        /\ mCurrAppId' = i
        /\ UNCHANGED leaked

\* ... or cannot be written: the effect is removed again, and what comes of that
\* is what play returns.
PlayFails(ok) ==
    /\ "play" \in Faults
    /\ mCurrAppId' = Invalid
    /\ playing' = StoppedIn(mCurrAppId)
    /\ \/ /\ ok
          /\ slots' = slots \ {mCurrAppId}
          /\ UNCHANGED leaked
       \/ /\ ~ ok
          /\ "EVIOCRMFF" \in Faults
          /\ \E i \in Slots \ (slots \ {mCurrAppId}) :
                /\ slots' = (slots \ {mCurrAppId}) \cup {i}
                /\ leaked' = leaked \cup {i}
    /\ Slots \ (slots \ {mCurrAppId}) # {}

\* play with a time, of which the effect has its length: ok says what it returns.
Play(n, time, length, ok) ==
    \/ ok /\ Uploads(n, time, length)
    \/ ~ ok /\ RemoveFails
    \/ ~ ok /\ UploadFails
    \/ PlayFails(ok)

\* play without: the effect at hand is removed.
Stop(ok) ==
    \/ ok /\ Remove /\ mCurrAppId' = Invalid
    \/ ~ ok /\ RemoveFails
-----------------------------------------------------------------------------
(* The binder methods.                                                     *)

\* (mutant) The thread sleeps for as many microseconds.
SleepsMicroseconds(n, ticks) ==
    sleepers' = sleepers \cup {[left |-> 0, call |-> n]}

\* How long the thread of on sleeps.  An int product that overflows is undefined;
\* one that wraps around is handed to usleep unsigned and is never too long.
Sleeps(time) == IF time < ProductLimit THEN {time} ELSE 0 .. time

\* A thread that will call back, if the caller gave something to call.
CallsBack(n, ticks) ==
    \/ sleepers' = sleepers \cup {[left |-> ticks, call |-> n]}
    \/ UNCHANGED sleepers

\* What the LED device is told: it vibrates from now on, or one of the writes
\* before the last one failed and it goes on as it was.
LedPlays(n, ticks, ok) ==
    /\ UNCHANGED <<slots, mCurrAppId, leaked>>
    /\ \/ ok /\ playing' = (IF ticks = 0 THEN {}
                            ELSE {Vibration(LedSlot, ticks, ticks, n)})
       \/ ~ ok /\ "led" \in Faults /\ UNCHANGED playing

on ==
    /\ calls < MaxCalls
    /\ calls' = calls + 1
    /\ \E t \in Timeouts, ok \in BOOLEAN :
          /\ \/ /\ device = "led"
                /\ LedPlays(calls', t, ok)
             \/ /\ device = "ff"
                /\ IF t = 0 THEN Stop(ok) ELSE Play(calls', t, t % ReplayLimit, ok)
             \/ /\ device = "none"
                /\ ok
                /\ UNCHANGED <<slots, playing, mCurrAppId, leaked>>
          /\ IF ok THEN \E d \in Sleeps(t) : CallsBack(calls', d)
                   ELSE UNCHANGED sleepers
          /\ reply' = Reply(IF t = 0 THEN "on(0)" ELSE "on", ok)
    /\ UNCHANGED <<device, mCurrMagnitude, mInExternalControl, completed>>

\* A predefined effect.  The LED device gets a list of writes nobody looks at and
\* a fixed time; the magnitude of the force feedback device is set for good.  The
\* time is a long, and so is its product.
perform ==
    /\ calls < MaxCalls
    /\ calls' = calls + 1
    /\ \E ok \in BOOLEAN, es \in Magnitudes :
          /\ \/ /\ device = "led"
                /\ ok
                /\ \/ LedPlays(calls', EffectTime, TRUE)
                   \/ LedPlays(calls', EffectTime, FALSE)
                /\ UNCHANGED mCurrMagnitude
             \/ /\ device = "ff"
                /\ mCurrMagnitude' = es
                /\ Play(calls', EffectTime, EffectTime, ok)
             \/ /\ device = "none"
                /\ ok
                /\ mCurrMagnitude' = es
                /\ UNCHANGED <<slots, playing, mCurrAppId, leaked>>
          /\ IF ok THEN CallsBack(calls', IF device = "none" THEN 0 ELSE EffectTime)
                   ELSE UNCHANGED sleepers
          /\ reply' = Reply("perform", ok)
    /\ UNCHANGED <<device, mInExternalControl, completed>>

off ==
    /\ \E ok \in BOOLEAN :
          /\ \/ /\ device = "led"
                /\ LedPlays(0, 0, ok)
             \/ /\ device = "ff"
                /\ Stop(ok)
             \/ /\ device = "none"
                /\ ok
                /\ UNCHANGED <<slots, playing, mCurrAppId, leaked>>
          /\ reply' = Reply("off", ok)
    /\ UNCHANGED <<device, mCurrMagnitude, mInExternalControl, sleepers, completed,
                   calls>>

\* The magnitude of what is played next, from "LIGHT" to "STRONG".
setAmplitude ==
    /\ device # "led"
    /\ ~ mInExternalControl
    /\ \/ /\ device = "ff"
          /\ mCurrMagnitude' \in Magnitudes
          /\ reply' = Reply("setAmplitude", TRUE)
       \/ /\ device = "none" \/ "gain" \in Faults
          /\ reply' = Reply("setAmplitude", device = "none")
          /\ UNCHANGED mCurrMagnitude
    /\ UNCHANGED <<device, slots, playing, mCurrAppId, mInExternalControl, sleepers,
                   completed, calls, leaked>>

\* On the SoCs whose haptics can be driven by audio.
setExternalControl ==
    /\ device = "ff"
    /\ mInExternalControl' \in BOOLEAN
    /\ reply' = Reply("setExternalControl", TRUE)
    /\ UNCHANGED <<device, slots, playing, mCurrAppId, mCurrMagnitude, sleepers,
                   completed, calls, leaked>>
-----------------------------------------------------------------------------
(* The kernel and the threads.                                             *)

\* A tick passes for what vibrates and for who sleeps.
Tick ==
    /\ \/ \E v \in playing : v.left > 0
       \/ \E t \in sleepers : t.left > 0
    /\ playing' = {v \in playing : v.left = 0} \cup
                  {[v EXCEPT !.left = @ - 1] : v \in {v \in playing : v.left > 1}}
    /\ sleepers' = {IF t.left = 0 THEN t ELSE [t EXCEPT !.left = @ - 1] :
                       t \in sleepers}
    /\ UNCHANGED <<device, slots, mCurrAppId, mCurrMagnitude, mInExternalControl,
                   completed, calls, reply, leaked>>

\* The thread wakes up, when it gets to run, and calls onComplete.
OnComplete ==
    /\ \E t \in sleepers :
          /\ t.left = 0
          /\ sleepers' = sleepers \ {t}
          /\ completed' = completed \cup {t.call}
    /\ UNCHANGED <<device, slots, playing, mCurrAppId, mCurrMagnitude,
                   mInExternalControl, calls, reply, leaked>>
-----------------------------------------------------------------------------
Init ==
    /\ device \in Devices
    /\ slots = {}
    /\ playing = {}
    /\ mCurrAppId = Invalid
    /\ mCurrMagnitude = "STRONG"
    /\ mInExternalControl = FALSE
    /\ sleepers = {}
    /\ completed = {}
    /\ calls = 0
    /\ reply = Reply("none", TRUE)
    /\ leaked = {}

Next ==
    \/ on
    \/ perform
    \/ off
    \/ setAmplitude
    \/ setExternalControl
    \/ Tick
    \/ OnComplete

Spec == Init /\ [][Next]_vars
-----------------------------------------------------------------------------
(* Properties.                                                             *)

\* Every variable has its type.
TypeOK ==
    /\ device \in Devices
    /\ slots \subseteq Slots
    /\ playing \subseteq [slot : Slots \cup {LedSlot}, left : Nat, time : Nat,
                          call : Calls]
    /\ mCurrAppId \in Slots \cup {Invalid}
    /\ mCurrMagnitude \in Magnitudes
    /\ mInExternalControl \in BOOLEAN
    /\ sleepers \subseteq [left : Nat, call : Calls]
    /\ completed \subseteq Calls
    /\ calls \in 0 .. MaxCalls
    /\ reply \in [what : {"none", "on", "on(0)", "perform", "off", "setAmplitude",
                          "setExternalControl"},
                  ok : BOOLEAN]
    /\ leaked \subseteq Slots

\* The kernel's slots do not run out: whatever calls follow each other and fail,
\* the HAL uses one slot, and loses one only to a removal that failed.
SlotsAccounted == slots \subseteq {mCurrAppId} \cup leaked

\* When off succeeds nothing vibrates, save what an earlier removal that failed
\* has left behind.
OffSilences ==
    reply = Reply("off", TRUE) => \A v \in playing : v.slot \in leaked

\* A vibration that ends by itself, and whose time is no overflow of an int.
Timed(v) == v.left # 0 /\ v.time < ProductLimit

\* No vibration that ends by itself is still going on when its own callback has
\* come, though the thread only sleeps as long as was asked for and knows nothing
\* of calls since.  This is said of times whose product with 1000 is an int: the
\* others call back at any time.  Nor is it said of a time whose 16 bits are 0,
\* which the driver may play until it is stopped, or of an earlier call's callback
\* during a later vibration.
CompletionNotEarly == \A v \in playing : Timed(v) => v.call \notin completed
=============================================================================
