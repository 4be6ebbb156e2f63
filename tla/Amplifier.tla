------------------------------ MODULE Amplifier ------------------------------
(***************************************************************************)
(* The amplifier module (audio_amplifier.c).  While a speaker plays, it    *)
(* keeps a feedback stream open for the speaker's protection, and for that *)
(* stream a use case of its own in the audio HAL's list.  The audio HAL    *)
(* calls it under its own lock, so a call is one step; what can go wrong   *)
(* is what one call, complete or failed, leaves to the next.               *)
(***************************************************************************)
EXTENDS Naturals, Sequences

CONSTANTS
    Blocks,     \* where a use case can be allocated
    NULL,
    SndDevices, \* the sound devices feedback is switched for
    Speakers,   \* those is_speaker knows
    MaxOpens    \* bound: how often the module is opened

ASSUME AmplifierAssumption == /\ NULL \notin Blocks
                              /\ Speakers \subseteq SndDevices
                              /\ MaxOpens \in Nat

VARIABLES
    tfa_dev,      \* "NULL", "open", "freed", or "lost": allocated, nobody's
    tfa98xx_out,  \* tfa_dev->tfa98xx_out is a stream
    usecase_tx,   \* tfa_dev->usecase_tx, which may dangle
    usecase_list, \* adev->usecase_list: its use cases of this module
    allocated,    \* blocks that hold a use case
    enabled,      \* the audio HAL's count of users of the feedback device
    routes,       \* use cases whose audio route is on
    streams,      \* feedback streams open in the kernel
    opens,        \* the bound's counter
    ignored,      \* history: the device or a route was not enabled and nobody asked
    abandoned,    \* history: streams that were open when the module was closed
    wild          \* history: a use case was touched after it was freed

hal  == <<usecase_list, allocated, enabled, routes, streams>>
vars == <<tfa_dev, tfa98xx_out, usecase_tx, hal, opens, ignored, abandoned,
          wild>>

is_speaker(snd_device) == snd_device \in Speakers
-----------------------------------------------------------------------------
(* The audio HAL: a sound device stays on until it was disabled as often   *)
(* as it was enabled, and a count of zero stays zero.                      *)

\* It may fail, counted or not.
enable_snd_device == enabled' \in {enabled, enabled + 1}

enable_audio_route(b) == routes' \in {routes, routes \cup {b}}

OneLess(n) == IF n = 0 THEN 0 ELSE n - 1

disable_snd_device == enabled' = OneLess(enabled)

\* The first use case of the list that has this module's id.
get_usecase_from_list == IF usecase_list = <<>> THEN NULL ELSE Head(usecase_list)
-----------------------------------------------------------------------------
(* tfa98xx_start_feedback, for a speaker while no stream is open.  For any *)
(* other call it returns at once.                                          *)

\* (mutant) The stream that is open already is not looked for.
MayStartAgain(snd_device) == tfa_dev = "open" /\ is_speaker(snd_device)

MayStart(snd_device) ==
    tfa_dev = "open" /\ ~ tfa98xx_out /\ is_speaker(snd_device)

StartWithoutMemory ==
    /\ \E d \in SndDevices : MayStart(d)
    /\ usecase_tx' = NULL
    /\ UNCHANGED <<tfa_dev, tfa98xx_out, hal, opens, ignored, abandoned, wild>>

\* A use case is added, its device and route are enabled or not, and the stream is
\* started.
Start ==
    /\ \E d \in SndDevices : MayStart(d)
    /\ \E b \in Blocks \ allocated :
          /\ usecase_tx' = b
          /\ allocated' = allocated \cup {b}
          /\ usecase_list' = Append(usecase_list, b)
          /\ enable_audio_route(b)
    /\ enable_snd_device
    /\ ignored' = (ignored \/ enabled' = enabled \/ routes' = routes)
    /\ tfa98xx_out' = TRUE
    /\ streams' = streams + 1
    /\ UNCHANGED <<tfa_dev, opens, abandoned, wild>>

\* (mutant) The use case is freed in the list.
StartFailsListed ==
    /\ \E d \in SndDevices : MayStart(d)
    /\ \E b \in Blocks \ allocated :
          /\ usecase_tx' = b
          /\ usecase_list' = Append(usecase_list, b)
    /\ UNCHANGED <<tfa_dev, tfa98xx_out, allocated, enabled, routes, streams, opens,
                   ignored, abandoned, wild>>

\* There is no pcm device, it cannot be opened or not be started: the error path
\* closes it, takes back what was added and enabled, and frees the use case, to
\* which usecase_tx goes on pointing.  It disables the device even if that was not
\* counted when it was to be enabled.
StartFails ==
    /\ \E d \in SndDevices : MayStart(d)
    /\ \E b \in Blocks \ allocated : usecase_tx' = b
    /\ enabled' \in {enabled, OneLess(enabled)}
    /\ ignored' = (ignored \/ enabled' # enabled)
    /\ UNCHANGED <<tfa_dev, tfa98xx_out, usecase_list, allocated, routes, streams,
                   opens, abandoned, wild>>
-----------------------------------------------------------------------------
(* tfa98xx_stop_feedback.                                                  *)

\* (mutant) The use case is the one the module remembers.
StopRemembered ==
    /\ tfa_dev = "open"
    /\ \E d \in SndDevices : is_speaker(d)
    /\ tfa98xx_out' = FALSE
    /\ streams' = IF tfa98xx_out THEN streams - 1 ELSE streams
    /\ disable_snd_device
    /\ usecase_list' = SelectSeq(usecase_list, LAMBDA b : b # usecase_tx)
    /\ routes' = routes \ {usecase_tx}
    /\ allocated' = allocated \ {usecase_tx}
    /\ wild' = (wild \/ (usecase_tx # NULL /\ usecase_tx \notin allocated))
    /\ UNCHANGED <<tfa_dev, usecase_tx, opens, ignored, abandoned>>

\* The use case is the one found in the list, whatever the module remembers; the
\* device is disabled whether it was enabled or not.
Stop ==
    /\ tfa_dev = "open"
    /\ \E d \in SndDevices : is_speaker(d)
    /\ tfa98xx_out' = FALSE
    /\ streams' = IF tfa98xx_out THEN streams - 1 ELSE streams
    /\ disable_snd_device
    /\ usecase_tx' = get_usecase_from_list
    /\ \/ /\ usecase_tx' # NULL
          /\ usecase_list' = Tail(usecase_list)
          /\ routes' = routes \ {usecase_tx'}
          /\ allocated' = allocated \ {usecase_tx'}
          /\ wild' = (wild \/ usecase_tx' \notin allocated)
       \/ /\ usecase_tx' = NULL
          /\ UNCHANGED <<usecase_list, routes, allocated, wild>>
    /\ UNCHANGED <<tfa_dev, opens, ignored, abandoned>>
-----------------------------------------------------------------------------
(* The module.                                                             *)

\* amp_module_open, once the audio HAL has no amplifier: without memory, without the
\* primary module, without one of its symbols, or complete.
ModuleOpen ==
    /\ tfa_dev # "open"
    /\ opens < MaxOpens
    /\ opens' = opens + 1
    /\ tfa_dev' \in {"NULL", "lost", "freed", "open"}
    /\ tfa98xx_out' = FALSE
    /\ usecase_tx' = NULL
    /\ UNCHANGED <<hal, ignored, abandoned, wild>>

\* amp_dev_close frees the device and nothing that hangs on it.
DevClose ==
    /\ tfa_dev = "open"
    /\ tfa_dev' = "freed"
    /\ tfa98xx_out' = FALSE
    /\ usecase_tx' = NULL
    /\ abandoned' = IF tfa98xx_out THEN abandoned + 1 ELSE abandoned
    /\ UNCHANGED <<hal, opens, ignored, wild>>
-----------------------------------------------------------------------------
Init ==
    /\ tfa_dev = "NULL"
    /\ tfa98xx_out = FALSE
    /\ usecase_tx = NULL
    /\ usecase_list = <<>>
    /\ allocated = {}
    /\ enabled = 0
    /\ routes = {}
    /\ streams = 0
    /\ opens = 0
    /\ ignored = FALSE
    /\ abandoned = 0
    /\ wild = FALSE

Next ==
    \/ StartWithoutMemory
    \/ Start
    \/ StartFails
    \/ Stop
    \/ ModuleOpen
    \/ DevClose

Spec == Init /\ [][Next]_vars
-----------------------------------------------------------------------------
(* Properties.                                                             *)

Listed == {usecase_list[k] : k \in 1 .. Len(usecase_list)}

\* Whatever failed or was closed, and however often it was stopped before it was
\* started: a use case has memory exactly while the audio HAL lists it, no route and
\* no share in the device outlives it, and unless a failure to enable them was ignored
\* it has both as long as it is listed.
NothingLeaks ==
    /\ allocated = Listed
    /\ routes \subseteq Listed
    /\ enabled <= Len(usecase_list)
    /\ ~ ignored => routes = Listed /\ enabled = Len(usecase_list)

\* There is a use case while the feedback stream is open, and there are no others but
\* of streams that a closing of the module abandoned.
OneStreamOneUsecase ==
    /\ tfa98xx_out => usecase_list # <<>>
    /\ Len(usecase_list) <= abandoned + (IF tfa98xx_out THEN 1 ELSE 0)
    /\ streams = abandoned + (IF tfa98xx_out THEN 1 ELSE 0)

\* A stop after a failed start does not follow the pointer it left: no use case is
\* touched once it is freed.
NothingFreedIsUsed == ~ wild
=============================================================================
