------------------------------ MODULE FaceLoops ------------------------------
(***************************************************************************)
(* Operations of the face HAL one after another: an engine is brought up   *)
(* (FaceEngines), and when it is ready the camera runs a frame loop over   *)
(* it (CameraSource).  Both are members of Hardware and used under its     *)
(* lock by one worker, so one is at work while the other's worker stands   *)
(* still; the camera's callbacks go on through either.                     *)
(***************************************************************************)
EXTENDS CameraSource, FaceEngines

allVars == <<vars, engineVars>>

LoopsInit == Init /\ EnginesInit

\* The camera is started once prepare has succeeded.  A loop that is over, or that
\* could not start, leaves the engine as it is.
LoopStarts == step = "ready" /\ Start /\ UNCHANGED engineVars

CameraSteps ==
    /\ step # "dead"
    /\ \/ Worker \/ ImageAcquired \/ ImageListener
       \/ DeviceFails \/ ShouldStop \/ DeadlinePasses
    /\ UNCHANGED engineVars

EnginesStep == pc = "off" /\ Operations /\ UNCHANGED vars

\* resetLiveness before the first frame, or what looks at a frame.
LoopCallsMissing == pc \in {"next", "frame"} /\ LoopDies /\ UNCHANGED vars

LoopsNext == LoopStarts \/ CameraSteps \/ EnginesStep \/ LoopCallsMissing

LoopsSpec == LoopsInit /\ [][LoopsNext]_allVars

\* The worker goes on, in the camera as in the engines, while the process lives.
FairLoopsSpec ==
    /\ LoopsSpec
    /\ WF_allVars(step # "dead" /\ Worker /\ UNCHANGED engineVars)
    /\ WF_allVars(step # "dead" /\ ImageListener /\ UNCHANGED engineVars)
    /\ WF_allVars(pc = "off" /\ BringUp /\ UNCHANGED vars)
-----------------------------------------------------------------------------
\* A frame loop has the engine its operation prepared until the camera is down again
\* or the process dies: bringing up or closing an engine and running the camera
\* exclude each other (Session::prepare, Hardware::lock).  What of the pipeline it may
\* lack is what EngineIsComplete names.
LoopHasItsEngine ==
    /\ pc # "off" => step \in {"ready", "dead"}
    /\ EngineIsComplete
=============================================================================
