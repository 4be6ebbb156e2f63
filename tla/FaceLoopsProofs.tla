--------------------------- MODULE FaceLoopsProofs ---------------------------
(***************************************************************************)
(* Proofs about FaceEngines and about its composition with the camera: for *)
(* any failures of any calls, in any number of operations.                 *)
(***************************************************************************)
EXTENDS FaceLoops, CameraSourceProofs, FiniteSetTheorems

\* There are finitely many handles of faceapp's sessions.
LEMMA HandlesFinite == \A m : IsFiniteSet(m \cap AppHandles)
<1>1. IsFiniteSet({}) /\ IsFiniteSet({"sHandle"})
  BY FS_EmptySet, FS_Singleton
<1>2. IsFiniteSet({"sHandle"} \cup {"mFeatureHandle"})
  BY <1>1, FS_AddElement
<1>3. IsFiniteSet(({"sHandle"} \cup {"mFeatureHandle"}) \cup {"mFrameHandle"})
  BY <1>2, FS_AddElement
<1>4. AppHandles = ({"sHandle"} \cup {"mFeatureHandle"}) \cup {"mFrameHandle"}
  BY DEF AppHandles
<1>5. IsFiniteSet(AppHandles)
  BY <1>3, <1>4
<1>6. ASSUME NEW m PROVE IsFiniteSet(m \cap AppHandles)
  <2>1. m \cap AppHandles \subseteq AppHandles
    OBVIOUS
  <2> QED BY <1>5, <2>1, FS_Subset
<1> QED BY <1>6

\* A session more, a session less, and a member that holds none.
LEMMA HandleAdded ==
    ASSUME NEW m, NEW h \in AppHandles, h \notin m
    PROVE  Cardinality((m \cup {h}) \cap AppHandles) = Cardinality(m \cap AppHandles) + 1
<1>1. (m \cup {h}) \cap AppHandles = (m \cap AppHandles) \cup {h}
  OBVIOUS
<1> QED BY <1>1, HandlesFinite, FS_AddElement

LEMMA HandleRemoved ==
    ASSUME NEW m, NEW h \in AppHandles, h \in m
    PROVE  Cardinality((m \ {h}) \cap AppHandles) = Cardinality(m \cap AppHandles) - 1
<1>1. (m \ {h}) \cap AppHandles = (m \cap AppHandles) \ {h}
  OBVIOUS
<1> QED BY <1>1, HandlesFinite, FS_RemoveElement

\* Nothing is up before the first operation.
LEMMA EnginesStart == EnginesInit => EnginesInv
<1> SUFFICES ASSUME EnginesInit PROVE EnginesInv
  OBVIOUS
<1>1. EnginesTypeOK
  <2>1. tries \in 0 .. MaxTries - 1 /\ apps \in Nat
    BY EnginesAssumption DEF EnginesInit
  <2>2. step \in EngineSteps /\ backend \in Backends /\ cmdline \in {"own", "stock"}
    BY DEF EnginesInit, EngineSteps
  <2>3. members \subseteq EngineMembers /\ leaked \subseteq CvHandles
    BY DEF EnginesInit
  <2>4. /\ erasing \in BOOLEAN /\ stAuth \in BOOLEAN
        /\ refused \subseteq {"mHackness", "symbols"}
    BY DEF EnginesInit
  <2> QED BY <2>1, <2>2, <2>3, <2>4 DEF EnginesTypeOK
<1>2. AppsAccounted
  <2>1. members \cap AppHandles = {}
    BY DEF EnginesInit
  <2> QED BY <2>1, FS_EmptySet DEF EnginesInit, AppsAccounted
<1> QED BY <1>1, <1>2
        DEF EnginesInit, EnginesInv, CmdlineIsOwn, AuthSteps, CvSteps, SymbolsSought,
            TeeSteps, CvHandles

\* A step that leaves the sessions and the handles of faceapp alone.
LEMMA SameSessions ==
    ASSUME AppsAccounted, UNCHANGED apps,
           members' \cap AppHandles = members \cap AppHandles,
           leaked' \subseteq {"mDetector", "mDetector640", "mOcular"}
    PROVE  AppsAccounted'
BY DEF AppsAccounted

\* A session was started and its handle kept.
LEMMA SessionStarted ==
    ASSUME AppsAccounted, NEW h \in AppHandles, NEW next, StartsApp(h, next),
           UNCHANGED leaked, apps \in Nat
    PROVE  AppsAccounted'
BY HandleAdded DEF AppsAccounted, StartsApp

\* Whatever step is taken, loading and refusals stay together.
LEMMA SymbolsStay ==
    ASSUME EnginesInv, EnginesNext
    PROVE  SymbolsSought'
<1> USE DEF EnginesInv, SymbolsSought, CvHandles
<1>1. CASE Prepare \/ RemoveFeature \/ Done
  BY <1>1 DEF Prepare, RemoveFeature, Done, AfterEngine
<1>2. CASE AuthLoads \/ AuthLicense \/ SetTeeCommunicationFunc \/ AuthInit \/ Deinit
  BY <1>2 DEF AuthLoads, Loads, AuthLicense, AuthFails, SetTeeCommunicationFunc, AuthInit,
     AllOpen, Deinit
<1>3. CASE AuthTeeOpen
  BY <1>3 DEF AuthTeeOpen, Loads, StartsApp, TriesAgain
<1>4. CASE EngineLoads \/ EngineModels
  BY <1>4 DEF EngineLoads, StockCmdline, EngineModels, CreatedAfter
<1>5. CASE Create
  <2>1. "FaceEngine.mLib" \in members /\ "symbols" \in members \cup refused
    BY <1>5 DEF Create
  <2>2. members \subseteq members' /\ refused \subseteq refused'
    BY <1>5 DEF Create
  <2> QED BY <2>1, <2>2
<1>6. CASE FaceTeeLoads
  BY <1>6 DEF FaceTeeLoads, Loads
<1>7. CASE FaceTeeStarts
  BY <1>7 DEF FaceTeeStarts, AllOpen, StartsApp, TriesAgain
<1>8. CASE InitDies \/ LoopDies
  BY <1>8 DEF InitDies, LoopDies, MissingSymbol
<1> QED BY <1>1, <1>2, <1>3, <1>4, <1>5, <1>6, <1>7, <1>8
        DEF EnginesNext, Operations, BringUp

\* The steps between operations.
LEMMA OperationKeepsInv ==
    ASSUME EnginesInv, Prepare \/ RemoveFeature \/ Done
    PROVE  EnginesInv'
<1> USE DEF EnginesInv
<1>0. SymbolsSought'
  BY SymbolsStay DEF EnginesNext, Operations, BringUp
<1>1. EnginesTypeOK'
  BY DEF EnginesTypeOK, EngineSteps, Prepare, RemoveFeature, Done, AfterEngine
<1>2. AppsAccounted'
  BY DEF AppsAccounted, Prepare, RemoveFeature, Done
<1>3. CmdlineIsOwn'
  BY DEF CmdlineIsOwn, CvHandles, Prepare, RemoveFeature, Done, AfterEngine
<1>4. AuthSteps'
  BY DEF AuthSteps, Available, UseTee, Backends, EnginesTypeOK, Prepare, RemoveFeature, Done, AfterEngine
<1>5. CvSteps'
  BY DEF CvSteps, Available, UseTee, Prepare, RemoveFeature, Done, AfterEngine
<1>6. TeeSteps'
  BY DEF TeeSteps, CvSteps, Available, UseTee, Prepare, RemoveFeature, Done, AfterEngine
<1> QED BY <1>0, <1>1, <1>2, <1>3, <1>4, <1>5, <1>6

\* The steps of AuthEngine::init.
LEMMA AuthKeepsInv ==
    ASSUME EnginesInv,
           \/ AuthLoads \/ AuthLicense \/ AuthTeeOpen \/ SetTeeCommunicationFunc
           \/ AuthInit \/ Deinit
    PROVE  EnginesInv'
<1> USE DEF EnginesInv
<1>0. SymbolsSought'
  BY SymbolsStay DEF EnginesNext, Operations, BringUp
<1>1. CASE AuthLoads
  <2> USE <1>1 DEF AuthLoads, Loads
  <2>1. EnginesTypeOK'
    BY DEF EnginesTypeOK, EngineSteps, EngineMembers
  <2>2. AppsAccounted'
    BY SameSessions DEF AppHandles, AppsAccounted
  <2>3. CmdlineIsOwn'
    BY DEF CmdlineIsOwn, CvHandles
  <2>4. AuthSteps' /\ CvSteps' /\ TeeSteps'
    BY DEF AuthSteps, CvSteps, TeeSteps, Available, UseTee
  <2> QED BY <1>0, <2>1, <2>2, <2>3, <2>4
<1>2. CASE AuthLicense \/ SetTeeCommunicationFunc
  <2> USE <1>2 DEF AuthLicense, SetTeeCommunicationFunc, AuthFails
  <2>1. EnginesTypeOK'
    BY DEF EnginesTypeOK, EngineSteps, AppHandles
  <2>2. AppsAccounted'
    BY DEF AppsAccounted
  <2>3. CmdlineIsOwn'
    BY DEF CmdlineIsOwn, CvHandles
  <2>4. AuthSteps' /\ CvSteps' /\ TeeSteps'
    BY DEF AuthSteps, CvSteps, TeeSteps, Available, UseTee
  <2> QED BY <1>0, <2>1, <2>2, <2>3, <2>4
<1>3. CASE AuthTeeOpen
  <2> USE <1>3 DEF AuthTeeOpen
  <2>1. EnginesTypeOK'
    <3>1. tries' \in 0 .. MaxTries - 1
      BY EnginesAssumption DEF EnginesTypeOK, Loads, StartsApp, TriesAgain
    <3>2. apps' \in Nat
      BY DEF EnginesTypeOK, Loads, StartsApp, TriesAgain
    <3>3. step' \in EngineSteps
      BY DEF EnginesTypeOK, EngineSteps, AppHandles, Loads, StartsApp, TriesAgain
    <3>4. members' \subseteq EngineMembers
      BY DEF EnginesTypeOK, EngineMembers, AppHandles, Loads, StartsApp, TriesAgain
    <3>5. cmdline' \in {"own", "stock"}
      BY DEF EnginesTypeOK
    <3> QED BY <3>1, <3>2, <3>3, <3>4, <3>5 DEF EnginesTypeOK
  <2>2. AppsAccounted'
    <3>1. CASE StartsApp("sHandle", "setTeeCommunicationFunc")
      BY <3>1, SessionStarted DEF AppHandles, EnginesTypeOK
    <3>2. CASE ~StartsApp("sHandle", "setTeeCommunicationFunc")
      <4>1. members' \cap AppHandles = members \cap AppHandles /\ UNCHANGED <<apps, leaked>>
        BY <3>2 DEF Loads, TriesAgain, AppHandles
      <4> QED BY <4>1, SameSessions DEF AppsAccounted
    <3> QED BY <3>1, <3>2
  <2>3. CmdlineIsOwn'
    BY DEF CmdlineIsOwn, CvHandles, Loads, StartsApp, TriesAgain
  <2>4. AuthSteps' /\ CvSteps' /\ TeeSteps'
    BY DEF AuthSteps, CvSteps, TeeSteps, Available, UseTee, Loads, StartsApp, TriesAgain
  <2> QED BY <1>0, <2>1, <2>2, <2>3, <2>4
<1>4. CASE AuthInit
  <2> USE <1>4 DEF AuthInit, AuthFails, AllOpen
  <2>1. EnginesTypeOK'
    BY DEF EnginesTypeOK, EngineSteps, EngineMembers
  <2>2. AppsAccounted'
    BY SameSessions DEF AppHandles, AppsAccounted
  <2>3. CmdlineIsOwn'
    BY DEF CmdlineIsOwn, CvHandles
  <2>4. AuthSteps' /\ CvSteps' /\ TeeSteps'
    BY DEF AuthSteps, CvSteps, TeeSteps, Available, UseTee
  <2> QED BY <1>0, <2>1, <2>2, <2>3, <2>4
<1>5. CASE Deinit
  <2> USE <1>5 DEF Deinit
  <2>1. AppsAccounted' /\ apps' \in Nat
    <3>1. CASE step = "AuthTee::close" /\ "sHandle" \in members
      <4>1. members' \cap AppHandles = (members \ {"sHandle"}) \cap AppHandles
        BY <3>1 DEF AppHandles
      <4>2. Cardinality(members' \cap AppHandles) = apps - 1
        BY <3>1, <4>1, HandleRemoved DEF AppsAccounted, AppHandles
      <4>3. Cardinality(members' \cap AppHandles) \in Nat
        BY HandlesFinite, FS_CardinalityType
      <4> QED BY <3>1, <4>2, <4>3 DEF AppsAccounted
    <3>2. CASE ~(step = "AuthTee::close" /\ "sHandle" \in members)
      <4>1. members' \cap AppHandles = members \cap AppHandles /\ UNCHANGED <<apps, leaked>>
        BY <3>2 DEF AppHandles
      <4> QED BY <4>1, SameSessions DEF AppsAccounted, EnginesTypeOK
    <3> QED BY <3>1, <3>2
  <2>2. EnginesTypeOK'
    BY <2>1 DEF EnginesTypeOK, EngineSteps
  <2>3. CmdlineIsOwn'
    BY DEF CmdlineIsOwn, CvHandles
  <2>4. AuthSteps' /\ CvSteps' /\ TeeSteps'
    BY DEF AuthSteps, CvSteps, TeeSteps, Available, UseTee
  <2> QED BY <1>0, <2>1, <2>2, <2>3, <2>4
<1> QED BY <1>1, <1>2, <1>3, <1>4, <1>5

\* The steps of FaceEngine::init and FaceTee::open.
LEMMA PipelineKeepsInv ==
    ASSUME EnginesInv,
           EngineLoads \/ EngineModels \/ Create \/ FaceTeeLoads \/ FaceTeeStarts
    PROVE  EnginesInv'
<1> USE DEF EnginesInv
<1>0. SymbolsSought'
  BY SymbolsStay DEF EnginesNext, Operations, BringUp
<1>1. CASE EngineLoads
  <2> USE <1>1 DEF EngineLoads, StockCmdline
  <2>1. EnginesTypeOK'
    BY DEF EnginesTypeOK, EngineSteps, EngineMembers
  <2>2. AppsAccounted'
    BY SameSessions DEF AppHandles, AppsAccounted
  <2>3. CmdlineIsOwn'
    BY DEF CmdlineIsOwn, CvHandles
  <2>4. AuthSteps' /\ CvSteps' /\ TeeSteps'
    BY DEF AuthSteps, CvSteps, TeeSteps, Available, UseTee
  <2> QED BY <1>0, <2>1, <2>2, <2>3, <2>4
<1>2. CASE EngineModels
  <2> USE <1>2 DEF EngineModels, CreatedAfter
  <2>1. EnginesTypeOK'
    <3>1. step' \in EngineSteps
      BY DEF EngineSteps, CvHandles
    <3> QED BY <3>1 DEF EnginesTypeOK
  <2>2. AppsAccounted'
    BY DEF AppsAccounted
  <2>3. CmdlineIsOwn'
    BY DEF CmdlineIsOwn, CvHandles
  <2>4. AuthSteps' /\ CvSteps' /\ TeeSteps'
    BY DEF AuthSteps, CvSteps, TeeSteps, Available, UseTee
  <2> QED BY <1>0, <2>1, <2>2, <2>3, <2>4
<1>3. CASE Create
  <2> USE <1>3 DEF Create, CreatedAfter, AfterEngine
  <2>1. EnginesTypeOK'
    <3>1. step' \in EngineSteps
      BY DEF EngineSteps, CvHandles
    <3>2. members' \subseteq EngineMembers
      BY DEF EnginesTypeOK, EngineMembers
    <3>3. leaked' \subseteq CvHandles
      BY DEF EnginesTypeOK
    <3>4. cmdline' \in {"own", "stock"}
      BY DEF EnginesTypeOK
    <3>5. refused' \subseteq {"mHackness", "symbols"}
      BY DEF EnginesTypeOK
    <3> QED BY <3>1, <3>2, <3>3, <3>4, <3>5 DEF EnginesTypeOK
  <2>2. AppsAccounted'
    <3>1. members' \cap AppHandles = members \cap AppHandles
      BY DEF AppHandles, CvHandles
    <3>2. leaked' \subseteq {"mDetector", "mDetector640", "mOcular"}
      BY DEF AppsAccounted, CvHandles, CvSteps
    <3> QED BY <3>1, <3>2, SameSessions
  <2>3. CmdlineIsOwn'
    BY DEF CmdlineIsOwn, CvHandles
  <2>4. AuthSteps'
    BY DEF AuthSteps, Available, UseTee, CvHandles, CvSteps
  <2>5. CvSteps'
    <3>1. CASE step' = "off"
      <4>1. members' = members
        BY <3>1 DEF CvHandles
      <4>2. refused' = refused \cup ({step} \cap {"mHackness"}) /\ step \in CvHandles
        BY <3>1 DEF CvHandles
      <4> HIDE <1>3
      <4>3. step = "mHackness" => "mHackness" \in refused'
        BY <4>2
      <4>4. refused \subseteq refused'
        BY <4>2
      <4>5. step # "dead"
        BY <4>2 DEF CvHandles
      <4> QED BY <3>1, <4>1, <4>3, <4>4, <4>5 DEF CvSteps
    <3>2. CASE step' # "off"
      <4>1. members' = members \cup {step} /\ UNCHANGED <<backend, erasing>>
        BY <3>2
      <4>2. refused \subseteq refused'
        BY <3>2
      <4>3. step' = IF step = "mHackness" THEN AfterEngine ELSE CreatedAfter[step]
        BY <3>2
      <4> HIDE <1>3
      <4>4. step \in CvHandles
        BY <1>3
      <4> QED BY <4>1, <4>2, <4>3, <4>4 DEF CvSteps, Available, UseTee, CvHandles
    <3> QED BY <3>1, <3>2
  <2>6. TeeSteps'
    BY DEF TeeSteps, CvSteps, Available, UseTee, CvHandles
  <2> QED BY <1>0, <2>1, <2>2, <2>3, <2>4, <2>5, <2>6
<1>4. CASE FaceTeeLoads
  <2> USE <1>4 DEF FaceTeeLoads, Loads
  <2>1. EnginesTypeOK'
    BY DEF EnginesTypeOK, EngineSteps, EngineMembers, AppHandles
  <2>2. AppsAccounted'
    BY SameSessions DEF AppHandles, AppsAccounted
  <2>3. CmdlineIsOwn'
    BY DEF CmdlineIsOwn, CvHandles
  <2>4. AuthSteps' /\ CvSteps' /\ TeeSteps'
    BY DEF AuthSteps, CvSteps, TeeSteps, Available, UseTee
  <2> QED BY <1>0, <2>1, <2>2, <2>3, <2>4
<1>5. CASE FaceTeeStarts
  <2>1. PICK next \in {"mFrameHandle", AllOpen} :
          /\ next = IF step = "mFeatureHandle" THEN "mFrameHandle" ELSE AllOpen
          /\ \/ step \in members /\ step' = next /\ UNCHANGED <<tries, members, apps>>
             \/ StartsApp(step, next)
             \/ TriesAgain(step, "off")
          /\ UNCHANGED <<backend, erasing, leaked, stAuth, cmdline, refused>>
          /\ step \in {"mFeatureHandle", "mFrameHandle"}
    BY <1>5 DEF FaceTeeStarts
  <2>2. EnginesTypeOK'
    <3>1. tries' \in 0 .. MaxTries - 1
      BY <2>1, EnginesAssumption DEF EnginesTypeOK, StartsApp, TriesAgain
    <3>2. apps' \in Nat
      BY <2>1 DEF EnginesTypeOK, StartsApp, TriesAgain
    <3>3. step' \in EngineSteps
      BY <2>1 DEF EnginesTypeOK, EngineSteps, AppHandles, AllOpen, StartsApp, TriesAgain
    <3>4. members' \subseteq EngineMembers
      BY <2>1 DEF EnginesTypeOK, EngineMembers, AppHandles, StartsApp, TriesAgain
    <3> QED BY <2>1, <3>1, <3>2, <3>3, <3>4 DEF EnginesTypeOK
  <2>3. AppsAccounted'
    <3>1. CASE StartsApp(step, next)
      BY <2>1, <3>1, SessionStarted DEF AppHandles, EnginesTypeOK
    <3>2. CASE ~StartsApp(step, next)
      BY <2>1, <3>2 DEF TriesAgain, AppsAccounted
    <3> QED BY <3>1, <3>2
  <2>4. CmdlineIsOwn'
    BY <2>1 DEF CmdlineIsOwn, CvHandles, AllOpen, StartsApp, TriesAgain
  <2>5. AuthSteps' /\ CvSteps' /\ TeeSteps'
    BY <2>1 DEF AuthSteps, CvSteps, TeeSteps, Available, UseTee, AllOpen, StartsApp, TriesAgain
  <2> QED BY <1>0, <2>2, <2>3, <2>4, <2>5
<1> QED BY <1>1, <1>2, <1>3, <1>4, <1>5

\* The process dies.
LEMMA DyingKeepsInv ==
    ASSUME EnginesInv, InitDies \/ LoopDies
    PROVE  EnginesInv'
<1>1. SymbolsSought'
  BY SymbolsStay DEF EnginesNext, Operations
<1>2. /\ step' = "dead"
      /\ UNCHANGED <<backend, erasing, tries, members, leaked, apps, stAuth, cmdline, refused>>
  BY DEF InitDies, LoopDies, MissingSymbol
<1>3. /\ EnginesTypeOK /\ AppsAccounted /\ CmdlineIsOwn /\ AuthSteps /\ CvSteps /\ TeeSteps
  BY DEF EnginesInv
<1>4. EnginesTypeOK'
  BY <1>2, <1>3 DEF EnginesTypeOK, EngineSteps
<1>5. AppsAccounted' /\ CmdlineIsOwn' /\ AuthSteps' /\ TeeSteps'
  BY <1>2, <1>3 DEF AppsAccounted, CmdlineIsOwn, CvHandles, AuthSteps, TeeSteps, Available,
     UseTee
<1>6. CvSteps'
  BY <1>2, <1>3 DEF CvSteps, Available
<1> QED BY <1>1, <1>4, <1>5, <1>6 DEF EnginesInv

\* Every step of the engines keeps their invariant.
LEMMA EnginesKeepInv == EnginesInv /\ [EnginesNext]_engineVars => EnginesInv'
<1>1. ASSUME EnginesInv, UNCHANGED engineVars PROVE EnginesInv'
  BY <1>1 DEF engineVars, EnginesInv, EnginesTypeOK, AppsAccounted, CmdlineIsOwn,
              AuthSteps, CvSteps, SymbolsSought, TeeSteps, Available, UseTee
<1> QED BY <1>1, OperationKeepsInv, AuthKeepsInv, PipelineKeepsInv, DyingKeepsInv
        DEF EnginesNext, Operations, BringUp, InitDies, LoopDies

\* An engine that is ready has all that no operation was refused for.
LEMMA ReadyIsComplete == EnginesInv => EngineIsComplete
BY DEF EnginesInv, EngineIsComplete, AuthSteps, CvSteps, SymbolsSought, TeeSteps, CvHandles

-----------------------------------------------------------------------------
\* The composition is the engines and is the camera.
LEMMA LoopsAreEngines == LoopsSpec => EnginesSpec
<1>1. LoopsInit => EnginesInit
  BY DEF LoopsInit
<1>2. [LoopsNext]_allVars => [EnginesNext]_engineVars
  BY DEF LoopsNext, allVars, LoopStarts, CameraSteps, EnginesStep, LoopCallsMissing,
         EnginesNext
<1> QED BY <1>1, <1>2, PTL DEF LoopsSpec, EnginesSpec

\* The loops of operations are one loop after another to the camera: bringing engines
\* up between them is a stutter.
THEOREM LoopsAreCamera == LoopsSpec => Spec
<1>1. LoopsInit => Init
  BY DEF LoopsInit
<1>2. [LoopsNext]_allVars => [Next]_vars
  BY DEF LoopsNext, allVars, LoopStarts, CameraSteps, EnginesStep, LoopCallsMissing, Next
<1> QED BY <1>1, <1>2, PTL DEF LoopsSpec, Spec

\* The engines' invariant holds whatever the camera does.
THEOREM EnginesInvHolds == LoopsSpec => []EnginesInv
<1>1. EnginesSpec => []EnginesInv
  BY EnginesStart, EnginesKeepInv, PTL DEF EnginesSpec
<1> QED BY <1>1, LoopsAreEngines, PTL

\* No session of faceapp is lost, whichever attempts fail.
THEOREM AppsAreAccounted == LoopsSpec => []AppsAccounted
<1>1. EnginesInv => AppsAccounted
  BY DEF EnginesInv
<1> QED BY <1>1, EnginesInvHolds, PTL

\* The stock app's name is taken off the process on every way out of init.
THEOREM CmdlineRestored == LoopsSpec => []CmdlineIsOwn
<1>1. EnginesInv => CmdlineIsOwn
  BY DEF EnginesInv
<1> QED BY <1>1, EnginesInvHolds, PTL

\* A frame loop keeps the engine it was prepared with throughout, and that lacks
\* nothing but mHackness or function pointers, and those only after an operation was
\* refused for them.
THEOREM LoopsHaveEngines == LoopsSpec => []LoopHasItsEngine
<1> DEFINE Ready == pc # "off" => step \in {"ready", "dead"}
<1>1. LoopsInit => Ready
  BY DEF LoopsInit, Init
<1>2. Ready /\ [LoopsNext]_allVars => Ready'
  BY DEF LoopsNext, allVars, vars, engineVars, LoopStarts, CameraSteps, EnginesStep, Worker,
     OpenCamera, Configure, CreateCaptureSession, SetRepeatingRequest, BeginFails, NextFrame,
     WaitEnds, FrameOrFailure, LookAtFrame, StopDevice, DeleteReader, ReleasePreview,
     ImageAcquired, ImageListener, PreviewRendered, FramePublished, DeviceFails, ShouldStop,
     DeadlinePasses, Looping, LoopCallsMissing, LoopDies, MissingSymbol
<1>3. LoopsSpec => []Ready
  BY <1>1, <1>2, PTL DEF LoopsSpec
<1>4. Ready /\ EngineIsComplete => LoopHasItsEngine
  BY DEF LoopHasItsEngine
<1> QED BY <1>3, <1>4, EnginesInvHolds, ReadyIsComplete, PTL
=============================================================================
