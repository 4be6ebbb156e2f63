----------------------------- MODULE FaceEngines -----------------------------
(***************************************************************************)
(* Bringing up what looks at the frames: the st_auth library               *)
(* (aidl/face/AuthEngine.cpp) with its channel to faceapp (AuthTee.cpp),   *)
(* or the detection pipeline (FaceEngine.cpp) with its own two sessions of *)
(* faceapp (FaceTee.cpp).  Session::prepare and Session::removeFeature run *)
(* here, under Hardware.lock, and any call may fail; what one attempt left *)
(* behind is what the next operation's attempt starts from.  A behaviour is *)
(* the life of one process.                                                *)
(*                                                                         *)
(* FaceLoops composes this with the camera.                                *)
(***************************************************************************)
EXTENDS Naturals, FiniteSets

CONSTANT MaxTries   \* attempts at starting faceapp (5 times 2 paths in the code)

ASSUME EnginesAssumption == MaxTries \in Nat \ {0}

VARIABLES
    backend,   \* what Session finds: st_auth or not, the TEE or not
    step,      \* where the worker is in prepare or removeFeature
    erasing,   \* it is removeFeature
    tries,     \* failed attempts at starting faceapp in this call
    members,   \* the pointers and flags that are set
    leaked,    \* handles overwritten while not null: never destroyed
    apps,      \* sessions of faceapp that run
    stAuth,    \* st_auth has been initialized
    cmdline,   \* whose name /proc/self/cmdline shows
    refused    \* history: what an init was refused for and no later one looks at

engineVars == <<backend, step, erasing, tries, members, leaked, apps, stAuth, cmdline,
                refused>>
-----------------------------------------------------------------------------
\* AuthEngine::available, AuthEngine::mUseTee and Session's useTee.
Backends  == {"auth_tee", "auth", "tee", "data"}
Available == backend \in {"auth_tee", "auth"}
UseTee    == backend \in {"auth_tee", "tee"}

\* The handles of sessions of faceapp: AuthTee's and FaceTee's.
AppHandles == {"sHandle", "mFeatureHandle", "mFrameHandle"}

\* FaceEngine's handles.
CvHandles == {"mDetector", "mDetector640", "mOcular", "mVerify", "mHackness"}

\* "symbols": all of FaceEngine's function pointers are set.
EngineMembers == {"AuthEngine.mLib", "mInitialized", "sStartApp", "FaceEngine.mLib",
                  "symbols", "FaceTee.mLib"} \cup AppHandles \cup CvHandles

\* A step is named for the function it is in, or for the handle it is about to get;
\* "dead": the process is no more.
EngineSteps == {"off", "ready", "dead",
                "AuthEngine::init", "initLicense", "setTeeCommunicationFunc", "authInit",
                "deinit", "AuthTee::close",
                "FaceEngine::init", "models", "FaceTee::open"} \cup AppHandles \cup CvHandles

\* The libraries stay loaded; the next step is taken.
Loads(lib, next) ==
    /\ members' = members \cup {lib}
    /\ step' = next

\* (mutant) An attempt that brought a handle without a buffer is just repeated.
TriesAgainOver(handle, failing) ==
    /\ handle \notin members
    /\ apps' \in {apps, apps + 1}
    /\ UNCHANGED members
    /\ IF tries + 1 < MaxTries THEN tries' = tries + 1 /\ UNCHANGED step
                               ELSE tries' = 0 /\ step' = failing

\* An attempt that brings no handle, or one without a buffer, which is shut down
\* again, leaves no session; the last one gives up.
TriesAgain(handle, failing) ==
    /\ handle \notin members
    /\ UNCHANGED <<members, apps>>
    /\ IF tries + 1 < MaxTries THEN tries' = tries + 1 /\ UNCHANGED step
                               ELSE tries' = 0 /\ step' = failing

\* QSEECom_start_app brings a handle with a buffer.
StartsApp(handle, next) ==
    /\ handle \notin members
    /\ members' = members \cup {handle}
    /\ apps' = apps + 1
    /\ tries' = 0
    /\ step' = next
-----------------------------------------------------------------------------
(* Session::prepare and Session::removeFeature.                            *)

\* The pipeline is up; with the TEE, FaceTee::open follows.
AfterEngine == IF UseTee THEN "FaceTee::open" ELSE "ready"

\* All is open.  What is to be erased is, and that operation is over.
AllOpen == IF erasing THEN "off" ELSE "ready"

\* Before a frame loop: AuthEngine::init, or FaceEngine::init and FaceTee::open.
\* What is up already is not brought up again.
Prepare ==
    /\ step = "off"
    /\ erasing' = FALSE
    /\ step' = IF Available
                  THEN IF "mInitialized" \in members THEN "ready" ELSE "AuthEngine::init"
                  ELSE IF "mVerify" \in members THEN AfterEngine ELSE "FaceEngine::init"
    /\ UNCHANGED <<backend, tries, members, leaked, apps, stAuth, cmdline, refused>>

\* Before a template is erased: AuthEngine::init or FaceTee::open; a file needs none.
RemoveFeature ==
    /\ step = "off"
    /\ erasing' = TRUE
    /\ step' = IF Available
                  THEN IF "mInitialized" \in members THEN "off" ELSE "AuthEngine::init"
                  ELSE IF UseTee THEN "FaceTee::open" ELSE "off"
    /\ UNCHANGED <<backend, tries, members, leaked, apps, stAuth, cmdline, refused>>

\* An operation that was ready goes no further.
Done ==
    /\ step = "ready"
    /\ step' = "off"
    /\ UNCHANGED <<backend, erasing, tries, members, leaked, apps, stAuth, cmdline, refused>>
-----------------------------------------------------------------------------
(* AuthEngine::init.                                                       *)

\* loadSymbols, and withStockCmdline: the command line may have no room for the name.
AuthLoads ==
    /\ step = "AuthEngine::init"
    /\ \/ Loads("AuthEngine.mLib", "initLicense") /\ cmdline' = "stock"
       \/ Loads("AuthEngine.mLib", "deinit") /\ UNCHANGED cmdline
       \/ /\ "AuthEngine.mLib" \notin members
          /\ step' = "off"
          /\ UNCHANGED <<members, cmdline>>
    /\ UNCHANGED <<backend, erasing, tries, leaked, apps, stAuth, refused>>

\* initLocked returns false: the command line is put back, and deinit is called.
AuthFails ==
    /\ step' = "deinit"
    /\ cmdline' = "own"
    /\ UNCHANGED <<backend, erasing, tries, members, leaked, apps, stAuth, refused>>

\* One of the licences is accepted.
AuthLicense ==
    /\ step = "initLicense"
    /\ \/ /\ step' = IF UseTee THEN "sHandle" ELSE "authInit"
          /\ UNCHANGED <<backend, erasing, tries, members, leaked, apps, stAuth, cmdline, refused>>
       \/ AuthFails

\* AuthTee::open: its load, then the attempts.
AuthTeeOpen ==
    /\ step = "sHandle"
    /\ IF "sStartApp" \notin members
          THEN \/ /\ Loads("sStartApp", "sHandle")
                  /\ UNCHANGED <<tries, apps, cmdline>>
               \/ /\ step' = "deinit"
                  /\ cmdline' = "own"
                  /\ UNCHANGED <<tries, members, apps>>
          ELSE /\ \/ StartsApp("sHandle", "setTeeCommunicationFunc")
                  \/ TriesAgain("sHandle", "deinit")
               /\ cmdline' = IF step' = "deinit" THEN "own" ELSE cmdline
    /\ UNCHANGED <<backend, erasing, leaked, stAuth, refused>>

SetTeeCommunicationFunc ==
    /\ step = "setTeeCommunicationFunc"
    /\ \/ /\ step' = "authInit"
          /\ UNCHANGED <<backend, erasing, tries, members, leaked, apps, stAuth, cmdline, refused>>
       \/ AuthFails

AuthInit ==
    /\ step = "authInit"
    /\ \/ /\ step' = AllOpen
          /\ stAuth' = TRUE
          /\ members' = members \cup {"mInitialized"}
          /\ cmdline' = "own"
          /\ UNCHANGED <<backend, erasing, tries, leaked, apps, refused>>
       \/ AuthFails

\* deinit: authDeinit, then AuthTee::close.
Deinit ==
    /\ \/ /\ step = "deinit"
          /\ stAuth' = FALSE
          /\ step' = "AuthTee::close"
          /\ UNCHANGED <<members, apps>>
       \/ /\ step = "AuthTee::close"
          /\ members' = members \ {"mInitialized", "sHandle"}
          /\ apps' = IF "sHandle" \in members THEN apps - 1 ELSE apps
          /\ step' = "off"
          /\ UNCHANGED stAuth
    /\ UNCHANGED <<backend, erasing, tries, leaked, cmdline, refused>>
-----------------------------------------------------------------------------
(* FaceEngine::init and FaceTee::open.                                     *)

\* withStockCmdline goes on, or the command line has no room for the name.
StockCmdline ==
    \/ step' = "models" /\ cmdline' = "stock"
    \/ step' = "off" /\ UNCHANGED cmdline

\* loadSymbols sets mLib before it looks for the symbols, and returns false when one
\* is missing; with mLib set no later init looks for them again.
EngineLoads ==
    /\ step = "FaceEngine::init"
    /\ \/ /\ "FaceEngine.mLib" \in members
          /\ StockCmdline
          /\ UNCHANGED <<members, refused>>
       \/ /\ "FaceEngine.mLib" \notin members
          /\ \/ /\ members' = members \cup {"FaceEngine.mLib", "symbols"}
                /\ StockCmdline
                /\ UNCHANGED refused
             \/ /\ members' = members \cup {"FaceEngine.mLib"}
                /\ refused' = refused \cup {"symbols"}
                /\ step' = "off"
                /\ UNCHANGED cmdline
             \/ /\ step' = "off"
                /\ UNCHANGED <<members, refused, cmdline>>
    /\ UNCHANGED <<backend, erasing, tries, leaked, apps, stAuth>>

\* A call through a function pointer that was not found.
MissingSymbol ==
    /\ ~Available
    /\ "symbols" \notin members
    /\ step' = "dead"
    /\ UNCHANGED <<backend, erasing, tries, members, leaked, apps, stAuth, cmdline, refused>>

\* initLocked calls the licence functions and the constructors ...
InitDies == step \in {"models"} \cup CvHandles /\ MissingSymbol

\* ... and the operation's frame loop all the others.
LoopDies == step = "ready" /\ MissingSymbol

\* (mutant) The verifier first, then the detectors.
CreatedFirstVerify ==
    [models |-> "mVerify", mVerify |-> "mDetector", mDetector |-> "mDetector640",
     mDetector640 |-> "mOcular", mOcular |-> "mHackness"]

\* The order in which initLocked creates the handles.
CreatedAfter ==
    [models |-> "mDetector", mDetector |-> "mDetector640", mDetector640 |-> "mOcular",
     mOcular |-> "mVerify", mVerify |-> "mHackness"]

\* The archive with its models and the licence, accepted by both libraries.
EngineModels ==
    /\ step = "models"
    /\ \/ step' = CreatedAfter["models"] /\ UNCHANGED cmdline
       \/ step' = "off" /\ cmdline' = "own"
    /\ UNCHANGED <<backend, erasing, tries, members, leaked, apps, stAuth, refused>>

\* (mutant) The command line is put back when all went well.
CreateInStockName ==
    /\ step \in CvHandles
    /\ \/ /\ members' = members \cup {step}
          /\ leaked' = leaked \cup (members \cap {step})
          /\ step' = IF step = "mHackness" THEN AfterEngine ELSE CreatedAfter[step]
          /\ cmdline' = IF step = "mHackness" THEN "own" ELSE cmdline
          /\ UNCHANGED refused
       \/ /\ refused' = refused \cup ({step} \cap {"mHackness"})
          /\ step' = "off"
          /\ UNCHANGED <<members, leaked, cmdline>>
    /\ UNCHANGED <<backend, erasing, tries, apps, stAuth>>

\* A handle is created, over the one an earlier attempt created, or its creation
\* fails and init with it.  With mVerify set there is no further attempt.
Create ==
    /\ step \in CvHandles
    /\ \/ /\ members' = members \cup {step}
          /\ leaked' = leaked \cup (members \cap {step})
          /\ step' = IF step = "mHackness" THEN AfterEngine ELSE CreatedAfter[step]
          /\ cmdline' = IF step = "mHackness" THEN "own" ELSE cmdline
          /\ UNCHANGED refused
       \/ /\ refused' = refused \cup ({step} \cap {"mHackness"})
          /\ step' = "off"
          /\ cmdline' = "own"
          /\ UNCHANGED <<members, leaked>>
    /\ UNCHANGED <<backend, erasing, tries, apps, stAuth>>

\* FaceTee::load.
FaceTeeLoads ==
    /\ step = "FaceTee::open"
    /\ \/ Loads("FaceTee.mLib", "mFeatureHandle")
       \/ /\ "FaceTee.mLib" \notin members
          /\ step' = "off"
          /\ UNCHANGED members
    /\ UNCHANGED <<backend, erasing, tries, leaked, apps, stAuth, cmdline, refused>>

\* FaceTee::start for the feature, then for the frames.  If the second fails the first
\* stays open for the next open.
FaceTeeStarts ==
    /\ step \in {"mFeatureHandle", "mFrameHandle"}
    /\ LET next == IF step = "mFeatureHandle" THEN "mFrameHandle" ELSE AllOpen
       IN  \/ step \in members /\ step' = next /\ UNCHANGED <<tries, members, apps>>
           \/ StartsApp(step, next)
           \/ TriesAgain(step, "off")
    /\ UNCHANGED <<backend, erasing, leaked, stAuth, cmdline, refused>>
-----------------------------------------------------------------------------
EnginesInit ==
    /\ backend \in Backends
    /\ step = "off"
    /\ erasing = FALSE
    /\ tries = 0
    /\ members = {}
    /\ leaked = {}
    /\ apps = 0
    /\ stAuth = FALSE
    /\ cmdline = "own"
    /\ refused = {}

\* The worker, from prepare on.
BringUp ==
    \/ AuthLoads \/ AuthLicense \/ AuthTeeOpen \/ SetTeeCommunicationFunc \/ AuthInit
    \/ Deinit
    \/ EngineLoads \/ EngineModels \/ Create
    \/ FaceTeeLoads \/ FaceTeeStarts

\* What happens outside the frame loops.
Operations == Prepare \/ RemoveFeature \/ Done \/ BringUp \/ InitDies

EnginesNext == Operations \/ LoopDies

EnginesSpec == EnginesInit /\ [][EnginesNext]_engineVars
-----------------------------------------------------------------------------
(* Properties.                                                             *)

\* Every variable has its type.
EnginesTypeOK ==
    /\ backend \in Backends
    /\ step \in EngineSteps
    /\ erasing \in BOOLEAN
    /\ tries \in 0 .. MaxTries - 1
    /\ members \subseteq EngineMembers
    /\ leaked \subseteq CvHandles
    /\ apps \in Nat
    /\ stAuth \in BOOLEAN
    /\ cmdline \in {"own", "stock"}
    /\ refused \subseteq {"mHackness", "symbols"}

\* Every session of faceapp that runs is held by a member, which is how the next
\* open finds it: failed attempts, a second session that does not start and a
\* library that does not come up leave none behind (AuthTee::open, FaceTee::start).
\* What a repeated init overwrites is not mVerify, and nothing when all went well.
AppsAccounted ==
    /\ apps = Cardinality(members \cap AppHandles)
    /\ leaked \subseteq {"mDetector", "mDetector640", "mOcular"}

\* The stock app's name is on the process only while a library looks at it
\* (withStockCmdline), whatever fails meanwhile.
CmdlineIsOwn ==
    step # "dead" =>
        (cmdline = "stock" <=>
            step \in {"initLicense", "sHandle", "setTeeCommunicationFunc", "authInit",
                      "models"} \cup CvHandles)

\* What an operation that prepare let through has, however many attempts failed
\* before and wherever: st_auth with the session it talks over, or the pipeline and,
\* with the TEE, both sessions.  All but two parts of the pipeline are always there.
\* mHackness and the function pointers are missing in some loops, because init looks
\* at mVerify and mLib only and lets the next operation through; but never before an
\* operation of this process was refused for that very part.
EngineIsComplete ==
    step = "ready" =>
        IF Available
           THEN /\ stAuth /\ "mInitialized" \in members
                /\ UseTee => "sHandle" \in members
           ELSE /\ CvHandles \ {"mHackness"} \subseteq members
                /\ {"mHackness", "symbols"} \ members \subseteq refused
                /\ UseTee => {"mFeatureHandle", "mFrameHandle"} \subseteq members
-----------------------------------------------------------------------------
(* The inductive invariant behind the three.                               *)

\* st_auth's steps are st_auth's, and it is initialized exactly when init says so.
AuthSteps ==
    /\ step \in {"AuthEngine::init", "initLicense", "sHandle", "setTeeCommunicationFunc",
                 "authInit", "deinit", "AuthTee::close"}
         => Available /\ "mInitialized" \notin members
    /\ step \in {"setTeeCommunicationFunc", "authInit"} /\ UseTee => "sHandle" \in members
    /\ "mInitialized" \in members => stAuth /\ (UseTee => "sHandle" \in members)
    /\ Available /\ step = "ready" => "mInitialized" \in members

\* What has been created at each step of initLocked, and by an earlier attempt.
CvSteps ==
    /\ step \in {"FaceEngine::init", "models", "mDetector", "mDetector640", "mOcular",
                 "mVerify"}
         => ~Available /\ ~erasing /\ "mVerify" \notin members
    /\ step = "mDetector640" => "mDetector" \in members
    /\ step = "mOcular" => {"mDetector", "mDetector640"} \subseteq members
    /\ step = "mVerify" => {"mDetector", "mDetector640", "mOcular"} \subseteq members
    /\ step = "mHackness" =>
         ~Available /\ ~erasing /\ "mVerify" \in members /\ "mHackness" \notin members
    /\ "mHackness" \in members => "mVerify" \in members
    /\ "mVerify" \in members =>
         /\ {"mDetector", "mDetector640", "mOcular"} \subseteq members
         /\ "mHackness" \in members \cup refused \/ step \in {"mHackness", "dead"}

\* A pipeline that is being created or is up was loaded, and what was loaded has its
\* symbols, or the init that loaded it was refused.
SymbolsSought ==
    /\ step \in {"models"} \cup CvHandles \/ "mVerify" \in members
         => "FaceEngine.mLib" \in members
    /\ "FaceEngine.mLib" \in members => "symbols" \in members \cup refused

\* FaceTee is opened for a removal, or over a pipeline that is up.
TeeSteps ==
    /\ step \in {"FaceTee::open", "mFeatureHandle", "mFrameHandle"}
         => ~Available /\ (erasing \/ "mVerify" \in members)
    /\ step = "mFrameHandle" => "mFeatureHandle" \in members
    /\ step = "ready" /\ ~Available =>
         /\ "mVerify" \in members
         /\ UseTee => {"mFeatureHandle", "mFrameHandle"} \subseteq members

EnginesInv ==
    /\ EnginesTypeOK
    /\ AppsAccounted
    /\ CmdlineIsOwn
    /\ AuthSteps
    /\ CvSteps
    /\ SymbolsSought
    /\ TeeSteps
=============================================================================
