---------------------------- MODULE Fingerprint ----------------------------
(***************************************************************************)
(* The fingerprint HAL (hidl/fingerprint/BiometricsFingerprint.cpp): one   *)
(* binder thread, on which the framework's calls run one after another,    *)
(* and the vendor library's thread, which calls notify at any time.        *)
(*                                                                         *)
(* A method is the list of the writes it makes outside the process, to the *)
(* panel's nodes, to the vendor's fingerprint service and to the library;  *)
(* the two threads interleave between any two of them, and the process may *)
(* die there.  Nodes and vendor service outlive it; init starts it again.  *)
(***************************************************************************)
EXTENDS Integers, Sequences

CONSTANTS Clients,      \* the callbacks setNotify is given
          Messages,     \* what the library notifies: [type, data]
          NoClient,     \* a null mClientCallback
          MaxDeaths,    \* bound: deaths of the process
          MaxCalls      \* bound: calls of the framework

ASSUME FingerprintAssumption ==
    /\ NoClient \notin Clients
    /\ Messages \subseteq [type : STRING, data : Int]
    /\ MaxDeaths \in Nat
    /\ MaxCalls \in Nat

VARIABLES
    process,     \* how far main and the constructor are
    sInstance,   \* sInstance is set
    instances,   \* objects constructed in this process
    registered,  \* the library has notify
    mDevice,     \* mDevice is not null
    mClientCallback,    \* mClientCallback
    isCancelled, \* isCancelled
    todo,        \* the writes the method at hand has still to make
    notifier,    \* the library's thread in notify: step, message, client
    nodes,       \* the panel's nodes
    longPress,   \* the vendor's service reacts to a long press
    enrolling,   \* ... and was told that an enrollment goes on
    calls,       \* calls so far
    deaths,      \* deaths of the process so far
    finger,      \* history: the last of onFingerDown and onFingerUp was down
    settled,     \* history: a result for the touch that is on was told
    last,        \* history: the last call that was not about the finger
    owed,        \* history: a cancel, and no postEnroll since, in this process
    cut          \* history: what a death may have left half done

panel   == <<nodes, longPress, enrolling>>
object  == <<sInstance, instances, registered, mDevice>>
history == <<finger, settled, last, owed, cut>>
vars == <<process, sInstance, instances, registered, mDevice, mClientCallback,
          isCancelled, todo, notifier, nodes, longPress, enrolling, calls, deaths, finger,
          settled, last, owed, cut>>

NodeNames == {"auth_status", "notify_dim", "notify_fppress", "power_status"}

\* The statuses the vendor's service is told.
OP_ENABLE_FP_LONGPRESS  == 3
OP_DISABLE_FP_LONGPRESS == 4
OP_RESUME_FP_ENROLL     == 8
OP_FINISH_FP_ENROLL     == 10

\* A write to a node, an updateStatus and a call into the library.
Write(path, value) == [to |-> path, value |-> value]
Status(op)         == [to |-> "vendor", value |-> op]
Device             == [to |-> "device", value |-> 0]

Effects == [to : NodeNames, value : 0 .. 2]
              \cup [to : {"vendor"}, value : {3, 4, 8, 10}] \cup {Device}

NoMessage == [type |-> "none", data |-> 0]

Asleep == [at |-> "library", msg |-> NoMessage, to |-> NoClient]

\* The binder thread is between two calls.
Idle == process = "serving" /\ todo = <<>>
-----------------------------------------------------------------------------
(* Bringing the service up.                                                *)

\* (mutant) The instance is remembered once it is constructed.
ConstructUnannounced ==
    /\ process = "down"
    /\ process' = "opening"
    /\ instances' = instances + 1
    /\ UNCHANGED <<sInstance, registered, mDevice, mClientCallback, isCancelled, todo,
                   notifier, panel, calls, deaths, history>>

\* getInstance in main: the constructor sets sInstance before anything else.
Construct ==
    /\ process = "down"
    /\ process' = "opening"
    /\ sInstance' = TRUE
    /\ instances' = instances + 1
    /\ UNCHANGED <<registered, mDevice, mClientCallback, isCancelled, todo, notifier,
                   panel, calls, deaths, history>>

\* (mutant) The device is looked over once the library has notify.
OpenHalNotifiesFirst ==
    /\ \/ /\ process = "opening"
          /\ \/ process' = "fetching" /\ UNCHANGED registered
             \/ process' = "notified" /\ registered' = TRUE
          /\ UNCHANGED mDevice
       \/ /\ process = "notified"
          /\ process' = "fetching"
          /\ mDevice' \in BOOLEAN
          /\ UNCHANGED registered
    /\ UNCHANGED <<sInstance, instances, mClientCallback, isCancelled, todo, notifier,
                   panel, calls, deaths, history>>

\* openHal: there is no module, no device of this version or no set_notify; or the
\* library has notify, from within set_notify on, and the device is returned.
OpenHal ==
    /\ \/ /\ process = "opening"
          /\ \/ process' = "fetching" /\ UNCHANGED registered
             \/ process' = "notified" /\ registered' = TRUE
          /\ UNCHANGED mDevice
       \/ /\ process = "notified"
          /\ process' = "fetching"
          /\ mDevice' = TRUE
          /\ UNCHANGED registered
    /\ UNCHANGED <<sInstance, instances, mClientCallback, isCancelled, todo, notifier,
                   panel, calls, deaths, history>>

\* The vendor's service was found and this one is registered, device or not.
Serve ==
    /\ process = "fetching"
    /\ process' = "serving"
    /\ sInstance' = TRUE
    /\ UNCHANGED <<instances, registered, mDevice, mClientCallback, isCancelled, todo,
                   notifier, panel, calls, deaths, history>>

\* The process is gone, whatever its threads were doing, and with it the object.
Dies ==
    /\ process' = "down"
    /\ sInstance' = FALSE
    /\ instances' = 0
    /\ registered' = FALSE
    /\ mDevice' = FALSE
    /\ mClientCallback' = NoClient
    /\ isCancelled' = 0
    /\ todo' = <<>>
    /\ notifier' = Asleep
    /\ deaths' = deaths + 1
    /\ owed' = FALSE
    /\ cut' = {"press", "longPress"}
    /\ last' = "none"

\* The library takes the process down.
LibraryCrash ==
    /\ process # "down"
    /\ deaths < MaxDeaths
    /\ Dies
    /\ UNCHANGED <<panel, calls, finger, settled>>
-----------------------------------------------------------------------------
(* The framework's calls, on the binder thread.                            *)

\* A method: what it does inside the process, and the writes it has to make.
Method(name, writes) ==
    /\ Idle
    /\ calls < MaxCalls
    /\ calls' = calls + 1
    /\ todo' = writes
    /\ last' = name
    /\ UNCHANGED <<process, object, mClientCallback, notifier, panel, deaths, finger,
                   settled>>

PreEnroll ==
    /\ Method("preEnroll", <<Write("power_status", 1), Device>>)
    /\ UNCHANGED <<isCancelled, owed, cut>>

Enroll ==
    /\ Method("enroll", <<Write("notify_dim", 1), Status(OP_DISABLE_FP_LONGPRESS),
                          Status(OP_RESUME_FP_ENROLL), Device>>)
    /\ cut' = cut \ {"longPress"}
    /\ UNCHANGED <<isCancelled, owed>>

PostEnroll ==
    /\ Method("postEnroll", <<Write("notify_dim", 0), Status(OP_FINISH_FP_ENROLL),
                              Status(OP_ENABLE_FP_LONGPRESS), Device>>)
    /\ owed' = FALSE
    /\ cut' = cut \ {"longPress"}
    /\ UNCHANGED isCancelled

\* (mutant) cancel does not give the long press back.
CancelKeepingLongPress ==
    /\ Method("cancel", <<Write("notify_dim", 0), Status(OP_FINISH_FP_ENROLL),
                          Write("auth_status", 2), Device>>)
    /\ isCancelled' = 1
    /\ owed' = TRUE
    /\ cut' = cut \ {"longPress"}

Cancel ==
    /\ Method("cancel", <<Write("notify_dim", 0), Status(OP_FINISH_FP_ENROLL),
                          Status(OP_ENABLE_FP_LONGPRESS), Write("auth_status", 2),
                          Device>>)
    /\ isCancelled' = 1
    /\ owed' = TRUE
    /\ cut' = cut \ {"longPress"}

\* An authentication that follows a cancel lights the screen again.
Authenticate ==
    /\ Method("authenticate",
              IF isCancelled # 0
                 THEN <<Write("power_status", 1), Write("notify_dim", 1),
                        Write("auth_status", 0), Status(OP_ENABLE_FP_LONGPRESS), Device>>
                 ELSE <<Write("power_status", 1), Write("auth_status", 1),
                        Status(OP_ENABLE_FP_LONGPRESS), Device>>)
    /\ cut' = cut \ {"longPress"}
    /\ UNCHANGED <<isCancelled, owed>>

\* enumerate, remove, getAuthenticatorId and, its path accepted, setActiveGroup.
Query ==
    /\ Method("query", <<Device>>)
    /\ UNCHANGED <<isCancelled, owed, cut>>

\* (mutant) setNotify does not take mClientCallbackMutex.
SetNotifyUnlocked ==
    /\ Idle
    /\ calls < MaxCalls
    /\ calls' = calls + 1
    /\ \E c \in Clients : mClientCallback' = c
    /\ UNCHANGED <<process, object, isCancelled, todo, notifier, panel, deaths, history>>

\* setNotify waits for the notification that holds mClientCallbackMutex.
SetNotify ==
    /\ Idle
    /\ calls < MaxCalls
    /\ calls' = calls + 1
    /\ notifier.at \notin {"calling", "lifting"}
    /\ \E c \in Clients : mClientCallback' = c
    /\ UNCHANGED <<process, object, isCancelled, todo, notifier, panel, deaths, history>>
-----------------------------------------------------------------------------
(* The finger, as the framework reports it.                                *)

Finger(down, writes) ==
    /\ Idle
    /\ calls < MaxCalls
    /\ calls' = calls + 1
    /\ todo' = writes
    /\ finger' = down
    /\ settled' = (notifier.at = "lifting")
    /\ cut' = cut \ {"press"}
    /\ UNCHANGED <<process, object, mClientCallback, notifier, panel, deaths, last, owed>>

\* (mutant) Without the workaround for authentication within an application.
OnFingerDownWithoutDim ==
    /\ Finger(TRUE, <<Write("notify_fppress", 1)>>)
    /\ isCancelled' = 0

OnFingerDown ==
    /\ Finger(TRUE, <<Write("notify_dim", 1), Write("notify_fppress", 1)>>)
    /\ isCancelled' = 0

OnFingerUp ==
    /\ Finger(FALSE, <<Write("notify_fppress", 0)>>)
    /\ UNCHANGED isCancelled

\* What is reported while there is no service is lost.
FingerUnheard ==
    /\ process # "serving"
    /\ finger
    /\ finger' = FALSE
    /\ UNCHANGED <<process, object, mClientCallback, isCancelled, todo, notifier, panel,
                   calls, deaths, settled, last, owed, cut>>
-----------------------------------------------------------------------------
(* The next write of the method at hand.                                   *)

WritesNode(e) ==
    /\ e.to \in NodeNames
    /\ nodes' = [nodes EXCEPT ![e.to] = e.value]
    /\ UNCHANGED <<longPress, enrolling>>

UpdatesStatus(e) ==
    /\ e.to = "vendor"
    /\ \/ e.value = OP_ENABLE_FP_LONGPRESS  /\ longPress' = TRUE  /\ UNCHANGED enrolling
       \/ e.value = OP_DISABLE_FP_LONGPRESS /\ longPress' = FALSE /\ UNCHANGED enrolling
       \/ e.value = OP_RESUME_FP_ENROLL     /\ enrolling' = TRUE  /\ UNCHANGED longPress
       \/ e.value = OP_FINISH_FP_ENROLL     /\ enrolling' = FALSE /\ UNCHANGED longPress
    /\ UNCHANGED nodes

\* A call into the library; without a device it is a null pointer's.
Effect ==
    /\ todo # <<>>
    /\ \/ /\ WritesNode(Head(todo)) \/ UpdatesStatus(Head(todo))
          /\ todo' = Tail(todo)
          /\ UNCHANGED <<process, object, mClientCallback, isCancelled, notifier, calls,
                         deaths, history>>
       \/ /\ Head(todo).to = "device" /\ mDevice
          /\ todo' = Tail(todo)
          /\ UNCHANGED <<process, object, mClientCallback, isCancelled, notifier, panel,
                         calls, deaths, history>>
       \/ /\ Head(todo).to = "device" /\ ~mDevice
          /\ deaths < MaxDeaths
          /\ Dies
          /\ UNCHANGED <<panel, calls, finger, settled>>
-----------------------------------------------------------------------------
(* notify, on the library's thread.                                        *)

VendorBase == 1000   \* FINGERPRINT_ERROR_VENDOR_BASE, ..._ACQUIRED_VENDOR_BASE

\* The library's own finger down and finger up, which the framework is not told.
Hidden(m) == m.type = "ACQUIRED" /\ m.data - VendorBase \in {0, 1}

\* For the framework the touch has led to something.
Conclusive(m) == m.type = "ERROR" \/ (m.type = "AUTHENTICATED" /\ m.data # 0)

\* (mutant) The flag is taken back after any authentication result.
LiftsAfterResult(m) == m.type \in {"ERROR", "AUTHENTICATED"}

\* The results after which the panel's press flag is taken back.
Lifts(m) == m.type = "ERROR" \/ (m.type = "AUTHENTICATED" /\ m.data # 0)

Notify ==
    /\ registered
    /\ notifier = Asleep
    /\ \E m \in Messages : notifier' = [at |-> "entered", msg |-> m, to |-> NoClient]
    /\ UNCHANGED <<process, object, mClientCallback, isCancelled, todo, panel, calls,
                   deaths, history>>

\* getInstance, which constructs an object where there is none yet; then the lock.
\* Nobody is told before there is a client.
NotifyLocks ==
    /\ notifier.at = "entered"
    /\ sInstance' = TRUE
    /\ instances' = IF sInstance THEN instances ELSE instances + 1
    /\ notifier' = IF mClientCallback = NoClient \/ Hidden(notifier.msg)
                      THEN Asleep
                      ELSE [notifier EXCEPT !.at = "calling", !.to = mClientCallback]
    /\ UNCHANGED <<process, registered, mDevice, mClientCallback, isCancelled, todo,
                   panel, calls, deaths, history>>

\* The client's callback, on to onFingerUp with the lock still held, or done.
NotifyCalls ==
    /\ notifier.at = "calling"
    /\ settled' = (settled \/ Conclusive(notifier.msg))
    /\ notifier' = IF Lifts(notifier.msg)
                      THEN [notifier EXCEPT !.at = "lifting"] ELSE Asleep
    /\ UNCHANGED <<process, object, mClientCallback, isCancelled, todo, panel, calls,
                   deaths, finger, last, owed, cut>>

NotifyLifts ==
    /\ notifier.at = "lifting"
    /\ nodes' = [nodes EXCEPT !["notify_fppress"] = 0]
    /\ notifier' = Asleep
    /\ UNCHANGED <<process, object, mClientCallback, isCancelled, todo, longPress,
                   enrolling, calls, deaths, history>>
-----------------------------------------------------------------------------
Init ==
    /\ process = "down"
    /\ sInstance = FALSE
    /\ instances = 0
    /\ registered = FALSE
    /\ mDevice = FALSE
    /\ mClientCallback = NoClient
    /\ isCancelled = 0
    /\ todo = <<>>
    /\ notifier = Asleep
    /\ nodes = [n \in NodeNames |-> 0]
    /\ longPress = TRUE
    /\ enrolling = FALSE
    /\ calls = 0
    /\ deaths = 0
    /\ finger = FALSE
    /\ settled = FALSE
    /\ last = "none"
    /\ owed = FALSE
    /\ cut = {}

Next ==
    \/ Construct \/ OpenHal \/ Serve \/ LibraryCrash
    \/ PreEnroll \/ Enroll \/ PostEnroll \/ Cancel \/ Authenticate \/ Query \/ SetNotify
    \/ OnFingerDown \/ OnFingerUp \/ FingerUnheard
    \/ Effect
    \/ Notify \/ NotifyLocks \/ NotifyCalls \/ NotifyLifts

Spec == Init /\ [][Next]_vars
-----------------------------------------------------------------------------
TypeOK ==
    /\ process \in {"down", "opening", "notified", "fetching", "serving"}
    /\ sInstance \in BOOLEAN /\ registered \in BOOLEAN /\ mDevice \in BOOLEAN
    /\ instances \in Nat
    /\ mClientCallback \in Clients \cup {NoClient}
    /\ isCancelled \in {0, 1}
    /\ todo \in Seq(Effects)
    /\ notifier \in [at : {"library", "entered", "calling", "lifting"},
                     msg : Messages \cup {NoMessage}, to : Clients \cup {NoClient}]
    /\ nodes \in [NodeNames -> 0 .. 2]
    /\ longPress \in BOOLEAN /\ enrolling \in BOOLEAN
    /\ calls \in 0 .. MaxCalls
    /\ deaths \in 0 .. MaxDeaths
    /\ finger \in BOOLEAN /\ settled \in BOOLEAN /\ owed \in BOOLEAN
    /\ last \in {"none", "preEnroll", "enroll", "postEnroll", "cancel",
                 "authenticate", "query"}
    /\ cut \subseteq {"press", "longPress"}

\* A process has one object and the library is opened once: a notification that
\* arrives before the constructor has returned finds sInstance set and does not
\* construct another (getInstance, called by main and by notify).
OneInstance == instances <= 1

\* A notification that is being delivered carries the id of an open device, and the
\* client it goes to is the registered one until the press flag has been taken
\* back: setNotify does not return in the middle of a notification to its
\* predecessor (notify and setNotify, mClientCallbackMutex).
DeviceIdValid == notifier.at \in {"calling", "lifting"} => mDevice
ClientStays ==
    notifier.at \in {"calling", "lifting"} => /\ notifier.to = mClientCallback
                                              /\ mClientCallback # NoClient

\* The panel's press flag is up only under a finger, and a finger on the sensor
\* loses it only when the framework was told of a success or an error since it came
\* down, or came down while notify was between that callback and its own
\* onFingerUp.  A death leaves the flag as it is until the next report.
PressFollowsFinger ==
    Idle /\ "press" \notin cut =>
        /\ nodes["notify_fppress"] = 1 => finger
        /\ finger /\ nodes["notify_fppress"] = 0 => settled

\* The long press is off only during an enrollment: whatever the order of enroll,
\* postEnroll, cancel and authenticate, none leaves it off without one.  A death in
\* the middle of a call leaves it as it is until the next of these calls.
LongPressOffWhileEnrolling ==
    Idle /\ "longPress" \notin cut => (~longPress => enrolling)

\* An authentication after a cancel has the screen dimmed when it begins, whether a
\* finger that came late has cleared isCancelled in between or not.
DimmedAfterCancel ==
    Idle /\ last = "authenticate" /\ owed => nodes["notify_dim"] = 1
=============================================================================
