------------------------- MODULE FingerprintProofs -------------------------
(***************************************************************************)
(* The fingerprint HAL for any clients, messages and number of calls and   *)
(* deaths.  The runs' invariants speak of the moments between two calls;   *)
(* the invariant proved here speaks of every moment, by what the method at *)
(* hand has still to write.                                                *)
(***************************************************************************)
EXTENDS Fingerprint, TLAPS

Has(s, e) == \E i \in 1 .. Len(s) : s[i] = e

Pending(e) == Has(todo, e)

Dim(v)   == Write("notify_dim", v)
Press(v) == Write("notify_fppress", v)

\* How far the service is, and what exists by then.
Bringing ==
    /\ sInstance <=> process # "down"
    /\ instances = IF sInstance THEN 1 ELSE 0
    /\ registered => \/ process = "notified"
                     \/ process \in {"fetching", "serving"} /\ mDevice
    /\ process # "serving" => mClientCallback = NoClient /\ todo = <<>>
    /\ process = "down" => notifier = Asleep
    /\ notifier.at # "library" => registered
    /\ ClientStays

FINISH  == Status(OP_FINISH_FP_ENROLL)
ENABLE  == Status(OP_ENABLE_FP_LONGPRESS)
DISABLE == Status(OP_DISABLE_FP_LONGPRESS)
RESUME  == Status(OP_RESUME_FP_ENROLL)

\* A status that takes something away is followed by the one that gives it back.
Orderly(s) ==
    \A i \in 1 .. Len(s) :
        /\ s[i] = FINISH  => i < Len(s) /\ s[i + 1] = ENABLE
        /\ s[i] = DISABLE => i < Len(s) /\ s[i + 1] = RESUME

LongPress ==
    /\ Orderly(todo)
    /\ "longPress" \notin cut /\ ~longPress =>
           \/ enrolling
           \/ Pending(RESUME)
           \/ Pending(ENABLE)

PressFlag ==
    /\ notifier.at = "lifting" => settled
    /\ process # "serving" => "press" \in cut \/ ~finger
    /\ \A v \in 0 .. 2 : Pending(Press(v)) => v = IF finger THEN 1 ELSE 0
    /\ "press" \notin cut =>
           /\ nodes["notify_fppress"] # 0 => finger \/ Pending(Press(0))
           /\ finger /\ nodes["notify_fppress"] = 0 => settled \/ Pending(Press(1))

Dimmed ==
    /\ Pending(Dim(0)) => /\ isCancelled # 0 \/ ~owed
                          /\ last \in {"cancel", "postEnroll"}
    /\ ~Pending(Dim(2))
    /\ owed /\ (isCancelled = 0 \/ last = "authenticate") =>
           nodes["notify_dim"] = 1 \/ Pending(Dim(1))

FInv == TypeOK /\ Bringing /\ LongPress /\ PressFlag /\ Dimmed

USE FingerprintAssumption
-----------------------------------------------------------------------------
(* Sequences of writes.                                                    *)

LEMMA TailHas ==
    ASSUME NEW s \in Seq(Effects), s # <<>>, NEW e
    PROVE  Has(s, e) <=> e = Head(s) \/ Has(Tail(s), e)
<1> USE DEF Has
<1>1. ASSUME NEW i \in 1 .. Len(s), s[i] = e  PROVE  e = Head(s) \/ Has(Tail(s), e)
  <2>1. CASE i = 1
    BY <1>1, <2>1
  <2>2. CASE i # 1
    <3>1. i - 1 \in 1 .. Len(Tail(s)) /\ Tail(s)[i - 1] = s[i]
      BY <2>2
    <3> QED
      BY <1>1, <3>1
  <2> QED
    BY <2>1, <2>2
<1>2. e = Head(s) => Has(s, e)
  OBVIOUS
<1>3. ASSUME NEW i \in 1 .. Len(Tail(s)), Tail(s)[i] = e  PROVE  Has(s, e)
  <2>1. i + 1 \in 1 .. Len(s) /\ s[i + 1] = Tail(s)[i]
    OBVIOUS
  <2> QED
    BY <1>3, <2>1
<1> QED
  BY <1>1, <1>2, <1>3

LEMMA TailOrderly ==
    ASSUME NEW s \in Seq(Effects), s # <<>>, Orderly(s)
    PROVE  /\ Orderly(Tail(s))
           /\ Head(s) = FINISH => Has(Tail(s), ENABLE)
           /\ Head(s) = DISABLE => Has(Tail(s), RESUME)
<1>1. \A i \in 1 .. Len(Tail(s)) : i + 1 \in 1 .. Len(s) /\ Tail(s)[i] = s[i + 1]
  OBVIOUS
<1>2. Orderly(Tail(s))
  BY <1>1 DEF Orderly
<1>3. 1 \in 1 .. Len(s) /\ Head(s) = s[1]
  OBVIOUS
<1>4. 1 < Len(s) => 1 \in 1 .. Len(Tail(s)) /\ Tail(s)[1] = s[2]
  OBVIOUS
<1> QED
  BY <1>2, <1>3, <1>4 DEF Orderly, Has

\* What the methods write.
LEMMA Methods ==
    ASSUME NEW a, NEW b, NEW c, NEW d, NEW f, NEW e
    PROVE  /\ ~Has(<<>>, e)
           /\ Has(<<a>>, e) <=> e = a
           /\ Has(<<a, b>>, e) <=> e \in {a, b}
           /\ Has(<<a, b, c>>, e) <=> e \in {a, b, c}
           /\ Has(<<a, b, c, d>>, e) <=> e \in {a, b, c, d}
           /\ Has(<<a, b, c, d, f>>, e) <=> e \in {a, b, c, d, f}
  BY DEF Has

Neutral(e) == e # FINISH /\ e # DISABLE

\* The shapes of the methods' lists.
LEMMA Lists ==
    ASSUME NEW a, NEW b, NEW c, NEW d, NEW f,
           Neutral(a), Neutral(b), Neutral(c), Neutral(d), Neutral(f)
    PROVE  /\ Orderly(<<>>) /\ Orderly(<<a>>) /\ Orderly(<<a, b>>)
           /\ Orderly(<<a, DISABLE, RESUME, b>>)
           /\ Orderly(<<a, FINISH, ENABLE, b>>)
           /\ Orderly(<<a, FINISH, ENABLE, b, c>>)
           /\ Orderly(<<a, b, c, d>>)
           /\ Orderly(<<a, b, c, d, f>>)
<1>1. Neutral(ENABLE) /\ Neutral(RESUME)
  BY DEF Neutral, FINISH, ENABLE, DISABLE, RESUME, Status, OP_FINISH_FP_ENROLL,
         OP_ENABLE_FP_LONGPRESS, OP_DISABLE_FP_LONGPRESS, OP_RESUME_FP_ENROLL
<1>2. FINISH # DISABLE
  BY DEF FINISH, DISABLE, Status, OP_FINISH_FP_ENROLL, OP_DISABLE_FP_LONGPRESS
<1> USE DEF Orderly, Neutral
<1>3. Orderly(<<>>) /\ Orderly(<<a>>) /\ Orderly(<<a, b>>)
  OBVIOUS
<1>4. Orderly(<<a, DISABLE, RESUME, b>>) /\ Orderly(<<a, FINISH, ENABLE, b>>)
  BY <1>1, <1>2
<1>5. Orderly(<<a, FINISH, ENABLE, b, c>>)
  BY <1>1, <1>2
<1>6. Orderly(<<a, b, c, d>>) /\ Orderly(<<a, b, c, d, f>>)
  OBVIOUS
<1> QED
  BY <1>3, <1>4, <1>5, <1>6
-----------------------------------------------------------------------------
(* The steps.  Where the lists do not matter a step follows from FInv.     *)

\* What a step leaves alone keeps the parts that speak of nothing else.
LEMMA Frame ==
    /\ LongPress /\ UNCHANGED <<todo, longPress, enrolling, cut>> => LongPress'
    /\ Dimmed /\ UNCHANGED <<todo, nodes, isCancelled, last, owed>> => Dimmed'
  BY DEF LongPress, Dimmed, Pending

LEMMA PressFrame ==
    ASSUME PressFlag, UNCHANGED <<todo, nodes, finger, settled, cut>>,
           notifier'.at = "lifting" => notifier.at = "lifting",
           process = "serving" => process' = "serving"
    PROVE  PressFlag'
  BY DEF PressFlag, Pending

LEMMA BringUpStep ==
    ASSUME FInv, Construct \/ OpenHal \/ Serve
    PROVE  FInv'
<1> USE DEF FInv, panel, history
<1>1. LongPress' /\ Dimmed' /\ PressFlag'
  BY Frame, PressFrame DEF Construct, OpenHal, Serve
<1>2. CASE Construct
  BY <1>1, <1>2 DEF TypeOK, Construct, Bringing, ClientStays, Asleep
<1>3. CASE OpenHal
  <2>1. process = "opening" => ~registered
    BY DEF Bringing
  <2>a. /\ process' \in {"opening", "notified", "fetching"}
        /\ registered' \in BOOLEAN /\ mDevice' \in BOOLEAN
    BY <1>3 DEF TypeOK, OpenHal
  <2>2. TypeOK'
    BY <1>3, <2>a DEF TypeOK, OpenHal
  <2>3. Bringing'
    BY <1>3, <2>1 DEF TypeOK, OpenHal, Bringing, ClientStays
  <2> QED
    BY <1>1, <2>2, <2>3
<1>4. CASE Serve
  BY <1>1, <1>4 DEF TypeOK, Serve, Bringing, ClientStays
<1> QED
  BY <1>2, <1>3, <1>4

LEMMA DiesStep ==
    ASSUME FInv, Dies, deaths < MaxDeaths, UNCHANGED <<panel, calls, finger, settled>>
    PROVE  FInv'
<1> USE DEF FInv, Dies, panel
<1>a. Asleep \in [at : {"library", "entered", "calling", "lifting"},
                  msg : Messages \cup {NoMessage}, to : Clients \cup {NoClient}]
  BY DEF Asleep
<1>b. deaths + 1 \in 0 .. MaxDeaths /\ <<>> \in Seq(Effects)
  BY DEF TypeOK
<1>1. TypeOK'
  BY <1>a, <1>b DEF TypeOK
<1>2. Bringing'
  BY DEF Bringing, ClientStays, Asleep
<1>3. Orderly(<<>>) /\ \A e : ~Has(<<>>, e)
  BY DEF Orderly, Has
<1>4. LongPress'
  BY <1>3 DEF LongPress
<1>5. PressFlag' /\ Dimmed'
  BY <1>3 DEF PressFlag, Dimmed, Pending, Asleep
<1> QED
  BY <1>1, <1>2, <1>4, <1>5

-----------------------------------------------------------------------------
(* The framework's calls.                                                  *)

LEMMA Written ==
    /\ {FINISH, ENABLE, DISABLE, RESUME, Device} \subseteq Effects
    /\ \A n \in NodeNames, v \in 0 .. 2 : Write(n, v) \in Effects
    /\ Neutral(ENABLE) /\ Neutral(RESUME) /\ Neutral(Device) /\ FINISH # DISABLE
    /\ \A n \in NodeNames, v \in 0 .. 2 : Neutral(Write(n, v))
    /\ \A n \in NodeNames, v \in 0 .. 2 :
           Write(n, v) \notin {FINISH, ENABLE, DISABLE, RESUME, Device}
    /\ \A n, k, v, w : Write(n, v) = Write(k, w) <=> n = k /\ v = w
    /\ {"auth_status", "notify_dim", "notify_fppress", "power_status"} = NodeNames
  BY DEF Effects, NodeNames, Neutral, Write, Device, Status, FINISH, ENABLE, DISABLE,
         RESUME, OP_FINISH_FP_ENROLL, OP_ENABLE_FP_LONGPRESS, OP_DISABLE_FP_LONGPRESS,
         OP_RESUME_FP_ENROLL

LEMMA MethodStep ==
    ASSUME FInv, NEW writes, NEW name,
           Method(name, writes), writes \in Seq(Effects), Orderly(writes),
           name \in {"preEnroll", "enroll", "postEnroll", "cancel", "authenticate", "query"},
           isCancelled' \in {0, 1}, owed' \in BOOLEAN,
           cut' = cut \/ cut' = cut \ {"longPress"},
           cut' # cut => Has(writes, RESUME) \/ Has(writes, ENABLE),
           \A v \in 0 .. 2 : ~Has(writes, Press(v)),
           ~Has(writes, Dim(2)),
           Has(writes, Dim(0)) => /\ isCancelled' # 0 \/ ~owed'
                                  /\ name \in {"cancel", "postEnroll"},
           owed' /\ (isCancelled' = 0 \/ name = "authenticate") =>
               nodes["notify_dim"] = 1 \/ Has(writes, Dim(1))
    PROVE  FInv'
<1> USE DEF FInv, Method, Idle, object, panel
<1>1. TypeOK'
  <2>1. calls + 1 \in 0 .. MaxCalls
    BY DEF TypeOK
  <2>2. cut' \subseteq {"press", "longPress"}
    BY DEF TypeOK
  <2>3. last' \in {"none", "preEnroll", "enroll", "postEnroll", "cancel",
                   "authenticate", "query"}
    OBVIOUS
  <2>4. UNCHANGED <<process, sInstance, instances, registered, mDevice, mClientCallback,
                    notifier, nodes, longPress, enrolling, deaths, finger, settled>>
    OBVIOUS
  <2> QED
    BY <2>1, <2>2, <2>3, <2>4 DEF TypeOK
<1>2. Bringing'
  BY DEF Bringing, ClientStays
<1>3. todo = <<>> /\ \A e : ~Has(<<>>, e)
  BY DEF Has
<1>4. LongPress'
  BY <1>3 DEF LongPress, Pending
<1>5. PressFlag'
  BY <1>3 DEF PressFlag, Pending
<1>6. Dimmed'
  BY <1>3 DEF Dimmed, Pending
<1> QED
  BY <1>1, <1>2, <1>4, <1>5, <1>6

LEMMA PreEnrollStep == ASSUME FInv, PreEnroll PROVE FInv'
<1> DEFINE writes == <<Write("power_status", 1), Device>>
<1>1. writes \in Seq(Effects)
  BY Written DEF Dim
<1>0. Orderly(writes)
  BY Written DEF Orderly, Neutral, Dim
<1>2. \A e : Has(writes, e) <=> e \in {Write("power_status", 1), Device}
  BY DEF Has
<1>3. Method("preEnroll", writes) /\ UNCHANGED <<isCancelled, owed, cut>> /\ todo = <<>>
  BY DEF PreEnroll, Method, Idle
<1>4. owed /\ isCancelled = 0 => nodes["notify_dim"] = 1
  BY <1>3 DEF FInv, Dimmed, Pending, Has
<1> HIDE DEF writes
<1> QED
  BY <1>0, <1>1, <1>2, <1>3, <1>4, MethodStep, Written
     DEF FInv, TypeOK, Press, Dim

LEMMA QueryStep == ASSUME FInv, Query PROVE FInv'
<1> DEFINE writes == <<Device>>
<1>1. writes \in Seq(Effects)
  BY Written DEF Dim
<1>0. Orderly(writes)
  BY Written DEF Orderly, Neutral, Dim
<1>2. \A e : Has(writes, e) <=> e = Device
  BY DEF Has
<1>3. Method("query", writes) /\ UNCHANGED <<isCancelled, owed, cut>> /\ todo = <<>>
  BY DEF Query, Method, Idle
<1>4. owed /\ isCancelled = 0 => nodes["notify_dim"] = 1
  BY <1>3 DEF FInv, Dimmed, Pending, Has
<1> HIDE DEF writes
<1> QED
  BY <1>0, <1>1, <1>2, <1>3, <1>4, MethodStep, Written
     DEF FInv, TypeOK, Press, Dim

LEMMA EnrollStep == ASSUME FInv, Enroll PROVE FInv'
<1> DEFINE writes == <<Dim(1), DISABLE, RESUME, Device>>
<1>1. writes \in Seq(Effects)
  BY Written DEF Dim
<1>0. Orderly(writes)
  BY Written DEF Orderly, Neutral, Dim
<1>2. \A e : Has(writes, e) <=> e \in {Dim(1), DISABLE, RESUME, Device}
  BY DEF Has
<1>3. Method("enroll", writes) /\ UNCHANGED <<isCancelled, owed>>
         /\ cut' = cut \ {"longPress"}
  BY DEF Enroll, Dim, DISABLE, RESUME
<1> HIDE DEF writes
<1> QED
  BY <1>0, <1>1, <1>2, <1>3, MethodStep, Written DEF FInv, TypeOK, Press, Dim

LEMMA PostEnrollStep == ASSUME FInv, PostEnroll PROVE FInv'
<1> DEFINE writes == <<Dim(0), FINISH, ENABLE, Device>>
<1>1. writes \in Seq(Effects)
  BY Written DEF Dim
<1>0. Orderly(writes)
  BY Written DEF Orderly, Neutral, Dim
<1>2. \A e : Has(writes, e) <=> e \in {Dim(0), FINISH, ENABLE, Device}
  BY DEF Has
<1>3. Method("postEnroll", writes) /\ UNCHANGED isCancelled
         /\ ~owed' /\ owed' \in BOOLEAN
         /\ cut' = cut \ {"longPress"}
  BY DEF PostEnroll, Dim, FINISH, ENABLE
<1>4. \A v \in 0 .. 2 : ~Has(writes, Press(v)) /\ (Has(writes, Dim(v)) => v = 0)
  BY <1>2, Written DEF Press, Dim
<1>5. Has(writes, ENABLE)
  BY <1>2
<1> HIDE DEF writes
<1> QED
  BY <1>0, <1>1, <1>3, <1>4, <1>5, MethodStep DEF FInv, TypeOK

LEMMA CancelStep == ASSUME FInv, Cancel PROVE FInv'
<1> DEFINE writes == <<Dim(0), FINISH, ENABLE, Write("auth_status", 2), Device>>
<1>1. writes \in Seq(Effects)
  BY Written DEF Dim
<1>0. Orderly(writes)
  BY Written DEF Orderly, Neutral, Dim
<1>2. \A e : Has(writes, e) <=>
                e \in {Dim(0), FINISH, ENABLE, Write("auth_status", 2), Device}
  BY DEF Has
<1>3. Method("cancel", writes) /\ isCancelled' = 1 /\ owed' = TRUE
         /\ cut' = cut \ {"longPress"}
  BY DEF Cancel, Dim, FINISH, ENABLE
<1>4. \A v \in 0 .. 2 : ~Has(writes, Press(v)) /\ (Has(writes, Dim(v)) => v = 0)
  BY <1>2, Written DEF Press, Dim
<1>5. Has(writes, ENABLE)
  BY <1>2
<1> HIDE DEF writes
<1> QED
  BY <1>0, <1>1, <1>3, <1>4, <1>5, MethodStep DEF FInv, TypeOK

LEMMA AuthenticateStep == ASSUME FInv, Authenticate PROVE FInv'
<1>1. todo = <<>> /\ UNCHANGED <<isCancelled, owed>> /\ cut' = cut \ {"longPress"}
  BY DEF Authenticate, Method, Idle
<1>2. CASE isCancelled # 0
  <2> DEFINE writes == <<Write("power_status", 1), Dim(1), Write("auth_status", 0),
                         ENABLE, Device>>
  <2>1. writes \in Seq(Effects)
    BY Written DEF Dim
  <2>0. Orderly(writes)
    BY Written DEF Orderly, Neutral, Dim
  <2>2. \A e : Has(writes, e) <=>
                  e \in {Write("power_status", 1), Dim(1), Write("auth_status", 0),
                         ENABLE, Device}
    BY DEF Has
  <2>3. Method("authenticate", writes)
    BY <1>2 DEF Authenticate, Dim, ENABLE
  <2> HIDE DEF writes
  <2> QED
    BY <1>1, <2>0, <2>1, <2>2, <2>3, MethodStep, Written
       DEF FInv, TypeOK, Press, Dim
<1>3. CASE isCancelled = 0
  <2> DEFINE writes == <<Write("power_status", 1), Write("auth_status", 1), ENABLE, Device>>
  <2>1. writes \in Seq(Effects)
    BY Written DEF Dim
  <2>0. Orderly(writes)
    BY Written DEF Orderly, Neutral, Dim
  <2>2. \A e : Has(writes, e) <=>
                  e \in {Write("power_status", 1), Write("auth_status", 1), ENABLE, Device}
    BY DEF Has
  <2>3. Method("authenticate", writes)
    BY <1>3 DEF Authenticate, ENABLE
  <2>4. owed => nodes["notify_dim"] = 1
    BY <1>1, <1>3 DEF FInv, Dimmed, Pending, Has
  <2> HIDE DEF writes
  <2> QED
    BY <1>1, <2>0, <2>1, <2>2, <2>3, <2>4, MethodStep, Written
       DEF FInv, TypeOK, Press, Dim
<1> QED
  BY <1>2, <1>3

LEMMA SetNotifyStep == ASSUME FInv, SetNotify PROVE FInv'
<1> USE DEF FInv, SetNotify, Idle, object, panel, history
<1>1. TypeOK'
  <2>1. calls + 1 \in 0 .. MaxCalls
    BY DEF TypeOK
  <2> QED
    BY <2>1 DEF TypeOK
<1>2. Bringing'
  BY DEF Bringing, ClientStays
<1>3. LongPress' /\ PressFlag' /\ Dimmed'
  BY Frame, PressFrame
<1> QED
  BY <1>1, <1>2, <1>3
-----------------------------------------------------------------------------
(* The finger.                                                             *)

LEMMA FingerStep ==
    ASSUME FInv, NEW down \in BOOLEAN, NEW writes \in Seq(Effects), Finger(down, writes),
           Orderly(writes), isCancelled' \in {0, 1},
           \A v \in 0 .. 2 : Has(writes, Press(v)) <=> v = IF down THEN 1 ELSE 0,
           ~Has(writes, Dim(0)), ~Has(writes, Dim(2)),
           isCancelled' = isCancelled \/ Has(writes, Dim(1))
    PROVE  FInv'
<1> USE DEF FInv, Finger, Idle, object, panel
<1>1. TypeOK'
  <2>1. calls + 1 \in 0 .. MaxCalls /\ cut' \subseteq {"press", "longPress"}
    BY DEF TypeOK
  <2>2. (notifier.at = "lifting") \in BOOLEAN
    OBVIOUS
  <2> QED
    BY <2>1, <2>2 DEF TypeOK
<1>2. Bringing'
  BY DEF Bringing, ClientStays
<1>3. todo = <<>> /\ \A e : ~Has(<<>>, e)
  BY DEF Has
<1>4. LongPress'
  BY <1>3 DEF LongPress, Pending
<1>5. PressFlag'
  BY DEF PressFlag, Pending, TypeOK
<1>6. Dimmed'
  BY <1>3 DEF Dimmed, Pending
<1> QED
  BY <1>1, <1>2, <1>4, <1>5, <1>6

LEMMA OnFingerDownStep == ASSUME FInv, OnFingerDown PROVE FInv'
<1> DEFINE writes == <<Dim(1), Press(1)>>
<1>1. writes \in Seq(Effects)
  BY Written DEF Dim, Press
<1>2. Orderly(writes)
  BY Written DEF Orderly, Neutral, Dim, Press
<1>3. \A e : Has(writes, e) <=> e \in {Dim(1), Press(1)}
  BY DEF Has
<1>4. Finger(TRUE, writes) /\ isCancelled' = 0
  BY DEF OnFingerDown, Dim, Press
<1>5. /\ \A v \in 0 .. 2 : Has(writes, Press(v)) <=> v = IF TRUE THEN 1 ELSE 0
      /\ ~Has(writes, Dim(0)) /\ Has(writes, Dim(1)) /\ ~Has(writes, Dim(2))
  BY <1>3, Written DEF Dim, Press
<1> HIDE DEF writes
<1> QED
  BY <1>1, <1>2, <1>4, <1>5, FingerStep

LEMMA OnFingerUpStep == ASSUME FInv, OnFingerUp PROVE FInv'
<1> DEFINE writes == <<Press(0)>>
<1>1. writes \in Seq(Effects)
  BY Written DEF Press
<1>2. Orderly(writes)
  BY Written DEF Orderly, Neutral, Press
<1>3. \A e : Has(writes, e) <=> e = Press(0)
  BY DEF Has
<1>4. Finger(FALSE, writes) /\ UNCHANGED isCancelled /\ isCancelled \in {0, 1}
  BY DEF OnFingerUp, Press, FInv, TypeOK
<1>5. /\ \A v \in 0 .. 2 : Has(writes, Press(v)) <=> v = IF FALSE THEN 1 ELSE 0
      /\ ~Has(writes, Dim(0)) /\ ~Has(writes, Dim(2))
  BY <1>3, Written DEF Dim, Press
<1> HIDE DEF writes
<1> QED
  BY <1>1, <1>2, <1>4, <1>5, FingerStep

LEMMA FingerUnheardStep == ASSUME FInv, FingerUnheard PROVE FInv'
<1> USE DEF FInv, FingerUnheard, object, panel
<1>1. TypeOK'
  <2>1. finger' \in BOOLEAN
    OBVIOUS
  <2> QED
    BY <2>1 DEF TypeOK
<1>5. Bringing'
  BY DEF Bringing, ClientStays
<1>4. LongPress' /\ Dimmed'
  BY Frame
<1>2. "press" \in cut /\ todo = <<>>
  BY DEF PressFlag, Bringing
<1>3. PressFlag'
  BY <1>2 DEF PressFlag, Pending, Has
<1> QED
  BY <1>1, <1>3, <1>4, <1>5
-----------------------------------------------------------------------------
(* The writes.                                                             *)

LEMMA EffectStep == ASSUME FInv, Effect PROVE FInv'
<1> DEFINE h == Head(todo)
           t == Tail(todo)
<1>1. todo \in Seq(Effects) /\ todo # <<>> /\ process = "serving"
  BY DEF FInv, TypeOK, Bringing, Effect
<1>2. h \in Effects /\ t \in Seq(Effects)
  BY <1>1
<1>3. \A e : Pending(e) <=> e = h \/ Has(t, e)
  BY <1>1, TailHas DEF Pending
<1>4. Orderly(t) /\ (h = FINISH => Has(t, ENABLE)) /\ (h = DISABLE => Has(t, RESUME))
  BY <1>1, TailOrderly DEF FInv, LongPress
<1>5. CASE Dies /\ deaths < MaxDeaths /\ UNCHANGED <<panel, calls, finger, settled>>
  BY <1>5, DiesStep
<1>6. ASSUME todo' = t,
             UNCHANGED <<process, object, mClientCallback, isCancelled, notifier, calls,
                         deaths, history>>
      PROVE  Bringing' /\ \A e : Pending(e)' <=> Has(t, e)
  BY <1>1, <1>6 DEF FInv, Bringing, ClientStays, object, Pending
<1>7. CASE /\ WritesNode(h) /\ todo' = t
           /\ UNCHANGED <<process, object, mClientCallback, isCancelled, notifier, calls,
                          deaths, history>>
  <2> USE <1>7 DEF WritesNode, history, object
  <2>1. h.value \in 0 .. 2 /\ h = Write(h.to, h.value) /\ h.to \in NodeNames
    BY <1>2 DEF Effects, Device, NodeNames, Write
  <2>2. TypeOK' /\ nodes \in [NodeNames -> 0 .. 2]
    BY <1>2, <2>1 DEF FInv, TypeOK
  <2>3. LongPress'
    BY <1>3, <1>4, <1>6, <2>1, Written DEF FInv, LongPress
  <2>4. h.to # "notify_fppress" =>
           /\ nodes'["notify_fppress"] = nodes["notify_fppress"]
           /\ \A v : h # Press(v)
    BY <2>1, <2>2, Written DEF Press
  <2>5. h.to = "notify_fppress" =>
           nodes'["notify_fppress"] = h.value /\ h = Press(h.value)
    BY <2>1, <2>2 DEF Press
  <2>6. PressFlag'
    BY <1>3, <1>6, <2>1, <2>4, <2>5 DEF FInv, PressFlag, TypeOK
  <2>7. h.to # "notify_dim" => /\ nodes'["notify_dim"] = nodes["notify_dim"]
                               /\ \A v : h # Dim(v)
    BY <2>1, <2>2, Written DEF Dim
  <2>8. h.to = "notify_dim" => nodes'["notify_dim"] = h.value /\ h = Dim(h.value)
    BY <2>1, <2>2 DEF Dim
  <2>9. Dimmed'
    BY <1>3, <1>6, <2>1, <2>7, <2>8 DEF FInv, Dimmed, TypeOK
  <2> QED
    BY <1>6, <2>2, <2>3, <2>6, <2>9 DEF FInv
<1>8. CASE /\ UpdatesStatus(h) \/ (h.to = "device" /\ UNCHANGED panel)
           /\ todo' = t
           /\ UNCHANGED <<process, object, mClientCallback, isCancelled, notifier, calls,
                          deaths, history>>
  <2>0. h.to \notin NodeNames
    BY <1>8 DEF UpdatesStatus, NodeNames
  <2>1. \A n \in NodeNames : \A v : h # Write(n, v)
    BY <2>0 DEF Write
  <2> USE <1>8 DEF UpdatesStatus, history, object, panel
  <2>a. longPress' \in BOOLEAN /\ enrolling' \in BOOLEAN /\ UNCHANGED nodes
    BY DEF FInv, TypeOK
  <2>2. TypeOK'
    BY <1>2, <2>a DEF FInv, TypeOK
  <2>3. \A v : h # Press(v) /\ h # Dim(v)
    BY <2>1, Written DEF Press, Dim
  <2>4. PressFlag' /\ Dimmed'
    BY <1>3, <1>6, <2>3 DEF FInv, PressFlag, Dimmed
  <2>5. \/ UNCHANGED <<longPress, enrolling>> /\ h \notin {FINISH, ENABLE, DISABLE, RESUME}
        \/ h = DISABLE /\ UNCHANGED enrolling
        \/ h = FINISH /\ UNCHANGED longPress
        \/ h = RESUME /\ enrolling' /\ UNCHANGED longPress
        \/ h = ENABLE /\ longPress' /\ UNCHANGED enrolling
    <3> USE DEF FINISH, ENABLE, DISABLE, RESUME, Status, OP_FINISH_FP_ENROLL,
            OP_ENABLE_FP_LONGPRESS, OP_DISABLE_FP_LONGPRESS, OP_RESUME_FP_ENROLL
    <3>1. h = Device \/ h \in {FINISH, ENABLE, DISABLE, RESUME}
      BY <1>2, <2>0 DEF Effects
    <3>2. CASE h = Device
      BY <3>2 DEF Device
    <3>3. CASE h = FINISH
      BY <3>3
    <3>4. CASE h = ENABLE
      BY <3>4
    <3>5. CASE h = DISABLE
      BY <3>5
    <3>6. CASE h = RESUME
      BY <3>6
    <3> QED
      BY <3>1, <3>2, <3>3, <3>4, <3>5, <3>6
  <2>6. LongPress'
    BY <1>3, <1>4, <1>6, <2>5 DEF FInv, LongPress
  <2> QED
    BY <1>6, <2>2, <2>4, <2>6 DEF FInv
<1> QED
  BY <1>5, <1>7, <1>8 DEF Effect
-----------------------------------------------------------------------------
(* notify.                                                                 *)

LEMMA NotifyStep ==
    ASSUME FInv, Notify \/ NotifyLocks \/ NotifyCalls \/ NotifyLifts
    PROVE  FInv'
<1> USE DEF FInv, object, panel, history
<1>1. CASE Notify
  <2>1. PICK m \in Messages :
           notifier' = [at |-> "entered", msg |-> m, to |-> NoClient]
    BY <1>1 DEF Notify
  <2>2. TypeOK'
    BY <1>1, <2>1 DEF Notify, TypeOK
  <2>3. Bringing'
    BY <1>1, <2>1 DEF Notify, Bringing, ClientStays
  <2>4. LongPress' /\ Dimmed' /\ PressFlag'
    BY <1>1, <2>1, Frame, PressFrame DEF Notify
  <2> QED
    BY <2>2, <2>3, <2>4
<1>2. CASE NotifyLocks
  <2>1. process # "down"
    BY <1>2 DEF NotifyLocks, Bringing, Asleep
  <2>2. \/ notifier' = Asleep
        \/ /\ notifier' = [notifier EXCEPT !.at = "calling", !.to = mClientCallback]
           /\ mClientCallback # NoClient
    BY <1>2 DEF NotifyLocks
  <2>3. /\ notifier' \in [at : {"library", "entered", "calling", "lifting"},
                          msg : Messages \cup {NoMessage}, to : Clients \cup {NoClient}]
        /\ notifier'.at \in {"library", "calling"}
        /\ notifier'.at = "calling" => /\ notifier'.to = mClientCallback
                                       /\ mClientCallback # NoClient
    <3>1. CASE notifier' = Asleep
      BY <3>1 DEF Asleep
    <3>2. CASE /\ notifier' = [notifier EXCEPT !.at = "calling", !.to = mClientCallback]
               /\ mClientCallback # NoClient
      BY <3>2 DEF TypeOK
    <3> QED
      BY <2>2, <3>1, <3>2
  <2>4. sInstance /\ instances' = instances /\ sInstance'
    BY <1>2, <2>1 DEF NotifyLocks, Bringing
  <2>5. TypeOK'
    BY <1>2, <2>3, <2>4 DEF NotifyLocks, TypeOK
  <2>6. Bringing'
    BY <1>2, <2>1, <2>3, <2>4 DEF NotifyLocks, Bringing, ClientStays, Asleep
  <2>7. LongPress' /\ Dimmed' /\ PressFlag'
    BY <1>2, <2>3, Frame, PressFrame DEF NotifyLocks
  <2> QED
    BY <2>5, <2>6, <2>7
<1>3. CASE NotifyCalls
  <2>1. /\ notifier' \in [at : {"library", "entered", "calling", "lifting"},
                          msg : Messages \cup {NoMessage}, to : Clients \cup {NoClient}]
        /\ notifier'.at = "lifting" => notifier'.to = notifier.to
        /\ notifier'.at \in {"library", "lifting"}
    <3>1. CASE Lifts(notifier.msg)
      <4>1. notifier' = [notifier EXCEPT !.at = "lifting"]
        BY <1>3, <3>1 DEF NotifyCalls
      <4> QED
        BY <4>1 DEF TypeOK
    <3>2. CASE ~Lifts(notifier.msg)
      BY <1>3, <3>2 DEF NotifyCalls, TypeOK, Asleep
    <3> QED
      BY <3>1, <3>2
  <2>2. settled' \in BOOLEAN /\ (settled => settled') /\ process # "down"
    BY <1>3 DEF NotifyCalls, TypeOK, Bringing, Asleep, Conclusive
  <2>7. notifier'.at = "lifting" => settled'
    BY <1>3 DEF NotifyCalls, Asleep, Lifts, Conclusive
  <2>3. TypeOK'
    BY <1>3, <2>1, <2>2 DEF NotifyCalls, TypeOK
  <2>4. Bringing'
    BY <1>3, <2>1, <2>2 DEF NotifyCalls, Bringing, ClientStays
  <2>5. LongPress' /\ Dimmed'
    BY <1>3, Frame DEF NotifyCalls
  <2>6. PressFlag'
    BY <1>3, <2>1, <2>2, <2>7 DEF NotifyCalls, PressFlag, Pending
  <2> QED
    BY <2>3, <2>4, <2>5, <2>6
<1>4. CASE NotifyLifts
  <2>1. /\ nodes' \in [NodeNames -> 0 .. 2]
        /\ nodes'["notify_fppress"] = 0 /\ nodes'["notify_dim"] = nodes["notify_dim"]
    BY <1>4 DEF NotifyLifts, TypeOK, NodeNames
  <2>2. Asleep \in [at : {"library", "entered", "calling", "lifting"},
                    msg : Messages \cup {NoMessage}, to : Clients \cup {NoClient}]
        /\ Asleep.at = "library"
    BY DEF Asleep
  <2>3. TypeOK'
    BY <1>4, <2>1, <2>2 DEF NotifyLifts, TypeOK
  <2>4. Bringing'
    BY <1>4, <2>2 DEF NotifyLifts, Bringing, ClientStays
  <2>5. LongPress'
    BY <1>4, Frame DEF NotifyLifts
  <2>6. PressFlag'
    BY <1>4, <2>1, <2>2 DEF NotifyLifts, PressFlag, Pending
  <2>7. Dimmed'
    BY <1>4, <2>1 DEF NotifyLifts, Dimmed, Pending
  <2> QED
    BY <2>3, <2>4, <2>5, <2>6, <2>7
<1> QED
  BY <1>1, <1>2, <1>3, <1>4
-----------------------------------------------------------------------------
LEMMA InitFInv == Init => FInv
<1> SUFFICES ASSUME Init PROVE FInv
  OBVIOUS
<1> USE DEF Init, FInv
<1>a. Asleep \in [at : {"library", "entered", "calling", "lifting"},
                  msg : Messages \cup {NoMessage}, to : Clients \cup {NoClient}]
  BY DEF Asleep
<1>b. /\ [n \in NodeNames |-> 0] \in [NodeNames -> 0 .. 2] /\ <<>> \in Seq(Effects)
      /\ 0 \in 0 .. MaxCalls /\ 0 \in 0 .. MaxDeaths
  OBVIOUS
<1>1. TypeOK
  BY <1>a, <1>b DEF TypeOK
<1>2. Bringing
  BY DEF Bringing, ClientStays, Asleep
<1>3. LongPress /\ PressFlag /\ Dimmed
  BY DEF LongPress, PressFlag, Dimmed, Orderly, Pending, Has, Asleep, NodeNames
<1> QED
  BY <1>1, <1>2, <1>3

LEMMA NextFInv == FInv /\ [Next]_vars => FInv'
<1> SUFFICES ASSUME FInv, [Next]_vars PROVE FInv'
  OBVIOUS
<1>1. CASE LibraryCrash
  BY <1>1, DiesStep DEF LibraryCrash
<1>2. CASE UNCHANGED vars
  BY <1>2, Frame, PressFrame DEF vars, FInv, TypeOK, Bringing, ClientStays
<1> QED
  BY <1>1, <1>2, BringUpStep, PreEnrollStep, EnrollStep, PostEnrollStep, CancelStep,
     AuthenticateStep, QueryStep, SetNotifyStep, OnFingerDownStep, OnFingerUpStep,
     FingerUnheardStep, EffectStep, NotifyStep DEF Next

LEMMA FInvAlways == Spec => []FInv
  BY InitFInv, NextFInv, PTL DEF Spec

\* Every variable keeps its type, whatever the clients and the library do.
THEOREM TypeCorrect == Spec => []TypeOK
  BY FInvAlways, PTL DEF FInv

\* getInstance constructs one object in a process, whoever comes first: main, or a
\* notification from within set_notify, before the constructor has returned.
THEOREM OneObject == Spec => []OneInstance
<1>1. FInv => OneInstance
  BY DEF FInv, Bringing, OneInstance
<1> QED
  BY <1>1, FInvAlways, PTL

\* A notification that is delivered comes from an open device: there is a client to
\* deliver it to, so the service serves, and what serves and has notify registered
\* has its device.
THEOREM DeviceStaysValid == Spec => []DeviceIdValid
<1>1. FInv => DeviceIdValid
  BY DEF FInv, Bringing, DeviceIdValid, ClientStays, TypeOK
<1> QED
  BY <1>1, FInvAlways, PTL

\* The client a notification is delivered to stays the registered one until notify
\* lets go of mClientCallbackMutex.
THEOREM ClientIsKept == Spec => []ClientStays
<1>1. FInv => ClientStays
  BY DEF FInv, Bringing
<1> QED
  BY <1>1, FInvAlways, PTL

\* The panel's press flag is the finger's, but for a result told during the touch or
\* taken back just when the finger came.
THEOREM PressFollows == Spec => []PressFollowsFinger
<1>1. FInv => PressFollowsFinger
  BY DEF FInv, PressFlag, PressFollowsFinger, Idle, Pending, Has
<1> QED
  BY <1>1, FInvAlways, PTL

\* No order of calls leaves the long press off without an enrollment.
THEOREM LongPressGivenBack == Spec => []LongPressOffWhileEnrolling
<1>1. FInv => LongPressOffWhileEnrolling
  BY DEF FInv, LongPress, LongPressOffWhileEnrolling, Idle, Pending, Has
<1> QED
  BY <1>1, FInvAlways, PTL

\* An authentication after a cancel finds the screen dimmed, late finger or not.
THEOREM DimmedAgain == Spec => []DimmedAfterCancel
<1>1. FInv => DimmedAfterCancel
  BY DEF FInv, Dimmed, DimmedAfterCancel, Idle, Pending, Has
<1> QED
  BY <1>1, FInvAlways, PTL
=============================================================================
