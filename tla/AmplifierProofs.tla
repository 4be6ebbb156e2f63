--------------------------- MODULE AmplifierProofs ---------------------------
(***************************************************************************)
(* The amplifier module for any memory, any devices and any number of      *)
(* openings.                                                               *)
(***************************************************************************)
EXTENDS Amplifier, SequenceTheorems, TLAPS

\* Every variable has its type.
TypeOK ==
    /\ tfa_dev \in {"NULL", "open", "freed", "lost"}
    /\ tfa98xx_out \in BOOLEAN
    /\ usecase_tx \in Blocks \cup {NULL}
    /\ usecase_list \in Seq(Blocks)
    /\ allocated \subseteq Blocks
    /\ enabled \in Nat
    /\ routes \subseteq Blocks
    /\ streams \in Nat
    /\ opens \in 0 .. MaxOpens
    /\ ignored \in BOOLEAN
    /\ abandoned \in Nat
    /\ wild \in BOOLEAN

\* No use case is listed twice: the first one found is freed once.
ListedOnce ==
    \A i, j \in 1 .. Len(usecase_list) : usecase_list[i] = usecase_list[j] => i = j

\* A stream is open only in a module that is.
StreamNeedsModule == tfa98xx_out => tfa_dev = "open"

AInv ==
    /\ TypeOK
    /\ StreamNeedsModule
    /\ ListedOnce
    /\ NothingLeaks
    /\ OneStreamOneUsecase
    /\ NothingFreedIsUsed

-----------------------------------------------------------------------------
(* Lists without repetition.                                               *)

Elements(s) == {s[k] : k \in 1 .. Len(s)}

Once(s) == \A i, j \in 1 .. Len(s) : s[i] = s[j] => i = j

\* A new element at the end of a list is one more, and the others stay.
LEMMA AppendOnce ==
    ASSUME NEW S, NEW s \in Seq(S), NEW b \in S, b \notin Elements(s), Once(s)
    PROVE  /\ Append(s, b) \in Seq(S)
           /\ Len(Append(s, b)) = Len(s) + 1
           /\ Append(s, b) # <<>>
           /\ Elements(Append(s, b)) = Elements(s) \cup {b}
           /\ Once(Append(s, b))
<1> DEFINE t == Append(s, b)
<1>1. /\ t \in Seq(S) /\ Len(t) = Len(s) + 1 /\ t # <<>>
      /\ \A k \in 1 .. Len(s) : t[k] = s[k]
      /\ t[Len(s) + 1] = b
  BY AppendProperties
<1>2. Len(s) \in Nat
  BY LenProperties
<1> HIDE DEF t
<1>3. Elements(t) = Elements(s) \cup {b}
  BY <1>1, <1>2 DEF Elements
<1>4. Once(t)
  <2> SUFFICES ASSUME NEW i \in 1 .. Len(t), NEW j \in 1 .. Len(t), t[i] = t[j]
               PROVE  i = j
    BY DEF Once
  <2>1. \A k \in 1 .. Len(s) : t[k] # b
    BY <1>1 DEF Elements
  <2>2. CASE i \in 1 .. Len(s) /\ j \in 1 .. Len(s)
    BY <1>1, <2>2 DEF Once
  <2>3. CASE i = Len(s) + 1 \/ j = Len(s) + 1
    BY <1>1, <1>2, <2>1, <2>3
  <2> QED
    BY <1>1, <1>2, <2>2, <2>3
<1> QED
  BY <1>1, <1>3, <1>4 DEF t

\* A list without its first element has the others.
LEMMA TailOnce ==
    ASSUME NEW S, NEW s \in Seq(S), s # <<>>, Once(s)
    PROVE  /\ Tail(s) \in Seq(S)
           /\ Len(Tail(s)) = Len(s) - 1
           /\ Head(s) \in S
           /\ Head(s) \in Elements(s)
           /\ Elements(Tail(s)) = Elements(s) \ {Head(s)}
           /\ Once(Tail(s))
<1> DEFINE t == Tail(s)
           h == Head(s)
<1>1. /\ t \in Seq(S) /\ Len(t) = Len(s) - 1 /\ h \in S
      /\ \A k \in 1 .. Len(t) : t[k] = s[k + 1]
  BY HeadTailProperties
<1>2. h = s[1] /\ Len(s) \in Nat /\ Len(s) >= 1
  BY HeadTailProperties, LenProperties, EmptySeq
<1> HIDE DEF t, h
<1>3. h \in Elements(s)
  BY <1>2 DEF Elements
<1>4. ASSUME NEW x \in Elements(t) PROVE x \in Elements(s) /\ x # h
  <2>1. PICK k \in 1 .. Len(t) : x = t[k]
    BY DEF Elements
  <2>2. k + 1 \in 1 .. Len(s) /\ k + 1 # 1 /\ x = s[k + 1] /\ 1 \in 1 .. Len(s)
    BY <1>1, <1>2, <2>1
  <2> QED
    BY <1>2, <2>2 DEF Elements, Once
<1>5. ASSUME NEW x \in Elements(s), x # h PROVE x \in Elements(t)
  <2>1. PICK k \in 1 .. Len(s) : x = s[k]
    BY DEF Elements
  <2>2. k - 1 \in 1 .. Len(t) /\ s[(k - 1) + 1] = x
    BY <1>1, <1>2, <1>5, <2>1
  <2> QED
    BY <1>1, <2>2 DEF Elements
<1>6. Once(t)
  <2> SUFFICES ASSUME NEW i \in 1 .. Len(t), NEW j \in 1 .. Len(t), t[i] = t[j]
               PROVE  i = j
    BY DEF Once
  <2>1. i + 1 \in 1 .. Len(s) /\ j + 1 \in 1 .. Len(s) /\ s[i + 1] = s[j + 1]
    BY <1>1, <1>2
  <2> QED
    BY <2>1 DEF Once
<1>7. Elements(t) = Elements(s) \ {h}
  BY <1>4, <1>5
<1> QED
  BY <1>1, <1>3, <1>6, <1>7 DEF t, h

-----------------------------------------------------------------------------
LEMMA AInvInit == Init => AInv
<1> SUFFICES ASSUME Init PROVE AInv
  OBVIOUS
<1>1. usecase_list \in Seq(Blocks) /\ Len(usecase_list) = 0
  BY EmptySeq DEF Init
<1>2. TypeOK
  <2>1. opens \in 0 .. MaxOpens /\ enabled \in Nat /\ streams \in Nat /\ abandoned \in Nat
    BY AmplifierAssumption DEF Init
  <2>2. tfa98xx_out \in BOOLEAN /\ wild \in BOOLEAN /\ ignored \in BOOLEAN
    BY DEF Init
  <2>3. /\ tfa_dev \in {"NULL", "open", "freed", "lost"}
        /\ usecase_tx \in Blocks \cup {NULL}
        /\ allocated \subseteq Blocks /\ routes \subseteq Blocks
    BY DEF Init
  <2> QED
    BY <1>1, <2>1, <2>2, <2>3 DEF TypeOK
<1>3. Listed = {} /\ ListedOnce
  BY <1>1 DEF Listed, ListedOnce
<1> QED
  BY <1>1, <1>2, <1>3
     DEF AInv, Init, NothingLeaks, OneStreamOneUsecase, NothingFreedIsUsed,
         StreamNeedsModule

\* Nothing moves the list and what hangs on it but Start and Stop.
LEMMA ListStays ==
    ASSUME UNCHANGED usecase_list PROVE Listed' = Listed /\ ListedOnce' = ListedOnce
  BY DEF Listed, ListedOnce

LEMMA AInvStart == AInv /\ Start => AInv'
<1> SUFFICES ASSUME AInv, Start PROVE AInv'
  OBVIOUS
<1>1. PICK b \in Blocks \ allocated :
          /\ usecase_tx' = b
          /\ allocated' = allocated \cup {b}
          /\ usecase_list' = Append(usecase_list, b)
          /\ routes' \in {routes, routes \cup {b}}
  BY DEF Start, enable_audio_route
<1>2. Listed = Elements(usecase_list) /\ Listed' = Elements(usecase_list')
  BY DEF Listed, Elements
<1>3. ListedOnce = Once(usecase_list) /\ ListedOnce' = Once(usecase_list')
  BY DEF ListedOnce, Once
<1>4. /\ usecase_list' \in Seq(Blocks)
      /\ Len(usecase_list') = Len(usecase_list) + 1
      /\ usecase_list' # <<>>
      /\ Listed' = Listed \cup {b}
      /\ ListedOnce'
  BY <1>1, <1>2, <1>3, AppendOnce DEF AInv, TypeOK, NothingLeaks
<1>8. /\ enabled' \in {enabled, enabled + 1}
      /\ ignored' = (ignored \/ enabled' = enabled \/ routes' = routes)
  BY DEF Start, enable_snd_device
<1>5. TypeOK'
  <2>1. ignored' \in BOOLEAN
    BY <1>8
  <2>2. routes' \subseteq Blocks /\ allocated' \subseteq Blocks /\ usecase_tx' \in Blocks
    BY <1>1 DEF AInv, TypeOK
  <2>3. enabled' \in Nat /\ streams' \in Nat
    BY <1>8 DEF AInv, TypeOK, Start
  <2> QED
    BY <1>4, <2>1, <2>2, <2>3 DEF AInv, TypeOK, Start
<1>6. NothingLeaks'
  <2>1. allocated' = Listed' /\ routes' \subseteq Listed'
    BY <1>1, <1>4 DEF AInv, NothingLeaks
  <2>2. enabled \in Nat /\ Len(usecase_list) \in Nat
    BY LenProperties DEF AInv, TypeOK
  <2>3. enabled' <= Len(usecase_list')
    BY <1>4, <1>8, <2>2 DEF AInv, NothingLeaks
  <2>4. ASSUME ~ ignored' PROVE routes' = Listed' /\ enabled' = Len(usecase_list')
    <3>1. ~ ignored /\ enabled' # enabled /\ routes' # routes
      BY <1>8, <2>4
    <3>2. routes' = routes \cup {b} /\ enabled' = enabled + 1
      BY <1>1, <1>8, <3>1
    <3>3. routes = Listed /\ enabled = Len(usecase_list)
      BY <3>1 DEF AInv, NothingLeaks
    <3> QED
      BY <1>4, <3>2, <3>3
  <2> QED
    BY <2>1, <2>3, <2>4 DEF NothingLeaks
<1>7. OneStreamOneUsecase'
  <2>1. ~ tfa98xx_out /\ tfa98xx_out' /\ streams' = streams + 1 /\ abandoned' = abandoned
    BY DEF Start, MayStart
  <2>2. Len(usecase_list) \in Nat
    BY LenProperties DEF AInv, TypeOK
  <2> QED
    BY <1>4, <2>1, <2>2 DEF AInv, TypeOK, OneStreamOneUsecase
<1> QED
  BY <1>4, <1>5, <1>6, <1>7
     DEF AInv, NothingFreedIsUsed, StreamNeedsModule, Start, MayStart

LEMMA AInvStop == AInv /\ Stop => AInv'
<1> SUFFICES ASSUME AInv, Stop PROVE AInv'
  OBVIOUS
<1>1. /\ tfa98xx_out' = FALSE /\ abandoned' = abandoned /\ opens' = opens
      /\ tfa_dev' = tfa_dev
      /\ streams' = IF tfa98xx_out THEN streams - 1 ELSE streams
      /\ enabled' = IF enabled = 0 THEN 0 ELSE enabled - 1
      /\ ignored' = ignored
      /\ usecase_tx' = IF usecase_list = <<>> THEN NULL ELSE Head(usecase_list)
  BY DEF Stop, disable_snd_device, OneLess, get_usecase_from_list
<1>2. streams' = abandoned /\ streams' \in Nat
  BY <1>1 DEF AInv, TypeOK, OneStreamOneUsecase
<1>3. Len(usecase_list) \in Nat
  BY LenProperties DEF AInv, TypeOK
<1>4. CASE usecase_list = <<>>
  <2>1. usecase_tx' = NULL /\ UNCHANGED <<usecase_list, routes, allocated, wild>>
    BY <1>1, <1>4 DEF Stop
  <2>2. Len(usecase_list) = 0
    BY <1>4
  <2>3. enabled = 0 /\ enabled' = 0
    BY <1>1, <2>2 DEF AInv, TypeOK, NothingLeaks
  <2>4. TypeOK'
    BY <1>1, <1>2, <2>1, <2>3 DEF AInv, TypeOK
  <2>5. NothingLeaks'
    BY <1>1, <2>1, <2>3, ListStays DEF AInv, NothingLeaks
  <2>6. OneStreamOneUsecase'
    BY <1>1, <1>2, <2>1, <2>2 DEF AInv, TypeOK, OneStreamOneUsecase
  <2> QED
    BY <1>1, <2>1, <2>4, <2>5, <2>6, ListStays
       DEF AInv, NothingFreedIsUsed, StreamNeedsModule
<1>5. CASE usecase_list # <<>>
  <2> DEFINE u == Head(usecase_list)
  <2>1. Listed = Elements(usecase_list) /\ Listed' = Elements(usecase_list')
    BY DEF Listed, Elements
  <2>2. ListedOnce = Once(usecase_list) /\ ListedOnce' = Once(usecase_list')
    BY DEF ListedOnce, Once
  <2>3. /\ Tail(usecase_list) \in Seq(Blocks)
        /\ Len(Tail(usecase_list)) = Len(usecase_list) - 1
        /\ u \in Blocks
        /\ u \in Listed
        /\ Elements(Tail(usecase_list)) = Listed \ {u}
        /\ Once(Tail(usecase_list))
    BY <1>5, <2>1, <2>2, TailOnce DEF AInv, TypeOK
  <2>4. /\ usecase_tx' = u
        /\ usecase_list' = Tail(usecase_list)
        /\ routes' = routes \ {u}
        /\ allocated' = allocated \ {u}
        /\ wild' = (wild \/ u \notin allocated)
    BY <1>1, <1>5, <2>3, AmplifierAssumption DEF Stop
  <2> HIDE DEF u
  <2>5. /\ enabled' \in Nat
        /\ enabled' <= Len(usecase_list')
        /\ enabled = Len(usecase_list) => enabled' = Len(usecase_list')
    <3>1. usecase_list' \in Seq(Blocks) /\ Len(usecase_list') = Len(usecase_list) - 1
      BY <2>3, <2>4
    <3>2. Len(usecase_list') \in Nat
      BY <3>1, LenProperties
    <3>3. enabled \in Nat /\ enabled <= Len(usecase_list)
      BY DEF AInv, TypeOK, NothingLeaks
    <3>4. enabled' = IF enabled = 0 THEN 0 ELSE enabled - 1
      BY <1>1
    <3> QED
      BY <1>3, <3>1, <3>2, <3>3, <3>4
  <2>6. NothingFreedIsUsed'
    BY <2>3, <2>4 DEF AInv, NothingLeaks, NothingFreedIsUsed
  <2>7. TypeOK'
    <3>1. enabled' \in Nat
      BY <2>5
    <3>2. wild' \in BOOLEAN
      BY <2>4
    <3> QED
      BY <1>1, <1>2, <2>3, <2>4, <3>1, <3>2 DEF AInv, TypeOK
  <2>8. NothingLeaks'
    <3>1. allocated' = Listed' /\ routes' \subseteq Listed'
      BY <2>1, <2>3, <2>4 DEF AInv, NothingLeaks
    <3>2. ASSUME ~ ignored' PROVE routes' = Listed' /\ enabled' = Len(usecase_list')
      BY <1>1, <2>1, <2>3, <2>4, <2>5, <3>2 DEF AInv, NothingLeaks
    <3> QED
      BY <2>5, <3>1, <3>2 DEF NothingLeaks
  <2>9. OneStreamOneUsecase'
    BY <1>1, <1>2, <1>3, <2>3, <2>4 DEF AInv, TypeOK, OneStreamOneUsecase
  <2> QED
    BY <1>1, <2>2, <2>3, <2>4, <2>6, <2>7, <2>8, <2>9 DEF AInv, StreamNeedsModule
<1> QED
  BY <1>4, <1>5

LEMMA AInvStep == AInv /\ [Next]_vars => AInv'
<1> SUFFICES ASSUME AInv, [Next]_vars PROVE AInv'
  OBVIOUS
<1>1. CASE \/ StartWithoutMemory \/ StartFails \/ ModuleOpen \/ DevClose
           \/ UNCHANGED vars
  <2>1. /\ UNCHANGED <<usecase_list, allocated, routes, streams>> /\ wild' = wild
        /\ enabled' \in Nat /\ enabled' <= enabled /\ ignored' \in BOOLEAN
        /\ ~ ignored' => ~ ignored /\ enabled' = enabled
    <3>1. CASE StartFails
      <4>1. /\ UNCHANGED <<usecase_list, allocated, routes, streams>> /\ wild' = wild
            /\ enabled' \in {enabled, OneLess(enabled)}
            /\ ignored' = (ignored \/ enabled' # enabled)
        BY <3>1 DEF StartFails
      <4>2. enabled' \in Nat /\ enabled' <= enabled
        BY <4>1 DEF AInv, TypeOK, OneLess
      <4>3. ignored' \in BOOLEAN /\ (~ ignored' => ~ ignored /\ enabled' = enabled)
        BY <4>1, Zenon DEF AInv, TypeOK
      <4> QED
        BY <4>1, <4>2, <4>3
    <3>2. CASE StartWithoutMemory \/ ModuleOpen \/ DevClose \/ UNCHANGED vars
      <4>1. UNCHANGED hal /\ wild' = wild /\ ignored' = ignored
        BY <3>2 DEF StartWithoutMemory, ModuleOpen, DevClose, vars
      <4> QED
        BY <4>1 DEF AInv, TypeOK, hal
    <3> QED
      BY <1>1, <3>1, <3>2
  <2>2. ListedOnce' /\ NothingLeaks' /\ NothingFreedIsUsed'
    <3>1. Listed' = Listed /\ ListedOnce' /\ Len(usecase_list) \in Nat
      BY <2>1, ListStays, LenProperties DEF AInv, TypeOK
    <3>2. /\ allocated' = Listed' /\ routes' \subseteq Listed'
          /\ enabled' <= Len(usecase_list')
      BY <2>1, <3>1 DEF AInv, TypeOK, NothingLeaks
    <3>3. ~ ignored' => routes' = Listed' /\ enabled' = Len(usecase_list')
      BY <2>1, <3>1 DEF AInv, NothingLeaks
    <3> QED
      BY <2>1, <3>1, <3>2, <3>3 DEF AInv, NothingLeaks, NothingFreedIsUsed
  <2>3. /\ tfa_dev' \in {"NULL", "open", "freed", "lost"}
        /\ usecase_tx' \in Blocks \cup {NULL}
    BY <1>1 DEF AInv, TypeOK, StartWithoutMemory, StartFails, ModuleOpen, DevClose, vars
  <2>4. tfa98xx_out' \in BOOLEAN /\ StreamNeedsModule'
    <3>1. CASE ModuleOpen \/ DevClose
      BY <3>1 DEF ModuleOpen, DevClose, StreamNeedsModule
    <3>2. CASE StartWithoutMemory \/ StartFails \/ UNCHANGED vars
      <4>1. UNCHANGED <<tfa_dev, tfa98xx_out>>
        BY <3>2 DEF StartWithoutMemory, StartFails, vars
      <4> QED
        BY <4>1 DEF AInv, TypeOK, StreamNeedsModule
    <3> QED
      BY <1>1, <3>1, <3>2
  <2>5. opens' \in 0 .. MaxOpens /\ abandoned' \in Nat
    BY <1>1, AmplifierAssumption
       DEF AInv, TypeOK, StartWithoutMemory, StartFails, ModuleOpen, DevClose, vars
  <2>6. abandoned' + (IF tfa98xx_out' THEN 1 ELSE 0)
            = abandoned + (IF tfa98xx_out THEN 1 ELSE 0)
    <3>1. CASE ModuleOpen
      BY <3>1 DEF ModuleOpen, AInv, StreamNeedsModule
    <3>2. CASE DevClose
      BY <3>2 DEF DevClose, AInv, TypeOK
    <3>3. CASE StartWithoutMemory \/ StartFails \/ UNCHANGED vars
      BY <3>3 DEF StartWithoutMemory, StartFails, vars
    <3> QED
      BY <1>1, <3>1, <3>2, <3>3
  <2>7. tfa98xx_out' => tfa98xx_out
    BY <1>1 DEF StartWithoutMemory, StartFails, ModuleOpen, DevClose, vars
  <2>8. TypeOK'
    BY <2>1, <2>3, <2>4, <2>5 DEF AInv, TypeOK
  <2>9. OneStreamOneUsecase'
    BY <2>1, <2>6, <2>7 DEF AInv, OneStreamOneUsecase
  <2> QED
    BY <2>2, <2>4, <2>8, <2>9 DEF AInv
<1> QED
  BY <1>1, AInvStart, AInvStop DEF Next

-----------------------------------------------------------------------------
\* The inductive invariant holds of every behaviour.
THEOREM AInvHolds == Spec => []AInv
  BY AInvInit, AInvStep, PTL DEF Spec

\* Memory is accounted for by the list, whatever fails; so are routes and the device,
\* as long as no failure to enable them was ignored, and none outlives its use case.
THEOREM NothingIsLeaked == Spec => []NothingLeaks
<1>1. AInv => NothingLeaks
  BY DEF AInv
<1> QED
  BY <1>1, AInvHolds, PTL

\* The open stream has its use case, and only abandoned ones stay beside it.
THEOREM StreamHasUsecase == Spec => []OneStreamOneUsecase
<1>1. AInv => OneStreamOneUsecase
  BY DEF AInv
<1> QED
  BY <1>1, AInvHolds, PTL

\* The pointer a failed start leaves is never followed.
THEOREM DanglingIsNotFollowed == Spec => []NothingFreedIsUsed
<1>1. AInv => NothingFreedIsUsed
  BY DEF AInv
<1> QED
  BY <1>1, AInvHolds, PTL
=============================================================================
