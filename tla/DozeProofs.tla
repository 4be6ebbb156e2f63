----------------------------- MODULE DozeProofs -----------------------------
(***************************************************************************)
(* Proofs about Doze: for any sensors, any number of service objects, and  *)
(* settings and displays that change without bound.                        *)
(***************************************************************************)
EXTENDS Doze, SequenceTheorems, TLAPS

\* The values of a sequence alternate.
Alternates(seq) == \A k \in 1 .. Len(seq) - 1 : seq[k] # seq[k + 1]

\* What the activity manager has sent takes turns, and ends in what it has recorded.
Manager ==
    /\ Alternates(scheduled)
    /\ scheduled # <<>> => (scheduled[1] = "create" <=> service = None)
    /\ scheduled = <<>> => (record <=> service # None)
    /\ scheduled # <<>> => (record <=> scheduled[Len(scheduled)] = "create")

\* What was sent to the receiver takes turns, and ends in what the display does.
Display ==
    /\ Alternates(broadcasts)
    /\ service = None => broadcasts = <<>>
    /\ broadcasts # <<>> => (display <=> broadcasts[Len(broadcasts)] = "SCREEN_ON")

\* The display, as far as the service has heard of it.
SeenOn == IF broadcasts = <<>> THEN display ELSE broadcasts[1] = "SCREEN_OFF"

\* When its jobs are done a sensor is not listened to.
Silent(s, i) ==
    \/ jobs[s][i] = <<>> /\ <<s, i>> \notin listening
    \/ jobs[s][i] # <<>> /\ jobs[s][i][Len(jobs[s][i])] = "unregister"

\* The object that is gone is silent; so is the one that exists, with the display on,
\* and with it off it is silent at the sensors that are not enabled.
Listeners ==
    \A s \in Sensors, i \in Instances :
        /\ i # service => Silent(s, i)
        /\ i = service /\ s \notin raced /\ SeenOn => Silent(s, i)
        /\ i = service /\ s \notin raced /\ ~ gesture[s] => Silent(s, i)

Inv == TypeOK /\ Manager /\ Display /\ Listeners
-----------------------------------------------------------------------------
\* What Head, Tail and Append are.
LEMMA HeadTail ==
    ASSUME NEW S, NEW q \in Seq(S), q # <<>>
    PROVE  /\ Head(q) = q[1] /\ Head(q) \in S /\ Tail(q) \in Seq(S)
           /\ Len(q) \in Nat \ {0} /\ Len(Tail(q)) = Len(q) - 1
           /\ \A k \in 1 .. Len(q) - 1 : Tail(q)[k] = q[k + 1]
           /\ Tail(q) # <<>> => Tail(q)[Len(Tail(q))] = q[Len(q)]
           /\ Tail(q) # <<>> => Tail(q)[1] = q[2] /\ Len(q) > 1
           /\ Tail(q) = <<>> => Len(q) = 1
<1>1. Len(q) \in Nat /\ Len(q) # 0
  BY EmptySeq, LenProperties
<1>2. Head(q) = q[1] /\ Head(q) \in S
  BY HeadTailProperties, <1>1, ElementOfSeq
<1>3. Tail(q) \in Seq(S) /\ Len(Tail(q)) = Len(q) - 1
  BY HeadTailProperties
<1>4. \A k \in 1 .. Len(q) - 1 : Tail(q)[k] = q[k + 1]
  BY HeadTailProperties, <1>3
<1>5. Tail(q) = <<>> <=> Len(Tail(q)) = 0
  BY <1>3, EmptySeq
<1> QED BY <1>1, <1>2, <1>3, <1>4, <1>5

LEMMA Appended ==
    ASSUME NEW S, NEW q \in Seq(S), NEW x \in S
    PROVE  /\ Append(q, x) \in Seq(S) /\ Append(q, x) # <<>>
           /\ Append(q, x)[Len(Append(q, x))] = x
           /\ Len(Append(q, x)) = Len(q) + 1 /\ Len(q) \in Nat
           /\ \A k \in 1 .. Len(q) : Append(q, x)[k] = q[k]
           /\ q # <<>> => Append(q, x)[1] = q[1]
           /\ q = <<>> => Append(q, x)[1] = x
<1>1. Append(q, x) \in Seq(S) /\ Len(Append(q, x)) = Len(q) + 1 /\ Len(q) \in Nat
  BY AppendProperties, LenProperties
<1>2. Append(q, x)[Len(q) + 1] = x /\ \A k \in 1 .. Len(q) : Append(q, x)[k] = q[k]
  BY AppendProperties
<1>3. q = <<>> <=> Len(q) = 0
  BY EmptySeq
<1>4. Append(q, x) # <<>>
  BY <1>1, EmptySeq
<1> QED BY <1>1, <1>2, <1>3, <1>4

LEMMA AlternatesTail ==
    ASSUME NEW S, NEW q \in Seq(S), q # <<>>, Alternates(q)
    PROVE  /\ Alternates(Tail(q))
           /\ Tail(q) # <<>> => Tail(q)[1] # q[1]
<1>1. \A k \in 1 .. Len(Tail(q)) - 1 : Tail(q)[k] # Tail(q)[k + 1]
  BY HeadTail DEF Alternates
<1>2. Tail(q) # <<>> => Tail(q)[1] # q[1]
  BY HeadTail DEF Alternates
<1> QED BY <1>1, <1>2 DEF Alternates

LEMMA AlternatesAppend ==
    ASSUME NEW S, NEW q \in Seq(S), NEW x \in S, Alternates(q),
           q # <<>> => q[Len(q)] # x
    PROVE  Alternates(Append(q, x))
<1>1. q = <<>> <=> Len(q) = 0
  BY EmptySeq
<1> QED BY <1>1, Appended DEF Alternates

-----------------------------------------------------------------------------
\* A check asks the activity manager for one thing or the other.
LEMMA CheckKeepsManager ==
    ASSUME TypeOK, Manager, NEW d, NEW a, NEW g, CheckDozeService(d, a, g),
           UNCHANGED service
    PROVE  /\ Manager'
           /\ record' \in BOOLEAN /\ scheduled' \in Seq({"create", "destroy"})
           /\ record' <=> Wanted(d, a, g)
<1>1. record' <=> Wanted(d, a, g)
  BY DEF CheckDozeService, StartService, StopService
<1>2. CASE UNCHANGED <<record, scheduled>>
  BY <1>1, <1>2 DEF TypeOK, Manager, Alternates
<1>3. CASE ~ UNCHANGED <<record, scheduled>>
  <2>1. PICK x \in {"create", "destroy"} :
          /\ scheduled' = Append(scheduled, x)
          /\ x = "create" <=> ~ record
          /\ x = "create" <=> record'
    BY <1>3 DEF CheckDozeService, StartService, StopService, TypeOK
  <2>2. scheduled # <<>> => scheduled[Len(scheduled)] # x
    BY <2>1 DEF Manager
  <2>3. Alternates(scheduled')
    BY <2>1, <2>2, AlternatesAppend DEF Manager, TypeOK
  <2>4. /\ scheduled' # <<>> /\ scheduled'[Len(scheduled')] = x
        /\ scheduled # <<>> => scheduled'[1] = scheduled[1]
        /\ scheduled = <<>> => scheduled'[1] = x
        /\ scheduled' \in Seq({"create", "destroy"})
    BY <2>1, Appended DEF TypeOK
  <2>5. scheduled'[1] = "create" <=> service' = None
    BY <2>1, <2>4 DEF Manager
  <2>6. record' \in BOOLEAN
    BY DEF CheckDozeService, StartService, StopService
  <2> QED BY <1>1, <2>1, <2>3, <2>4, <2>5, <2>6 DEF Manager
<1> QED BY <1>2, <1>3

\* The main thread takes what was sent: the object that exists changes sides.
LEMMA TakenKeepsManager ==
    ASSUME TypeOK, Manager, scheduled # <<>>, scheduled' = Tail(scheduled), UNCHANGED record,
           service' = None <=> Head(scheduled) # "create"
    PROVE  Manager' /\ scheduled' \in Seq({"create", "destroy"})
<1>1. /\ Alternates(scheduled')
      /\ scheduled' # <<>> => scheduled'[1] # scheduled[1]
  BY AlternatesTail DEF TypeOK, Manager
<1>2. /\ Head(scheduled) = scheduled[1] /\ scheduled[1] \in {"create", "destroy"}
      /\ scheduled' \in Seq({"create", "destroy"})
      /\ scheduled' # <<>> => scheduled'[Len(scheduled')] = scheduled[Len(scheduled)]
      /\ scheduled' = <<>> => Len(scheduled) = 1
  BY HeadTail DEF TypeOK
<1>3. scheduled' # <<>> => scheduled'[1] \in {"create", "destroy"}
  BY <1>2, HeadTail
<1>4. scheduled' # <<>> => (scheduled'[1] = "create" <=> service' = None)
  BY <1>1, <1>2, <1>3
<1>5. scheduled' = <<>> => (record' <=> service' # None)
  BY <1>2 DEF Manager
<1>6. scheduled' # <<>> => (record' <=> scheduled'[Len(scheduled')] = "create")
  BY <1>2 DEF Manager
<1> QED BY <1>1, <1>2, <1>4, <1>5, <1>6 DEF Manager

\* Nothing changes for the listeners if nothing changes that they look at.
LEMMA SameListeners ==
    ASSUME Listeners,
           UNCHANGED <<service, jobs, listening, raced, gesture, broadcasts, display>>
    PROVE  Listeners'
BY DEF Listeners, Silent, SeenOn

\* A submitted job is the last one of that sensor's executor.
LEMMA Submitted ==
    ASSUME TypeOK, NEW job \in {"register", "unregister"}, NEW sensors, Submit(job, sensors),
           UNCHANGED listening
    PROVE  /\ jobs' \in [Sensors -> [Instances -> Seq({"register", "unregister"})]]
           /\ \A s \in Sensors, i \in Instances :
                 IF i = service /\ s \in sensors
                    THEN jobs'[s][i] # <<>> /\ jobs'[s][i][Len(jobs'[s][i])] = job
                    ELSE jobs'[s][i] = jobs[s][i]
<1>1. ASSUME NEW s \in Sensors, NEW i \in Instances
      PROVE  /\ i = service /\ s \in sensors => jobs'[s][i] = Append(jobs[s][i], job)
             /\ ~ (i = service /\ s \in sensors) => jobs'[s][i] = jobs[s][i]
             /\ jobs[s][i] \in Seq({"register", "unregister"})
  BY DEF Submit, TypeOK
<1>2. ASSUME NEW s \in Sensors, NEW i \in Instances
      PROVE  jobs'[s][i] \in Seq({"register", "unregister"})
  <2> DEFINE q == jobs[s][i]
  <2>1. /\ q \in Seq({"register", "unregister"})
        /\ jobs'[s][i] = Append(q, job) \/ jobs'[s][i] = q
    BY <1>1
  <2> HIDE DEF q
  <2>2. Append(q, job) \in Seq({"register", "unregister"})
    BY <2>1, AppendProperties
  <2> QED BY <2>1, <2>2
<1>3. jobs' \in [Sensors -> [Instances -> Seq({"register", "unregister"})]]
  <2>1. jobs' = [s \in Sensors |-> jobs'[s]]
    BY DEF Submit
  <2>2. ASSUME NEW s \in Sensors
        PROVE  jobs'[s] \in [Instances -> Seq({"register", "unregister"})]
    <3>1. jobs'[s] = [i \in Instances |-> jobs'[s][i]]
      BY DEF Submit, TypeOK
    <3> QED BY <3>1, <1>2
  <2> QED BY <2>1, <2>2
<1>4. ASSUME NEW s \in Sensors, NEW i \in Instances, i = service, s \in sensors
      PROVE  jobs'[s][i] # <<>> /\ jobs'[s][i][Len(jobs'[s][i])] = job
  <2> DEFINE q == jobs[s][i]
  <2>1. q \in Seq({"register", "unregister"}) /\ jobs'[s][i] = Append(q, job)
    BY <1>1, <1>4
  <2> HIDE DEF q
  <2> QED BY <2>1, Appended
<1> QED BY <1>1, <1>3, <1>4

\* What was silent, and was given no job, still is.
LEMMA StillSilent ==
    ASSUME NEW s, NEW i, Silent(s, i), jobs'[s][i] = jobs[s][i], UNCHANGED listening
    PROVE  Silent(s, i)'
BY DEF Silent

-----------------------------------------------------------------------------
LEMMA InitInv == Init => Inv
<1> SUFFICES ASSUME Init PROVE Inv
  OBVIOUS
<1>1. TypeOK
  <2>1. <<>> \in Seq({"create", "destroy"}) /\ <<>> \in Seq({"SCREEN_ON", "SCREEN_OFF"})
    BY EmptySeq
  <2>2. jobs \in [Sensors -> [Instances -> Seq({"register", "unregister"})]]
    BY EmptySeq DEF Init
  <2> QED BY <2>1, <2>2 DEF Init, TypeOK
<1>2. Len(<<>>) = 0
  BY EmptySeq
<1>3. Manager /\ Display
  BY <1>2 DEF Init, Manager, Display, Alternates
<1>4. Listeners
  BY DEF Init, Listeners, Silent
<1> QED BY <1>1, <1>3, <1>4 DEF Inv

\* The settings and the checks.
LEMMA SettingsKeepInv ==
    ASSUME Inv,
           \/ BootCompleted \/ ChangeAlwaysOn \/ ChangeDoze
           \/ \E s \in Sensors : ChangeGesture(s)
           \/ HandleCheck /\ open
           \/ Shows
    PROVE  Inv'
<1> USE DEF Inv
<1>1. CASE BootCompleted \/ (HandleCheck /\ open)
  <2>1. /\ CheckDozeService(doze, alwaysOn, gesture)
        /\ UNCHANGED <<settings, open, service, display, broadcasts, listeners, raced>>
        /\ posted' = posted \/ (posted > 0 /\ posted' = posted - 1)
        /\ booting' = FALSE \/ booting' = booting
        /\ stale' = FALSE
    BY <1>1 DEF BootCompleted, HandleCheck
  <2>5. posted' \in Nat
    BY <2>1 DEF TypeOK
  <2>6. booting' \in BOOLEAN /\ stale' \in BOOLEAN
    BY <2>1 DEF TypeOK
  <2>2. Manager' /\ record' \in BOOLEAN /\ scheduled' \in Seq({"create", "destroy"})
    BY <2>1, CheckKeepsManager
  <2>3. TypeOK'
    BY <2>1, <2>2, <2>5, <2>6 DEF TypeOK, settings, listeners
  <2>4. Display' /\ Listeners'
    BY <2>1, SameListeners DEF Display, Alternates, settings, listeners
  <2> QED BY <2>2, <2>3, <2>4
<1>2. CASE ChangeAlwaysOn \/ Shows
  <2>4. posted' \in Nat /\ changes' \in Nat
    BY <1>2 DEF ChangeAlwaysOn, Changes, Shows, TypeOK, settings
  <2>5. alwaysOn' \in BOOLEAN /\ open' \in BOOLEAN
    BY <1>2 DEF ChangeAlwaysOn, Changes, Shows, TypeOK, settings
  <2>6. UNCHANGED <<doze, gesture, booting, record, scheduled, service, display, broadcasts,
                    jobs, listening, stale, raced>>
    BY <1>2 DEF ChangeAlwaysOn, Changes, Shows, settings, listeners, manager
  <2>1. TypeOK'
    BY <2>4, <2>5, <2>6 DEF TypeOK
  <2>2. Manager' /\ Display'
    BY <1>2 DEF ChangeAlwaysOn, Changes, Shows, Manager, Display, Alternates, listeners, manager
  <2>3. Listeners'
    BY <1>2, SameListeners DEF ChangeAlwaysOn, Changes, Shows, settings, listeners
  <2> QED BY <2>1, <2>2, <2>3
<1>3. CASE ChangeDoze
  <2>1. CheckDozeService(~ doze, alwaysOn, gesture) /\ UNCHANGED service
    BY <1>3 DEF ChangeDoze, Changes
  <2>2. Manager' /\ record' \in BOOLEAN /\ scheduled' \in Seq({"create", "destroy"})
    BY <2>1, CheckKeepsManager
  <2>3. doze' \in BOOLEAN /\ alwaysOn' \in BOOLEAN
    BY <1>3 DEF ChangeDoze
  <2>4. TypeOK'
    BY <1>3, <2>2, <2>3 DEF ChangeDoze, Changes, TypeOK, listeners
  <2>5. Display' /\ Listeners'
    BY <1>3, SameListeners DEF ChangeDoze, Changes, Display, Alternates, listeners
  <2> QED BY <2>2, <2>4, <2>5
<1>4. ASSUME NEW s \in Sensors, ChangeGesture(s) PROVE Inv'
  <2> USE <1>4 DEF ChangeGesture, Changes, listeners, manager
  <2>1. gesture' \in [Sensors -> BOOLEAN]
    BY DEF TypeOK
  <2>2. raced' \subseteq Sensors
    BY DEF TypeOK
  <2>3. TypeOK'
    BY <2>1, <2>2 DEF TypeOK
  <2>4. Manager' /\ Display'
    BY DEF Manager, Display, Alternates
  <2>5. ASSUME NEW t \in Sensors, NEW i \in Instances
        PROVE  /\ i # service' => Silent(t, i)'
               /\ i = service' /\ t \notin raced' /\ SeenOn' => Silent(t, i)'
               /\ i = service' /\ t \notin raced' /\ ~ gesture'[t] => Silent(t, i)'
    <3>1. Silent(t, i)' <=> Silent(t, i)
      BY DEF Silent
    <3>2. SeenOn' <=> SeenOn
      BY DEF SeenOn
    <3>3. t \notin raced' => t \notin raced
      OBVIOUS
    <3>4. ~ gesture'[t] /\ gesture[t] /\ t \notin raced' => broadcasts = <<>> /\ display
      BY DEF TypeOK
    <3>5. ~ gesture'[t] /\ t \notin raced' => ~ gesture[t] \/ SeenOn
      BY <3>4 DEF SeenOn
    <3> QED BY <3>1, <3>2, <3>3, <3>5 DEF Listeners
  <2> QED BY <2>3, <2>4, <2>5 DEF Listeners
<1> QED BY <1>1, <1>2, <1>3, <1>4

\* The process dies, and all that listens with it.
LEMMA DiesKeepsInv == ASSUME Inv, Dies PROVE Inv'
<1> USE DEF Inv, Dies
<1>1. Manager'
  <2>1. <<"create">> \in Seq({"create", "destroy"}) /\ Len(<<"create">>) = 1
        /\ <<"create">> # <<>> /\ <<"create">>[1] = "create" /\ Len(<<>>) = 0
    OBVIOUS
  <2>2. Alternates(scheduled')
    BY <2>1 DEF Alternates
  <2> QED BY <2>1, <2>2 DEF Manager
<1>2. Display'
  BY EmptySeq DEF Display, Alternates
<1>3. Listeners'
  BY DEF Listeners, Silent
<1>4. TypeOK'
  <2>1. broadcasts' \in Seq({"SCREEN_ON", "SCREEN_OFF"})
    BY EmptySeq
  <2>3. scheduled' \in Seq({"create", "destroy"})
    <3>1. <<"create">> \in Seq({"create", "destroy"}) /\ <<>> \in Seq({"create", "destroy"})
      BY EmptySeq
    <3> QED BY <3>1
  <2>2. jobs' \in [Sensors -> [Instances -> Seq({"register", "unregister"})]]
    <3>1. [i \in Instances |-> <<>>] \in [Instances -> Seq({"register", "unregister"})]
      BY EmptySeq
    <3> QED BY <3>1
  <2> QED BY <2>1, <2>2, <2>3 DEF TypeOK, settings
<1> QED BY <1>1, <1>2, <1>3, <1>4

\* The main thread creates and destroys the object.
LEMMA ServiceKeepsInv ==
    ASSUME Inv, OnDestroy \/ \E i \in Instances : OnCreate(i)
    PROVE  Inv'
<1> USE DozeAssumption DEF Inv
<1>1. CASE OnDestroy
  <2> USE DEF OnDestroy
  <2>1. Head(scheduled) # "create" /\ service' = None
    BY <1>1
  <2>2. Manager' /\ scheduled' \in Seq({"create", "destroy"})
    BY <1>1, <2>1, TakenKeepsManager
  <2>3. /\ jobs' \in [Sensors -> [Instances -> Seq({"register", "unregister"})]]
        /\ \A s \in Sensors, i \in Instances :
              IF i = service
                 THEN jobs'[s][i] # <<>> /\ jobs'[s][i][Len(jobs'[s][i])] = "unregister"
                 ELSE jobs'[s][i] = jobs[s][i]
    BY <1>1, Submitted
  <2>4. Display' /\ broadcasts' \in Seq({"SCREEN_ON", "SCREEN_OFF"})
    BY <1>1, EmptySeq DEF Display, Alternates
  <2>5. ASSUME NEW s \in Sensors, NEW i \in Instances PROVE Silent(s, i)'
    <3>1. CASE i = service
      BY <2>3, <3>1 DEF Silent
    <3>2. CASE i # service
      BY <1>1, <2>3, <3>2, StillSilent DEF Listeners
    <3> QED BY <3>1, <3>2
  <2>6. TypeOK'
    BY <1>1, <2>2, <2>3, <2>4 DEF TypeOK, settings, app
  <2> QED BY <2>2, <2>4, <2>5, <2>6 DEF Listeners
<1>2. ASSUME NEW i \in Instances, OnCreate(i) PROVE Inv'
  <2> USE <1>2 DEF OnCreate, listeners
  <2>1. service' # None /\ Head(scheduled) = "create"
    OBVIOUS
  <2>2. Manager' /\ scheduled' \in Seq({"create", "destroy"})
    BY <2>1, TakenKeepsManager
  <2>3. service = None
    BY HeadTail DEF Manager, TypeOK
  <2>4. Display'
    BY <2>3 DEF Display, Alternates
  <2>5. ASSUME NEW s \in Sensors, NEW j \in Instances PROVE Silent(s, j)'
    <3>1. Silent(s, j)
      BY <2>3 DEF Listeners
    <3> QED BY <3>1, StillSilent
  <2>6. TypeOK'
    BY <2>2 DEF TypeOK, settings, app
  <2> QED BY <2>2, <2>4, <2>5, <2>6 DEF Listeners
<1> QED BY <1>1, <1>2

\* A broadcast is taken: what is left still takes turns.
LEMMA Heard ==
    ASSUME TypeOK, Display, broadcasts # <<>>, broadcasts' = Tail(broadcasts),
           UNCHANGED <<service, display>>
    PROVE  /\ Display' /\ broadcasts' \in Seq({"SCREEN_ON", "SCREEN_OFF"})
           /\ Head(broadcasts) = broadcasts[1]
           /\ SeenOn' <=> broadcasts[1] = "SCREEN_ON"
<1>1. /\ Alternates(broadcasts')
      /\ broadcasts' # <<>> => broadcasts'[1] # broadcasts[1]
  BY AlternatesTail DEF TypeOK, Display
<1>2. /\ Head(broadcasts) = broadcasts[1] /\ broadcasts[1] \in {"SCREEN_ON", "SCREEN_OFF"}
      /\ broadcasts' \in Seq({"SCREEN_ON", "SCREEN_OFF"})
      /\ broadcasts' # <<>> => broadcasts'[Len(broadcasts')] = broadcasts[Len(broadcasts)]
      /\ broadcasts' = <<>> => Len(broadcasts) = 1
  BY HeadTail DEF TypeOK
<1>3. broadcasts' # <<>> => broadcasts'[1] \in {"SCREEN_ON", "SCREEN_OFF"}
  BY <1>2, HeadTail
<1>4. Display'
  BY <1>1, <1>2 DEF Display
<1>5. SeenOn' <=> broadcasts[1] = "SCREEN_ON"
  BY <1>1, <1>2, <1>3 DEF SeenOn, Display
<1> QED BY <1>2, <1>4, <1>5

\* The service hears of the display.
LEMMA DisplayKeepsInv == ASSUME Inv, OnDisplayOn \/ OnDisplayOff PROVE Inv'
<1> USE DEF Inv, Enabled
<1>1. CASE OnDisplayOn
  <2> USE <1>1 DEF OnDisplayOn
  <2>1. /\ Display' /\ broadcasts' \in Seq({"SCREEN_ON", "SCREEN_OFF"})
        /\ broadcasts[1] = "SCREEN_ON"
    BY Heard
  <2>2. /\ jobs' \in [Sensors -> [Instances -> Seq({"register", "unregister"})]]
        /\ \A s \in Sensors, i \in Instances :
              IF i = service /\ s \in Enabled
                 THEN jobs'[s][i] # <<>> /\ jobs'[s][i][Len(jobs'[s][i])] = "unregister"
                 ELSE jobs'[s][i] = jobs[s][i]
    BY Submitted
  <2>3. TypeOK' /\ Manager'
    BY <2>1, <2>2 DEF TypeOK, Manager, settings, app, manager
  <2>4. ASSUME NEW s \in Sensors, NEW i \in Instances, i # service \/ s \notin raced'
        PROVE  Silent(s, i)'
    <3>1. CASE i = service /\ s \in Enabled
      BY <2>2, <3>1 DEF Silent
    <3>2. CASE ~ (i = service /\ s \in Enabled)
      <4>1. Silent(s, i)
        BY <2>4, <3>2 DEF Listeners
      <4> QED BY <2>2, <3>2, <4>1, StillSilent
    <3> QED BY <3>1, <3>2
  <2> QED BY <2>1, <2>3, <2>4 DEF Listeners
<1>2. CASE OnDisplayOff
  <2> USE <1>2 DEF OnDisplayOff
  <2>1. /\ Display' /\ broadcasts' \in Seq({"SCREEN_ON", "SCREEN_OFF"})
        /\ broadcasts[1] = "SCREEN_OFF" /\ ~ SeenOn'
    BY Heard
  <2>2. /\ jobs' \in [Sensors -> [Instances -> Seq({"register", "unregister"})]]
        /\ \A s \in Sensors, i \in Instances :
              i # service \/ s \notin Enabled => jobs'[s][i] = jobs[s][i]
    BY Submitted
  <2>3. TypeOK' /\ Manager'
    BY <2>1, <2>2 DEF TypeOK, Manager, settings, app, manager
  <2>4. UNCHANGED <<service, gesture, raced, listening>>
    BY DEF settings
  <2>5. ASSUME NEW s \in Sensors, NEW i \in Instances,
               i # service \/ (s \notin raced /\ ~ gesture[s])
        PROVE  Silent(s, i)'
    <3>1. Silent(s, i) /\ jobs'[s][i] = jobs[s][i]
      BY <2>2, <2>5 DEF Listeners
    <3> QED BY <2>4, <3>1, StillSilent
  <2> QED BY <2>1, <2>3, <2>4, <2>5 DEF Listeners
<1> QED BY <1>1, <1>2

\* The display changes.
LEMMA ChangesKeepInv == ASSUME Inv, DisplayChanges PROVE Inv'
<1> USE DEF Inv, DisplayChanges, listeners
<1>1. CASE service = None
  <2>1. Display'
    BY <1>1 DEF Display, Alternates
  <2>2. TypeOK' /\ Manager'
    BY <1>1 DEF TypeOK, Manager, Alternates, settings, app, manager
  <2>3. ASSUME NEW s \in Sensors, NEW i \in Instances PROVE Silent(s, i)'
    <3>1. Silent(s, i)
      BY <1>1, DozeAssumption DEF Listeners
    <3> QED BY <3>1, StillSilent
  <2> QED BY <2>1, <2>2, <2>3 DEF Listeners
<1>2. CASE service # None
  <2>1. PICK x \in {"SCREEN_ON", "SCREEN_OFF"} :
          broadcasts' = Append(broadcasts, x) /\ (x = "SCREEN_OFF" <=> display)
    BY <1>2 DEF TypeOK
  <2>2. broadcasts # <<>> => broadcasts[Len(broadcasts)] # x
    BY <2>1 DEF Display
  <2>3. Alternates(broadcasts')
    BY <2>1, <2>2, AlternatesAppend DEF TypeOK, Display
  <2>4. /\ broadcasts' \in Seq({"SCREEN_ON", "SCREEN_OFF"})
        /\ broadcasts' # <<>> /\ broadcasts'[Len(broadcasts')] = x
        /\ broadcasts # <<>> => broadcasts'[1] = broadcasts[1]
        /\ broadcasts = <<>> => broadcasts'[1] = x
    BY <2>1, Appended DEF TypeOK
  <2>5. display' \in BOOLEAN /\ (display' <=> x = "SCREEN_ON")
    BY <2>1 DEF TypeOK
  <2>6. Display'
    BY <1>2, <2>3, <2>4, <2>5 DEF Display
  <2>7. TypeOK' /\ Manager'
    BY <2>4, <2>5 DEF TypeOK, Manager, Alternates, settings, app, manager
  <2>8. SeenOn' <=> SeenOn
    BY <2>1, <2>4 DEF SeenOn
  <2>9. \A s \in Sensors, i \in Instances : Silent(s, i)' <=> Silent(s, i)
    BY DEF Silent
  <2> QED BY <2>6, <2>7, <2>8, <2>9 DEF Listeners, settings
<1> QED BY <1>1, <1>2

\* An executor runs a job: the last one decides.
LEMMA JobKeepsInv ==
    ASSUME Inv, NEW s \in Sensors, NEW i \in Instances, RunJob(s, i)
    PROVE  Inv'
<1> USE DEF Inv, RunJob
<1> DEFINE q == jobs[s][i]
<1>1. q \in Seq({"register", "unregister"}) /\ q # <<>>
  BY DEF TypeOK
<1>2. /\ Tail(q) \in Seq({"register", "unregister"})
      /\ Head(q) = q[1]
      /\ Tail(q) # <<>> => Tail(q)[Len(Tail(q))] = q[Len(q)]
      /\ Tail(q) = <<>> => Len(q) = 1
  <2> HIDE DEF q
  <2> QED BY <1>1, HeadTail
<1>3. /\ jobs'[s][i] = Tail(q)
      /\ \A t \in Sensors, j \in Instances : <<t, j>> # <<s, i>> => jobs'[t][j] = jobs[t][j]
      /\ jobs' \in [Sensors -> [Instances -> Seq({"register", "unregister"})]]
  BY <1>2 DEF TypeOK
<1>4. ASSUME NEW t \in Sensors, NEW j \in Instances, Silent(t, j)
      PROVE  Silent(t, j)'
  <2>1. CASE t = s /\ j = i
    <3>1. q[Len(q)] = "unregister"
      BY <1>1, <1>4, <2>1 DEF Silent
    <3>2. CASE Tail(q) = <<>>
      <4>1. Head(q) = "unregister"
        BY <1>2, <3>1, <3>2
      <4>2. <<s, i>> \notin listening'
        BY <4>1
      <4> QED BY <1>3, <2>1, <3>2, <4>2 DEF Silent
    <3>3. CASE Tail(q) # <<>>
      BY <1>2, <1>3, <2>1, <3>1, <3>3 DEF Silent
    <3> QED BY <3>2, <3>3
  <2>2. CASE ~ (t = s /\ j = i)
    <3>1. jobs'[t][j] = jobs[t][j]
      BY <1>3, <2>2
    <3>2. <<t, j>> \in listening' <=> <<t, j>> \in listening
      BY <2>2
    <3> QED BY <1>4, <3>1, <3>2 DEF Silent
  <2> QED BY <2>1, <2>2
<1>5. listening' \subseteq Sensors \X Instances
  BY DEF TypeOK
<1>6. TypeOK' /\ Manager' /\ Display'
  BY <1>3, <1>5 DEF TypeOK, Manager, Display, Alternates, settings, app, manager
<1>7. UNCHANGED <<service, raced, gesture>> /\ (SeenOn' <=> SeenOn)
  BY DEF SeenOn, settings
<1> QED BY <1>4, <1>6, <1>7 DEF Listeners

\* Every step of every thread keeps the invariant.
LEMMA NextInv == Inv /\ [Next]_vars => Inv'
<1> SUFFICES ASSUME Inv, [Next]_vars PROVE Inv'
  OBVIOUS
<1>1. CASE UNCHANGED vars
  <2>1. UNCHANGED <<settings, app, manager, service, display, broadcasts, listeners, raced>>
    BY <1>1 DEF vars
  <2>2. TypeOK' /\ Manager' /\ Display'
    BY <2>1 DEF Inv, TypeOK, Manager, Display, Alternates, settings, app, manager, listeners
  <2>3. Listeners'
    BY <2>1, SameListeners DEF Inv, settings, listeners
  <2> QED BY <2>2, <2>3 DEF Inv
<1>2. CASE HandleCheck
  BY <1>2, SettingsKeepInv, DiesKeepsInv DEF HandleCheck
<1> QED BY <1>1, <1>2, SettingsKeepInv, ServiceKeepsInv, DisplayKeepsInv, JobKeepsInv,
           ChangesKeepInv DEF Next

\* The invariant: what is on its way to the service and to its sensors.
THEOREM InvHolds == Spec => []Inv
BY InitInv, NextInv, PTL DEF Spec

\* Every variable has its type.
THEOREM TypeCorrect == Spec => []TypeOK
<1>1. Inv => TypeOK
  BY DEF Inv
<1> QED BY <1>1, InvHolds, PTL

\* A destroyed service leaves no listener behind.
THEOREM ServiceIsSilenced == Spec => []NothingOutlivesService
<1>1. Inv => NothingOutlivesService
  BY DEF Inv, Listeners, Silent, NothingOutlivesService
<1> QED BY <1>1, InvHolds, PTL

\* A sensor is only listened to with the display on if it was turned off meanwhile.
THEOREM SensorsFollowDisplay == Spec => []ListensWithDisplayOff
<1>1. Inv => ListensWithDisplayOff
  BY DEF Inv, Listeners, Silent, SeenOn, ListensWithDisplayOff
<1> QED BY <1>1, InvHolds, PTL

\* What is asked of the activity manager is what the settings want.
THEOREM SettingsAreChecked == Spec => []Checked
<1>1. Init => Checked
  BY DEF Init, Checked
<1>2. Inv /\ Checked /\ [Next]_vars => Checked'
  <2> SUFFICES ASSUME Inv, Checked, [Next]_vars PROVE Checked'
    OBVIOUS
  <2>1. CASE UNCHANGED vars
    BY <2>1 DEF vars, settings, app, manager, Checked, Wanted
  <2>2. CASE BootCompleted \/ (HandleCheck /\ open)
    <3>1. CheckDozeService(doze, alwaysOn, gesture) /\ UNCHANGED <<doze, alwaysOn, gesture>>
      BY <2>2 DEF BootCompleted, HandleCheck, settings
    <3>2. (record' <=> Wanted(doze, alwaysOn, gesture))
      BY <3>1 DEF CheckDozeService, StartService, StopService
    <3> QED BY <3>1, <3>2 DEF Checked, Wanted
  <2>3. CASE ChangeAlwaysOn \/ ChangeDoze \/ \E s \in Sensors : ChangeGesture(s)
    <3>1. posted' = posted + 1 /\ posted \in Nat
      BY <2>3 DEF ChangeAlwaysOn, ChangeDoze, ChangeGesture, Inv, TypeOK
    <3> QED BY <3>1 DEF Checked
  <2>4. CASE HandleCheck /\ ~ open
    BY <2>4 DEF HandleCheck, Dies, Checked
  <2>5. CASE \/ Shows \/ OnDestroy \/ OnDisplayOn \/ OnDisplayOff \/ DisplayChanges
             \/ \E i \in Instances : OnCreate(i)
             \/ \E s \in Sensors, i \in Instances : RunJob(s, i)
    <3>1. UNCHANGED <<doze, alwaysOn, gesture, posted, stale, record>>
      BY <2>5 DEF Shows, OnDestroy, OnDisplayOn, OnDisplayOff, DisplayChanges, OnCreate, RunJob,
                  settings, app, manager
    <3> QED BY <3>1 DEF Checked, Wanted
  <2> QED BY <2>1, <2>2, <2>3, <2>4, <2>5 DEF Next
<1> QED BY <1>1, <1>2, InvHolds, PTL DEF Spec

\* Nothing is on its way between the settings, the activity manager and the service.
Settled == posted = 0 /\ scheduled = <<>> /\ ~ stale

\* Then the service exists exactly if the settings want it.
ServiceStandsAsWanted == Settled => (service # None <=> Wanted(doze, alwaysOn, gesture))

\* Whatever was switched in whatever order, and however often the service came and went,
\* what is left when all was carried out is what the settings say.
THEOREM SettingsAreFollowed == Spec => []ServiceStandsAsWanted
<1>1. Inv /\ Checked => ServiceStandsAsWanted
  BY DEF Inv, Manager, Checked, Settled, ServiceStandsAsWanted
<1> QED BY <1>1, InvHolds, SettingsAreChecked, PTL
=============================================================================
