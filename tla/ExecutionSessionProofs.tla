----------------------- MODULE ExecutionSessionProofs -----------------------
(* Machine-checked facts about the execution path, for every set of        *)
(* connect() calls and every number of order intents.                      *)
EXTENDS ExecutionSession, FiniteSetTheorems, TLAPS

LEMMA PositionIsNat ==
    ASSUME TypeOK
    PROVE  Cardinality(venue) \in Nat
<1>1. IsFiniteSet(Intents)
    BY SessionAssumption, FS_Interval DEF SessionAssumption, Intents
<1>2. IsFiniteSet(venue)
    BY <1>1, FS_Subset DEF TypeOK
<1> QED
    BY <1>2, FS_CardinalityType

LEMMA EventType ==
    /\ \A i \in Intents : Fill(i) \in Events /\ Intent(i) \in Events
    /\ \A n \in Nat : Wallet(n) \in Events
BY DEF Fill, Intent, Wallet, Events

LEMMA EventFields ==
    ASSUME NEW e \in Events
    PROVE  /\ e.units \in Nat
           /\ e.kind = "intent" => e.id \in Intents
BY DEF Events

LEMMA PopType ==
    ASSUME TypeOK, queue # <<>>
    PROVE  First \in Events /\ Pop \in Seq(Events)
BY DEF TypeOK, First, Pop

(* The bus gains an event, or its first one is served.                     *)
LEMMA AppendType ==
    ASSUME NEW q \in Seq(Events), NEW e \in Events
    PROVE  Append(q, e) \in Seq(Events)
OBVIOUS

-----------------------------------------------------------------------------
LEMMA InitType == Init => TypeOK
<1> SUFFICES ASSUME Init PROVE TypeOK
    OBVIOUS
<1>1. conn \in [Connectors -> Calls]
    BY DEF Init, NewCall, Calls
<1>2. exec \in Steps
    BY DEF Init, Idle, Steps
<1>3. queue \in Seq(Events)
    BY DEF Init
<1>4. sent \in 0 .. MaxIntents /\ ledger \in Nat
    BY SessionAssumption DEF SessionAssumption, Init
<1>5. verdict \in [Intents -> {"none", "dropped", "abides", "synthetic", "filled", "failed"}]
    BY DEF Init
<1>6. /\ session \in [Connectors -> {"none", "open", "closing", "closed"}]
      /\ submitted \subseteq Intents /\ refused \subseteq Intents /\ venue \subseteq Intents
    BY DEF Init
<1>7. /\ mode \in {"REALITY", "SIMULATION"} /\ credentialed \in BOOLEAN
      /\ armed \in BOOLEAN /\ exchange \in Connectors \cup {None}
      /\ live \in BOOLEAN /\ closer \in {"up", "closing", "down"}
    BY DEF Init
<1> QED
    BY <1>1, <1>2, <1>3, <1>4, <1>5, <1>6, <1>7 DEF TypeOK

LEMMA ConnectType ==
    ASSUME TypeOK, NEW c \in Connectors, Connect(c)
    PROVE  /\ live' \in BOOLEAN /\ armed' \in BOOLEAN
           /\ session' \in [Connectors -> {"none", "open", "closing", "closed"}]
           /\ conn' \in [Connectors -> Calls]
           /\ exchange' \in Connectors \cup {None}
<1>1. session' \in [Connectors -> {"none", "open", "closing", "closed"}]
    BY DEF Connect, TypeOK
<1>2. conn' \in [Connectors -> Calls]
    BY DEF Connect, TypeOK, Calls
<1> QED
    BY <1>1, <1>2 DEF Connect, TypeOK

LEMMA ReportFillType ==
    ASSUME TypeOK, ReportFill, exec.id \in Intents
    PROVE  /\ verdict' \in [Intents -> {"none", "dropped", "abides", "synthetic", "filled", "failed"}]
           /\ queue' \in Seq(Events)
           /\ exec' \in Steps
<1>1. queue' \in Seq(Events)
    BY EventType, AppendType DEF ReportFill, TypeOK
<1>2. verdict' \in [Intents -> {"none", "dropped", "abides", "synthetic", "filled", "failed"}]
    BY DEF ReportFill, TypeOK
<1>3. exec' \in Steps
    BY DEF ReportFill, TypeOK, Steps, Idle
<1> QED
    BY <1>1, <1>2, <1>3

(* TypeOK is not inductive by itself: a busy dispatcher holds a real       *)
(* intent.                                                                 *)
Busy == exec.pc # "idle" => exec.id \in Intents
Typed == TypeOK /\ Busy

LEMMA NextTyped == Typed /\ [Next]_vars => Typed'
<1> SUFFICES ASSUME Typed, [Next]_vars PROVE Typed'
    OBVIOUS
<1> USE DEF Typed
<1>t. TypeOK /\ Busy
    OBVIOUS
<1>1. CASE BootConnect
    BY <1>1, ConnectType, SessionAssumption
       DEF BootConnect, SessionAssumption, TypeOK, Busy, market
<1>2. CASE RequestSimulation
    BY <1>2 DEF RequestSimulation, TypeOK, Busy, market, binding
<1>3. CASE CloseStarts
    BY <1>3 DEF CloseStarts, TypeOK, Busy, market
<1>4. CASE CloseEnds
    BY <1>4 DEF CloseEnds, TypeOK, Busy, market
<1>5. ASSUME NEW c \in Connectors, RequestReality(c) PROVE Typed'
    BY <1>5, ConnectType DEF RequestReality, TypeOK, Busy, market
<1>6. ASSUME NEW c \in Connectors, ConnStep(c) PROVE Typed'
    <2>1. CASE Bind(c)
        BY <2>1 DEF Bind, TypeOK, Busy, market, Calls
    <2>2. CASE LoadFails(c)
        BY <2>2 DEF LoadFails, TypeOK, Busy, market, Calls
    <2>3. CASE CapitalAnswered(c)
        BY <2>3 DEF CapitalAnswered, TypeOK, Busy, market, binding, Calls
    <2>4. CASE ConnSnapshot(c)
        BY <2>4, PositionIsNat DEF ConnSnapshot, TypeOK, Busy, market, binding, Calls
    <2>5. CASE ConnPublishes(c)
        <3>1. conn[c].seen \in Nat
            BY DEF TypeOK, Calls
        <3>2. queue' \in Seq(Events)
            BY <2>5, <3>1, EventType, AppendType DEF ConnPublishes, TypeOK
        <3>3. conn' \in [Connectors -> Calls]
            BY <2>5 DEF ConnPublishes, TypeOK, Calls
        <3> QED
            BY <2>5, <3>2, <3>3 DEF ConnPublishes, TypeOK, Busy, market, binding
    <2>6. CASE ConnWalletFails(c)
        BY <2>6 DEF ConnWalletFails, TypeOK, Busy, market, binding, Calls
    <2> QED
        BY <1>6, <2>1, <2>2, <2>3, <2>4, <2>5, <2>6 DEF ConnStep
<1>7. ASSUME NEW c \in Connectors, Dispose(c) PROVE Typed'
    BY <1>7 DEF Dispose, TypeOK, Busy, market
<1>8. CASE PublishIntent
    <2>1. sent' \in 0 .. MaxIntents /\ sent' \in Intents
        BY <1>8, SessionAssumption DEF PublishIntent, SessionAssumption, TypeOK, Intents
    <2>2. queue' \in Seq(Events)
        BY <1>8, <2>1, EventType, AppendType DEF PublishIntent, TypeOK
    <2> QED
        BY <1>8, <2>1, <2>2 DEF PublishIntent, TypeOK, Busy, market, binding
<1>9. CASE Dispatch
    <2> DEFINE Verdicts == {"none", "dropped", "abides", "synthetic", "filled", "failed"}
    <2>1. CASE Book
        <3>1. First.units \in Nat /\ queue' \in Seq(Events)
            BY <2>1, PopType, EventFields DEF Book
        <3>2. ledger' \in Nat
            BY <2>1, <3>1 DEF Book, TypeOK
        <3> QED
            BY <2>1, <3>1, <3>2 DEF Book, TypeOK, Busy, market, binding, unmoved
    <2>2. CASE GateDrops
        <3>1. queue' \in Seq(Events)
            BY <2>2, PopType DEF GateDrops
        <3> QED
            BY <2>2, <3>1 DEF GateDrops, TypeOK, Busy, market, binding, unmoved
    <2>3. CASE AbidesFills
        <3>1. queue' \in Seq(Events)
            BY <2>3, PopType DEF AbidesFills
        <3> QED
            BY <2>3, <3>1 DEF AbidesFills, TypeOK, Busy, market, binding, unmoved
    <2>4. CASE SyntheticFill
        <3>1. First.id \in Intents /\ Pop \in Seq(Events)
            BY <2>4, PopType, EventFields DEF SyntheticFill
        <3>2. queue' \in Seq(Events)
            BY <2>4, <3>1, EventType, AppendType DEF SyntheticFill
        <3> QED
            BY <2>4, <3>2 DEF SyntheticFill, TypeOK, Busy, market, binding, unmoved
    <2>5. CASE ExecuteReality
        <3>1. First.id \in Intents /\ queue' \in Seq(Events)
            BY <2>5, PopType, EventFields DEF ExecuteReality
        <3>2. exec' \in Steps /\ exec'.id \in Intents
            BY <2>5, <3>1 DEF ExecuteReality, Steps
        <3> QED
            BY <2>5, <3>1, <3>2 DEF ExecuteReality, TypeOK, Busy, market, binding, unmoved
    <2>6. CASE CreateOrder
        <3>1. exec' \in Steps /\ exec'.id \in Intents
            BY <2>6 DEF CreateOrder, TypeOK, Busy, Steps
        <3>2. submitted' \subseteq Intents
            BY <2>6 DEF CreateOrder, TypeOK, Busy
        <3> QED
            BY <2>6, <3>1, <3>2 DEF CreateOrder, TypeOK, Busy, binding, unmoved
    <2>7. CASE NoSessionLeft
        BY <2>7 DEF NoSessionLeft, TypeOK, Busy, market, binding, unmoved, Idle, Steps
    <2>8. CASE OrderAcknowledged
        <3>1. CASE ReportFill
            <4>1. Busy'
                BY <2>8, <3>1 DEF OrderAcknowledged, ReportFill, Idle, Busy
            <4> QED
                BY <2>8, <3>1, <4>1, ReportFillType
                   DEF OrderAcknowledged, TypeOK, Busy, market, binding, unmoved
        <3>2. CASE exec' = [exec EXCEPT !.pc = "price"] /\ UNCHANGED <<queue, verdict>>
            <4>1. exec' \in Steps /\ Busy'
                BY <2>8, <3>2 DEF OrderAcknowledged, TypeOK, Steps, Busy
            <4> QED
                BY <2>8, <3>2, <4>1 DEF OrderAcknowledged, TypeOK, market, binding, unmoved
        <3> QED
            BY <2>8, <3>1, <3>2 DEF OrderAcknowledged
    <2>9. CASE PriceArrives
        <3>1. Busy'
            BY <2>9 DEF PriceArrives, ReportFill, Idle, Busy
        <3> QED
            BY <2>9, <3>1, ReportFillType
               DEF PriceArrives, TypeOK, Busy, market, binding, unmoved
    <2>10. CASE OrderRaises
        BY <2>10 DEF OrderRaises, TypeOK, Busy, market, binding, unmoved, Idle, Steps
    <2>11. CASE ExecSnapshot
        <3>1. exec' \in Steps /\ Busy'
            BY <2>11, PositionIsNat DEF ExecSnapshot, TypeOK, Busy, Steps
        <3> QED
            BY <2>11, <3>1 DEF ExecSnapshot, TypeOK, market, binding, unmoved
    <2>12. CASE ExecPublishes
        <3>1. exec.seen \in Nat
            BY DEF TypeOK, Steps
        <3>2. queue' \in Seq(Events)
            BY <2>12, <3>1, EventType, AppendType DEF ExecPublishes, TypeOK
        <3> QED
            BY <2>12, <3>2
               DEF ExecPublishes, TypeOK, Busy, market, binding, unmoved, Idle, Steps
    <2>13. CASE ExecWalletFails
        BY <2>13 DEF ExecWalletFails, TypeOK, Busy, market, binding, unmoved, Idle, Steps
    <2> QED
        BY <1>9, <2>1, <2>2, <2>3, <2>4, <2>5, <2>6, <2>7, <2>8, <2>9, <2>10, <2>11,
           <2>12, <2>13 DEF Dispatch
<1>10. ASSUME NEW i \in Intents, VenueExecutes(i) \/ VenueRefuses(i) PROVE Typed'
    BY <1>10 DEF VenueExecutes, VenueRefuses, TypeOK, Busy, binding, unmoved
<1>11. CASE UNCHANGED vars
    BY <1>11 DEF vars, TypeOK, Busy
<1> QED
    BY <1>1, <1>2, <1>3, <1>4, <1>5, <1>6, <1>7, <1>8, <1>9, <1>10, <1>11 DEF Next

LEMMA InitTyped == Init => Typed
BY InitType DEF Init, Typed, Busy, Idle

(* TypeOK holds for every value of the constants.                          *)
THEOREM TypeCorrect == Spec => []TypeOK
<1>1. Typed => TypeOK
    BY DEF Typed
<1> QED
    BY <1>1, InitTyped, NextTyped, PTL DEF Spec

-----------------------------------------------------------------------------
(* What LiveSessionIsOpen rests on: a call that is loading owns an open    *)
(* session that is not bound yet, and after shutdown began nothing is live *)
(* and nothing loads.                                                      *)
Sessions ==
    /\ LiveSessionIsOpen
    /\ \A c \in Connectors :
          /\ conn[c].pc \in {"new", "loading"} => exchange # c
          /\ conn[c].pc = "loading" => session[c] = "open"
    /\ closer # "up" =>
          /\ ~live
          /\ conn[Boot].pc # "new"
          /\ \A c \in Connectors : conn[c].pc # "loading"

LEMMA InitSessions == Init => Sessions
BY SessionAssumption
   DEF SessionAssumption, Init, Sessions, LiveSessionIsOpen, NewCall

LEMMA ConnectSessions ==
    ASSUME TypeOK, Sessions, NEW c \in Connectors, Connect(c), closer = "up", UNCHANGED closer
    PROVE  Sessions'
<1>1. ~live' /\ exchange' = exchange /\ exchange # c
    BY DEF Connect, Sessions, TypeOK
<1>2. ASSUME NEW d \in Connectors
      PROVE  /\ conn'[d].pc \in {"new", "loading"} => exchange' # d
             /\ conn'[d].pc = "loading" => session'[d] = "open"
    BY <1>1 DEF Connect, Sessions, TypeOK, Calls
<1> QED
    BY <1>1, <1>2 DEF Sessions, LiveSessionIsOpen

LEMMA NextSessions == TypeOK /\ Sessions /\ [Next]_vars => Sessions'
<1> SUFFICES ASSUME TypeOK, Sessions, [Next]_vars PROVE Sessions'
    OBVIOUS
<1> DEFINE Kept == UNCHANGED <<exchange, live, session, conn, closer>>
<1>1. CASE BootConnect
    <2>1. Connect(Boot) /\ UNCHANGED closer /\ conn[Boot].pc = "new"
        BY <1>1 DEF BootConnect, Connect
    <2>2. closer = "up"
        BY <2>1 DEF Sessions
    <2> QED
        BY <2>1, <2>2, ConnectSessions, SessionAssumption DEF SessionAssumption
<1>2. CASE RequestSimulation
    <2>1. closer' = "up" /\ conn' = conn
        BY <1>2 DEF RequestSimulation, Serving
    <2>2. CASE armed /\ (exchange # None \/ live)
        <3>1. ~live' /\ exchange' = None
            BY <1>2, <2>2 DEF RequestSimulation
        <3>2. \A c \in Connectors : c # exchange => session'[c] = session[c]
            BY <1>2, <2>2 DEF RequestSimulation
        <3> QED
            BY <2>1, <3>1, <3>2, SessionAssumption
               DEF SessionAssumption, Sessions, LiveSessionIsOpen
    <2>3. CASE ~(armed /\ (exchange # None \/ live))
        BY <1>2, <2>1, <2>3 DEF RequestSimulation, binding, Sessions, LiveSessionIsOpen
    <2> QED
        BY <2>2, <2>3
<1>3. CASE CloseStarts
    BY <1>3 DEF CloseStarts, Serving, Sessions, LiveSessionIsOpen, TypeOK
<1>4. CASE CloseEnds
    BY <1>4, SessionAssumption
       DEF CloseEnds, SessionAssumption, Sessions, LiveSessionIsOpen, TypeOK
<1>5. ASSUME NEW c \in Connectors, RequestReality(c) PROVE Sessions'
    BY <1>5, ConnectSessions DEF RequestReality, Serving
<1>6. ASSUME NEW c \in Connectors, ConnStep(c) PROVE Sessions'
    <2>1. CASE Bind(c)
        <3>1. closer = "up" /\ session[c] = "open" /\ c # None
            BY <2>1, SessionAssumption DEF Bind, SessionAssumption, Sessions
        <3>2. ASSUME NEW d \in Connectors
              PROVE  conn'[d].pc \in {"new", "loading"} => d # c /\ conn'[d] = conn[d]
            BY <2>1 DEF Bind, TypeOK, Calls
        <3>3. exchange' = c /\ session' = session /\ closer' = "up"
            BY <2>1, <3>1 DEF Bind
        <3>4. LiveSessionIsOpen'
            BY <3>1, <3>3 DEF LiveSessionIsOpen
        <3> QED
            BY <3>2, <3>3, <3>4 DEF Sessions
    <2>2. CASE LoadFails(c)
        <3>1. ASSUME NEW d \in Connectors
              PROVE  conn'[d].pc \in {"new", "loading"} => d # c /\ conn'[d] = conn[d]
            BY <2>2 DEF LoadFails, TypeOK, Calls
        <3>2. exchange # c
            BY <2>2 DEF LoadFails, Sessions
        <3>3. ASSUME NEW d \in Connectors, d # c PROVE session'[d] = session[d]
            BY <2>2, <3>3 DEF LoadFails, TypeOK
        <3>4. live => exchange \in Connectors
            BY DEF Sessions, LiveSessionIsOpen, TypeOK
        <3>5. conn'[Boot].pc = "new" => conn[Boot].pc = "new"
            BY <3>1, SessionAssumption DEF SessionAssumption
        <3> QED
            BY <2>2, <3>1, <3>2, <3>3, <3>4, <3>5 DEF LoadFails, Sessions, LiveSessionIsOpen
    <2>3. CASE CapitalAnswered(c) \/ ConnSnapshot(c) \/ ConnPublishes(c) \/ ConnWalletFails(c)
        <3>1. UNCHANGED <<exchange, live, session, closer>>
            BY <2>3 DEF CapitalAnswered, ConnSnapshot, ConnPublishes, ConnWalletFails, binding
        <3>2. ASSUME NEW d \in Connectors
              PROVE  conn'[d].pc \in {"new", "loading"} => conn'[d].pc = conn[d].pc
            BY <2>3 DEF CapitalAnswered, ConnSnapshot, ConnPublishes, ConnWalletFails,
                        TypeOK, Calls
        <3> QED
            BY <3>1, <3>2, SessionAssumption DEF SessionAssumption, Sessions, LiveSessionIsOpen
    <2> QED
        BY <1>6, <2>1, <2>2, <2>3 DEF ConnStep
<1>7. ASSUME NEW c \in Connectors, Dispose(c) PROVE Sessions'
    BY <1>7 DEF Dispose, Sessions, LiveSessionIsOpen, TypeOK
<1>8. CASE PublishIntent
    BY <1>8 DEF PublishIntent, binding, Sessions, LiveSessionIsOpen
<1>9. CASE Dispatch
    <2>1. Kept
        BY <1>9 DEF Dispatch, Book, GateDrops, AbidesFills, SyntheticFill, ExecuteReality,
                    CreateOrder, NoSessionLeft, OrderAcknowledged, PriceArrives, OrderRaises,
                    ExecSnapshot, ExecPublishes, ExecWalletFails, unmoved, binding
    <2> QED
        BY <2>1 DEF Sessions, LiveSessionIsOpen
<1>10. ASSUME NEW i \in Intents, VenueExecutes(i) \/ VenueRefuses(i) PROVE Sessions'
    BY <1>10 DEF VenueExecutes, VenueRefuses, unmoved, binding, Sessions, LiveSessionIsOpen
<1>11. CASE UNCHANGED vars
    BY <1>11 DEF vars, Sessions, LiveSessionIsOpen
<1> QED
    BY <1>1, <1>2, <1>3, <1>4, <1>5, <1>6, <1>7, <1>8, <1>9, <1>10, <1>11 DEF Next

(* However many connect() calls, mode switches and shutdown interleave,    *)
(* _live never outlives its session.                                       *)
THEOREM LiveMeansOpen == Spec => []LiveSessionIsOpen
<1>1. Init => Typed /\ Sessions
    BY InitTyped, InitSessions
<1>2. Typed /\ Sessions /\ [Next]_vars => (Typed /\ Sessions)'
    BY NextTyped, NextSessions DEF Typed
<1>3. Sessions => LiveSessionIsOpen
    BY DEF Sessions
<1> QED
    BY <1>1, <1>2, <1>3, PTL DEF Spec

-----------------------------------------------------------------------------
(* Intent i is on the bus; no intent is there twice.                       *)
Waits(q, i) == \E k \in DOMAIN q : q[k].kind = "intent" /\ q[k].id = i
Distinct(q) ==
    \A j, k \in DOMAIN q :
        q[j].kind = "intent" /\ q[k].kind = "intent" /\ q[j].id = q[k].id => j = k

LEMMA PopWaits ==
    ASSUME TypeOK, queue # <<>>, Distinct(queue)
    PROVE  /\ Distinct(Pop)
           /\ \A i : Waits(Pop, i) => Waits(queue, i)
           /\ First.kind = "intent" => Waits(queue, First.id) /\ ~Waits(Pop, First.id)
<1>1. /\ queue \in Seq(Events) /\ 1 \in DOMAIN queue /\ First = queue[1]
    BY DEF TypeOK, First
<1>2. \A k \in DOMAIN Pop : k + 1 \in DOMAIN queue /\ k + 1 # 1 /\ Pop[k] = queue[k + 1]
    BY <1>1 DEF Pop
<1>3. DOMAIN Pop \subseteq Int
    BY <1>1 DEF Pop
<1>4. Distinct(Pop)
    BY <1>2, <1>3 DEF Distinct
<1>5. \A i : Waits(Pop, i) => Waits(queue, i)
    BY <1>2 DEF Waits
<1>6. First.kind = "intent" => Waits(queue, First.id) /\ ~Waits(Pop, First.id)
    BY <1>1, <1>2 DEF Waits, Distinct
<1> QED
    BY <1>4, <1>5, <1>6

LEMMA AppendWaits ==
    ASSUME NEW q \in Seq(Events), NEW e \in Events, Distinct(q),
           e.kind = "intent" => ~Waits(q, e.id)
    PROVE  /\ Distinct(Append(q, e))
           /\ \A i : Waits(Append(q, e), i) => Waits(q, i) \/ (e.kind = "intent" /\ i = e.id)
<1>1. \A k \in DOMAIN Append(q, e) :
         \/ k \in DOMAIN q /\ Append(q, e)[k] = q[k]
         \/ k = Len(q) + 1 /\ Append(q, e)[k] = e
    OBVIOUS
<1>2. \A i : Waits(Append(q, e), i) => Waits(q, i) \/ (e.kind = "intent" /\ i = e.id)
    BY <1>1 DEF Waits
<1>3. Distinct(Append(q, e))
    <2> SUFFICES ASSUME NEW j \in DOMAIN Append(q, e), NEW k \in DOMAIN Append(q, e),
                        Append(q, e)[j].kind = "intent", Append(q, e)[k].kind = "intent",
                        Append(q, e)[j].id = Append(q, e)[k].id
                 PROVE  j = k
        BY DEF Distinct
    <2>1. CASE j \in DOMAIN q /\ k \in DOMAIN q
        BY <2>1, <1>1 DEF Distinct
    <2>2. CASE j \notin DOMAIN q /\ k \in DOMAIN q
        BY <2>2, <1>1 DEF Waits
    <2>3. CASE j \in DOMAIN q /\ k \notin DOMAIN q
        BY <2>3, <1>1 DEF Waits
    <2>4. CASE j \notin DOMAIN q /\ k \notin DOMAIN q
        BY <2>4, <1>1
    <2> QED
        BY <2>1, <2>2, <2>3, <2>4
<1> QED
    BY <1>2, <1>3

(* An intent that nobody has served yet.                                   *)
Fresh(i) == i <= sent /\ verdict[i] = "none" /\ i \notin submitted

(* What HonestReports rests on: an intent is served once, it is fresh      *)
(* until create_order, and from there on it is with the venue.             *)
ServedOnce ==
    /\ Distinct(queue)
    /\ \A i \in Intents : Waits(queue, i) => Fresh(i)
    /\ \A i \in Intents : i > sent => verdict[i] = "none" /\ i \notin submitted
    /\ exec.pc = "ticker" => Fresh(exec.id) /\ ~Waits(queue, exec.id)
    /\ exec.pc \in {"order", "price"} => exec.id \in submitted
    /\ exec.pc = "price" => exec.id \in venue

Honest == ServedOnce /\ HonestReports

LEMMA InitHonest == Init => Honest
<1> SUFFICES ASSUME Init PROVE Honest
    OBVIOUS
<1>1. DOMAIN queue = {}
    BY DEF Init
<1>2. Distinct(queue) /\ \A i : ~Waits(queue, i)
    BY <1>1 DEF Distinct, Waits
<1> QED
    BY <1>2 DEF Init, Honest, ServedOnce, HonestReports, Idle

(* A step that adds fill or wallet events only.                            *)
LEMMA ReportWaits ==
    ASSUME NEW q \in Seq(Events), NEW e \in Events, e.kind # "intent", Distinct(q)
    PROVE  /\ Distinct(Append(q, e))
           /\ \A i : Waits(Append(q, e), i) => Waits(q, i)
BY AppendWaits

LEMMA ReportKinds ==
    /\ \A i \in Intents : Fill(i) \in Events /\ Fill(i).kind # "intent"
    /\ \A n \in Nat : Wallet(n) \in Events /\ Wallet(n).kind # "intent"
BY EventType DEF Fill, Wallet

(* The bridge reports a fill of an order that the venue has executed.      *)
LEMMA ReportFillHonest ==
    ASSUME Typed, Honest, ReportFill, exec.pc # "idle", exec.id \in venue,
           exec.id \in submitted, UNCHANGED <<sent, submitted, venue>>
    PROVE  Honest'
<1>1. exec.id \in Intents /\ queue \in Seq(Events)
    BY DEF Typed, Busy, TypeOK
<1>2. Distinct(queue') /\ \A i : Waits(queue', i) => Waits(queue, i)
    BY <1>1, ReportKinds, ReportWaits DEF ReportFill, Honest, ServedOnce
<1>3. exec'.pc \notin {"ticker", "order", "price"}
    BY DEF ReportFill, Idle
<1>4. \A i \in Intents : verdict'[i] = IF i = exec.id THEN "filled" ELSE verdict[i]
    BY <1>1 DEF ReportFill, Typed, TypeOK
<1>5. exec.id <= sent
    BY <1>1 DEF Honest, ServedOnce, Typed, TypeOK, Intents
<1>6. \A i \in Intents : Waits(queue', i) => Fresh(i)'
    BY <1>2, <1>4 DEF Honest, ServedOnce, Fresh
<1>7. \A i \in Intents : i > sent' => verdict'[i] = "none" /\ i \notin submitted'
    BY <1>4, <1>5 DEF Honest, ServedOnce, Typed, TypeOK, Intents
<1>8. HonestReports'
    BY <1>4 DEF Honest, HonestReports
<1> QED
    BY <1>2, <1>3, <1>6, <1>7, <1>8 DEF Honest, ServedOnce

(* An intent that is served at once, by whatever answer but a fill.        *)
LEMMA AnsweredHonest ==
    ASSUME Typed, Honest, exec.pc = "idle", UNCHANGED <<exec, sent, submitted, venue>>,
           queue # <<>>, First.kind = "intent",
           NEW v \in {"dropped", "abides", "synthetic"},
           verdict' = [verdict EXCEPT ![First.id] = v],
           Distinct(queue'), \A i : Waits(queue', i) => Waits(Pop, i)
    PROVE  Honest'
<1>1. First.id \in Intents
    BY PopType, EventFields DEF Typed
<1>2. /\ Fresh(First.id) /\ ~Waits(Pop, First.id)
      /\ \A i : Waits(Pop, i) => Waits(queue, i)
    BY <1>1, PopWaits DEF Typed, Honest, ServedOnce
<1>3. \A i \in Intents : verdict'[i] = IF i = First.id THEN v ELSE verdict[i]
    BY <1>1 DEF Typed, TypeOK
<1>4. \A i \in Intents : Waits(queue', i) => Fresh(i)'
    BY <1>2, <1>3 DEF Honest, ServedOnce, Fresh
<1>5. \A i \in Intents : i > sent' => verdict'[i] = "none" /\ i \notin submitted'
    BY <1>2, <1>3 DEF Honest, ServedOnce, Fresh, Typed, TypeOK, Intents
<1>6. HonestReports'
    BY <1>2, <1>3 DEF Honest, HonestReports, Fresh
<1> QED
    BY <1>4, <1>5, <1>6 DEF Honest, ServedOnce

(* A step of the dispatcher that ends without a fill.                      *)
LEMMA FailedHonest ==
    ASSUME Typed, Honest, exec.pc # "idle", exec' = Idle,
           verdict' = [verdict EXCEPT ![exec.id] = "failed"],
           exec.pc \in {"ticker", "order"}, UNCHANGED <<sent, queue, submitted, venue>>
    PROVE  Honest'
<1>1. exec.id \in Intents
    BY DEF Typed, Busy
<1>2. \A i \in Intents : verdict'[i] = IF i = exec.id THEN "failed" ELSE verdict[i]
    BY <1>1 DEF Typed, TypeOK
<1>3. exec.id <= sent /\ ~Waits(queue, exec.id)
    BY <1>1 DEF Honest, ServedOnce, Fresh, Typed, TypeOK, Intents
<1>4. \A i \in Intents : Waits(queue, i) => Fresh(i)'
    BY <1>2, <1>3 DEF Honest, ServedOnce, Fresh
<1>5. \A i \in Intents : i > sent' => verdict'[i] = "none" /\ i \notin submitted'
    BY <1>2, <1>3 DEF Honest, ServedOnce, Typed, TypeOK, Intents
<1>6. HonestReports'
    BY <1>2 DEF Honest, HonestReports
<1> QED
    BY <1>4, <1>5, <1>6 DEF Honest, ServedOnce, Idle

LEMMA DispatchHonest ==
    ASSUME ~Expiring, Typed, Honest, Dispatch
    PROVE  Honest'
<1> USE DEF unmoved, market, binding
<1>1. TypeOK /\ Distinct(queue) /\ queue \in Seq(Events)
    BY DEF Typed, TypeOK, Honest, ServedOnce
<1>2. CASE Book
    <2>1. Distinct(queue') /\ \A i : Waits(queue', i) => Waits(queue, i)
        BY <1>1, <1>2, PopWaits DEF Book
    <2> QED
        BY <1>2, <2>1 DEF Book, Honest, ServedOnce, HonestReports, Fresh
<1>3. CASE GateDrops \/ AbidesFills
    <2>1. queue' = Pop /\ queue # <<>>
        BY <1>3 DEF GateDrops, AbidesFills
    <2>2. Distinct(queue') /\ \A i : Waits(queue', i) => Waits(Pop, i)
        BY <1>1, <2>1, PopWaits
    <2>3. CASE GateDrops
        BY <2>2, <2>3, AnsweredHonest DEF GateDrops
    <2>4. CASE AbidesFills
        BY <2>2, <2>4, AnsweredHonest DEF AbidesFills
    <2> QED
        BY <1>3, <2>3, <2>4
<1>4. CASE SyntheticFill
    <2>1. Pop \in Seq(Events) /\ First.id \in Intents /\ Distinct(Pop)
        BY <1>1, <1>4, PopType, EventFields, PopWaits DEF SyntheticFill
    <2>2. Distinct(queue') /\ \A i : Waits(queue', i) => Waits(Pop, i)
        BY <1>4, <2>1, ReportKinds, ReportWaits DEF SyntheticFill
    <2> QED
        BY <1>4, <2>2, AnsweredHonest DEF SyntheticFill
<1>5. CASE ExecuteReality
    <2>1. First.id \in Intents
        BY <1>1, <1>5, PopType, EventFields DEF ExecuteReality
    <2>2. /\ Distinct(queue') /\ \A i : Waits(queue', i) => Waits(queue, i)
          /\ Waits(queue, First.id) /\ ~Waits(queue', First.id)
        BY <1>1, <1>5, PopWaits DEF ExecuteReality
    <2>3. exec'.pc = "ticker" /\ exec'.id = First.id
        BY <1>5 DEF ExecuteReality
    <2> QED
        BY <1>5, <2>1, <2>2, <2>3
           DEF ExecuteReality, Honest, ServedOnce, HonestReports, Fresh
<1>6. CASE CreateOrder
    <2>1. exec.id \in Intents
        BY <1>6 DEF CreateOrder, Typed, Busy
    <2>2. Fresh(exec.id) /\ ~Waits(queue, exec.id)
        BY <1>6 DEF CreateOrder, Honest, ServedOnce
    <2>3. exec'.pc = "order" /\ exec'.id = exec.id
        BY <1>6 DEF CreateOrder
    <2>4. \A i \in Intents : i > sent => i # exec.id
        BY <2>2 DEF Fresh, Typed, TypeOK, Intents
    <2>5. \A i \in Intents : Waits(queue, i) => Fresh(i)'
        BY <1>6, <2>2 DEF CreateOrder, Honest, ServedOnce, Fresh
    <2>6. HonestReports'
        BY <1>6, <2>2 DEF CreateOrder, Honest, HonestReports, Fresh
    <2> QED
        BY <1>6, <2>3, <2>4, <2>5, <2>6 DEF CreateOrder, Honest, ServedOnce
<1>7. CASE NoSessionLeft
    BY <1>7, FailedHonest DEF NoSessionLeft
<1>8. CASE OrderRaises
    BY <1>8, FailedHonest DEF OrderRaises
<1>9. CASE OrderAcknowledged
    <2>1. exec.pc = "order" /\ exec.id \in venue /\ exec.id \in submitted
        BY <1>9 DEF OrderAcknowledged, Honest, ServedOnce
    <2>2. CASE ReportFill
        BY <1>9, <2>1, <2>2, ReportFillHonest DEF OrderAcknowledged
    <2>3. CASE exec' = [exec EXCEPT !.pc = "price"] /\ UNCHANGED <<queue, verdict>>
        <3>1. exec'.pc = "price" /\ exec'.id = exec.id
            BY <2>3 DEF Typed, TypeOK, Steps
        <3> QED
            BY <1>9, <2>1, <2>3, <3>1
               DEF OrderAcknowledged, Honest, ServedOnce, HonestReports, Fresh
    <2> QED
        BY <1>9, <2>2, <2>3 DEF OrderAcknowledged
<1>10. CASE PriceArrives
    <2>1. exec.pc = "price" /\ exec.id \in venue /\ exec.id \in submitted
        BY <1>10 DEF PriceArrives, Honest, ServedOnce
    <2> QED
        BY <1>10, <2>1, ReportFillHonest DEF PriceArrives
<1>11. CASE ExecSnapshot \/ ExecWalletFails
    <2>1. exec'.pc \notin {"ticker", "order", "price"}
        BY <1>11 DEF ExecSnapshot, ExecWalletFails, Idle
    <2> QED
        BY <1>11, <2>1
           DEF ExecSnapshot, ExecWalletFails, Honest, ServedOnce, HonestReports, Fresh
<1>12. CASE ExecPublishes
    <2>1. exec.seen \in Nat /\ exec'.pc = "idle"
        BY <1>12 DEF ExecPublishes, Idle, Typed, TypeOK, Steps
    <2>2. Distinct(queue') /\ \A i : Waits(queue', i) => Waits(queue, i)
        BY <1>1, <1>12, <2>1, ReportKinds, ReportWaits DEF ExecPublishes
    <2> QED
        BY <1>12, <2>1, <2>2 DEF ExecPublishes, Honest, ServedOnce, HonestReports, Fresh
<1> QED
    BY <1>2, <1>3, <1>4, <1>5, <1>6, <1>7, <1>8, <1>9, <1>10, <1>11, <1>12 DEF Dispatch

LEMMA NextHonest ==
    ASSUME ~Expiring, Typed, Honest, [Next]_vars
    PROVE  Honest'
<1> DEFINE Kept == UNCHANGED <<exec, sent, queue, verdict, submitted, venue>>
<1>k. ASSUME Kept PROVE Honest'
    BY <1>k DEF Honest, ServedOnce, HonestReports, Fresh
<1>1. CASE BootConnect \/ RequestSimulation \/ CloseStarts \/ CloseEnds
    BY <1>1, <1>k DEF BootConnect, RequestSimulation, CloseStarts, CloseEnds, market
<1>2. ASSUME NEW c \in Connectors, RequestReality(c) PROVE Honest'
    BY <1>2, <1>k DEF RequestReality, market
<1>3. ASSUME NEW c \in Connectors, ConnStep(c) PROVE Honest'
    <2>1. CASE ConnPublishes(c)
        <3>1. conn[c].seen \in Nat /\ queue \in Seq(Events) /\ Distinct(queue)
            BY DEF Typed, TypeOK, Calls, Honest, ServedOnce
        <3>2. Distinct(queue') /\ \A i : Waits(queue', i) => Waits(queue, i)
            BY <2>1, <3>1, ReportKinds, ReportWaits DEF ConnPublishes
        <3> QED
            BY <2>1, <3>2
               DEF ConnPublishes, market, Honest, ServedOnce, HonestReports, Fresh
    <2>2. CASE ~ConnPublishes(c)
        BY <1>3, <2>2, <1>k DEF ConnStep, Bind, LoadFails, CapitalAnswered, ConnSnapshot,
                                ConnWalletFails, market
    <2> QED
        BY <2>1, <2>2
<1>4. ASSUME NEW c \in Connectors, Dispose(c) PROVE Honest'
    BY <1>4, <1>k DEF Dispose, market
<1>5. CASE PublishIntent
    <2>1. /\ sent' \in Intents /\ sent' = sent + 1 /\ sent \in Nat
          /\ queue \in Seq(Events) /\ Distinct(queue)
        BY <1>5, SessionAssumption
           DEF PublishIntent, SessionAssumption, Typed, TypeOK, Intents, Honest, ServedOnce
    <2>2. Intent(sent') \in Events /\ Intent(sent').kind = "intent" /\ Intent(sent').id = sent'
        BY <2>1, EventType DEF Intent
    <2>3. ~Waits(queue, sent')
        BY <2>1 DEF Honest, ServedOnce, Fresh
    <2>4. queue' = Append(queue, Intent(sent'))
        BY <1>5 DEF PublishIntent
    <2>5. Distinct(queue') /\ \A i : Waits(queue', i) => Waits(queue, i) \/ i = sent'
        BY <2>1, <2>2, <2>3, <2>4, AppendWaits
    <2>6. UNCHANGED <<exec, verdict, submitted, venue>>
        BY <1>5 DEF PublishIntent, market
    <2>7. \A i \in Intents : i <= sent => i <= sent'
        BY <2>1 DEF Intents
    <2>8. \A i \in Intents : i = sent' => Fresh(i)'
        BY <2>1, <2>6 DEF Fresh, Honest, ServedOnce, Intents
    <2>9. \A i \in Intents : Waits(queue', i) => Fresh(i)'
        BY <2>5, <2>6, <2>7, <2>8 DEF Fresh, Honest, ServedOnce
    <2>10. \A i \in Intents : i > sent' => verdict'[i] = "none" /\ i \notin submitted'
        BY <2>1, <2>6 DEF Honest, ServedOnce, Intents
    <2>11. exec.pc = "ticker" => Fresh(exec.id)' /\ ~Waits(queue', exec.id)
        BY <2>1, <2>5, <2>6, <2>7 DEF Honest, ServedOnce, Fresh, Typed, Busy, Intents
    <2> QED
        BY <2>5, <2>6, <2>9, <2>10, <2>11 DEF Honest, ServedOnce, HonestReports
<1>6. CASE Dispatch
    BY <1>6, DispatchHonest
<1>7. ASSUME NEW i \in Intents, VenueExecutes(i) \/ VenueRefuses(i) PROVE Honest'
    <2>1. UNCHANGED <<exec, sent, queue, verdict, submitted>> /\ venue \subseteq venue'
        BY <1>7 DEF VenueExecutes, VenueRefuses, unmoved
    <2> QED
        BY <2>1 DEF Honest, ServedOnce, HonestReports, Fresh
<1>8. CASE UNCHANGED vars
    BY <1>8, <1>k DEF vars
<1> QED
    BY <1>1, <1>2, <1>3, <1>4, <1>5, <1>6, <1>7, <1>8 DEF Next

(* At a venue that acknowledges only what it executes, an order is never   *)
(* filled twice over: no synthetic fill beside a real one, and no real     *)
(* fill without an execution.                                              *)
THEOREM ReportsAreHonest ==
    ASSUME ~Expiring
    PROVE  Spec => []HonestReports
<1>1. Init => Typed /\ Honest
    BY InitTyped, InitHonest
<1>2. Typed /\ Honest /\ [Next]_vars => (Typed /\ Honest)'
    BY NextTyped, NextHonest
<1>3. Honest => HonestReports
    BY DEF Honest
<1> QED
    BY <1>1, <1>2, <1>3, PTL DEF Spec

-----------------------------------------------------------------------------
(* The fills that are on the bus behind its k-th event.                    *)
Unbooked(q, k) == {q[j].id : j \in {j \in DOMAIN q : j > k /\ q[j].kind = "fill"}}

(* What the bus does for the ledger: an order that was filled is booked or *)
(* has one fill on the bus, and a wallet is what the ledger comes to when  *)
(* the bus has been served that far.                                       *)
Carries(q, filled, booked) ==
    /\ booked = Cardinality(filled \ Unbooked(q, 0))
    /\ \A k \in DOMAIN q :
          /\ q[k].kind = "wallet" => q[k].units = Cardinality(filled \ Unbooked(q, k))
          /\ q[k].kind = "fill" => q[k].id \in filled
    /\ \A j, k \in DOMAIN q :
          q[j].kind = "fill" /\ q[k].kind = "fill" /\ q[j].id = q[k].id => j = k

LEMMA FiniteFills ==
    ASSUME NEW f, f \subseteq Intents
    PROVE  IsFiniteSet(f) /\ Cardinality(f) \in Nat
<1>1. IsFiniteSet(Intents)
    BY SessionAssumption, FS_Interval DEF Intents
<1>2. IsFiniteSet(f)
    BY <1>1, FS_Subset
<1> QED BY <1>2, FS_CardinalityType

LEMMA PopUnbooked ==
    ASSUME queue \in Seq(Events), queue # <<>>
    PROVE  /\ Pop \in Seq(Events)
           /\ \A k \in DOMAIN Pop : k + 1 \in DOMAIN queue /\ Pop[k] = queue[k + 1]
           /\ \A k \in Nat : Unbooked(Pop, k) = Unbooked(queue, k + 1)
           /\ Unbooked(queue, 0) =
                 Unbooked(queue, 1) \cup (IF First.kind = "fill" THEN {First.id} ELSE {})
<1>1. /\ 1 \in DOMAIN queue /\ First = queue[1] /\ Pop \in Seq(Events)
      /\ DOMAIN queue = 1 .. Len(queue) /\ Len(queue) \in Nat
    BY DEF First, Pop
<1>2. DOMAIN Pop = 1 .. Len(queue) - 1
      /\ \A k \in DOMAIN Pop : k + 1 \in DOMAIN queue /\ Pop[k] = queue[k + 1]
    BY <1>1 DEF Pop
<1>3. ASSUME NEW k \in Nat PROVE Unbooked(Pop, k) = Unbooked(queue, k + 1)
    <2>1. ASSUME NEW j \in DOMAIN Pop, j > k, Pop[j].kind = "fill"
          PROVE  Pop[j].id \in Unbooked(queue, k + 1)
        <3>1. j + 1 \in DOMAIN queue /\ j + 1 > k + 1 /\ Pop[j] = queue[j + 1]
            BY <1>1, <1>2, <2>1
        <3> QED BY <2>1, <3>1 DEF Unbooked
    <2>2. ASSUME NEW j \in DOMAIN queue, j > k + 1, queue[j].kind = "fill"
          PROVE  queue[j].id \in Unbooked(Pop, k)
        <3>1. j - 1 \in DOMAIN Pop /\ j - 1 > k /\ Pop[j - 1] = queue[j]
            BY <1>1, <1>2, <2>2
        <3> QED BY <2>2, <3>1 DEF Unbooked
    <2> QED BY <2>1, <2>2 DEF Unbooked
<1>4. Unbooked(queue, 0) =
         Unbooked(queue, 1) \cup (IF First.kind = "fill" THEN {First.id} ELSE {})
    <2>1. \A j \in DOMAIN queue : j > 0 <=> j > 1 \/ j = 1
        BY <1>1
    <2> QED BY <1>1, <2>1 DEF Unbooked
<1> QED BY <1>1, <1>2, <1>3, <1>4

LEMMA AppendUnbooked ==
    ASSUME NEW q \in Seq(Events), NEW e
    PROVE  /\ DOMAIN Append(q, e) = DOMAIN q \cup {Len(q) + 1} /\ Len(q) + 1 \notin DOMAIN q
           /\ \A k \in DOMAIN q : Append(q, e)[k] = q[k]
           /\ Append(q, e)[Len(q) + 1] = e
           /\ \A k \in DOMAIN q \cup {0} :
                 Unbooked(Append(q, e), k) =
                    IF e.kind = "fill" THEN Unbooked(q, k) \cup {e.id} ELSE Unbooked(q, k)
           /\ Unbooked(Append(q, e), Len(q) + 1) = {}
<1>1. /\ DOMAIN Append(q, e) = 1 .. Len(q) + 1 /\ DOMAIN q = 1 .. Len(q) /\ Len(q) \in Nat
      /\ \A k \in DOMAIN q : Append(q, e)[k] = q[k]
      /\ Append(q, e)[Len(q) + 1] = e
    OBVIOUS
<1>2. DOMAIN Append(q, e) = DOMAIN q \cup {Len(q) + 1} /\ Len(q) + 1 \notin DOMAIN q
    BY <1>1
<1>3. ASSUME NEW k \in DOMAIN q \cup {0}
      PROVE  Unbooked(Append(q, e), k) =
                IF e.kind = "fill" THEN Unbooked(q, k) \cup {e.id} ELSE Unbooked(q, k)
    <2>1. k \in Int /\ Len(q) + 1 > k
        BY <1>1
    <2> QED BY <1>1, <1>2, <2>1 DEF Unbooked
<1>4. Unbooked(Append(q, e), Len(q) + 1) = {}
    <2>1. \A j \in DOMAIN Append(q, e) : ~(j > Len(q) + 1)
        BY <1>1
    <2> QED BY <2>1 DEF Unbooked
<1> QED BY <1>1, <1>2, <1>3, <1>4

(* The first event of the bus is served.                                   *)
LEMMA PopCarries ==
    ASSUME queue \in Seq(Events), queue # <<>>, NEW f, f \subseteq Intents,
           NEW booked, Carries(queue, f, booked)
    PROVE  /\ First.kind = "intent" => Carries(Pop, f, booked)
           /\ First.kind = "fill" => Carries(Pop, f, booked + 1)
           /\ First.kind = "wallet" => Carries(Pop, f, First.units)
<1>1. /\ Pop \in Seq(Events) /\ First = queue[1] /\ 1 \in DOMAIN queue
      /\ DOMAIN Pop \subseteq Nat \ {0}
    BY DEF Pop, First
<1>2. \A k \in DOMAIN Pop :
         /\ Pop[k].kind = "wallet" => Pop[k].units = Cardinality(f \ Unbooked(Pop, k))
         /\ Pop[k].kind = "fill" => Pop[k].id \in f
    BY <1>1, PopUnbooked DEF Carries
<1>3. \A j, k \in DOMAIN Pop :
         Pop[j].kind = "fill" /\ Pop[k].kind = "fill" /\ Pop[j].id = Pop[k].id => j = k
    <2> SUFFICES ASSUME NEW j \in DOMAIN Pop, NEW k \in DOMAIN Pop,
                        Pop[j].kind = "fill", Pop[k].kind = "fill", Pop[j].id = Pop[k].id
                 PROVE  j = k
        OBVIOUS
    <2>1. /\ j + 1 \in DOMAIN queue /\ k + 1 \in DOMAIN queue
          /\ Pop[j] = queue[j + 1] /\ Pop[k] = queue[k + 1]
        BY PopUnbooked
    <2>2. j + 1 = k + 1
        BY <2>1 DEF Carries
    <2>3. j \in Nat /\ k \in Nat
        BY <1>1
    <2> QED BY <2>2, <2>3
<1>4. Unbooked(Pop, 0) = Unbooked(queue, 1)
    BY PopUnbooked
<1>5. CASE First.kind = "intent"
    BY <1>2, <1>3, <1>4, <1>5, PopUnbooked DEF Carries
<1>6. CASE First.kind = "wallet"
    BY <1>1, <1>2, <1>3, <1>4, <1>6 DEF Carries
<1>7. CASE First.kind = "fill"
    <2>1. First.id \in f /\ First.id \notin Unbooked(queue, 1)
        BY <1>1, <1>7 DEF Carries, Unbooked
    <2>2. f \ Unbooked(queue, 1) = (f \ Unbooked(queue, 0)) \cup {First.id}
          /\ First.id \notin f \ Unbooked(queue, 0)
        BY <1>7, <2>1, PopUnbooked
    <2>3. Cardinality(f \ Unbooked(queue, 1)) = booked + 1
        <3>1. IsFiniteSet(f \ Unbooked(queue, 0))
            BY FiniteFills
        <3>2. Cardinality((f \ Unbooked(queue, 0)) \cup {First.id}) =
                 Cardinality(f \ Unbooked(queue, 0)) + 1
            BY <2>2, <3>1, FS_AddElement
        <3> QED BY <2>2, <3>2 DEF Carries
    <2> QED BY <1>2, <1>3, <1>4, <1>7, <2>3 DEF Carries
<1> QED BY <1>5, <1>6, <1>7

(* An event is published: an intent, the fill of one more order, or the    *)
(* wallet of a venue that has executed what was filled.                    *)
LEMMA AppendCarries ==
    ASSUME NEW q \in Seq(Events), NEW f, f \subseteq Intents,
           NEW booked, Carries(q, f, booked)
    PROVE  /\ \A i \in Intents : Carries(Append(q, Intent(i)), f, booked)
           /\ \A i \in Intents \ f : Carries(Append(q, Fill(i)), f \cup {i}, booked)
           /\ Carries(Append(q, Wallet(Cardinality(f))), f, booked)
<1>1. ASSUME NEW i \in Intents PROVE Carries(Append(q, Intent(i)), f, booked)
    <2> DEFINE e == Intent(i)
               r == Append(q, e)
    <2>1. e.kind = "intent"
        BY DEF Intent
    <2> HIDE DEF e
    <2>2. /\ DOMAIN r = DOMAIN q \cup {Len(q) + 1}
          /\ \A k \in DOMAIN q : r[k] = q[k]
          /\ r[Len(q) + 1] = e
          /\ \A k \in DOMAIN q \cup {0} : Unbooked(r, k) = Unbooked(q, k)
        BY <2>1, AppendUnbooked
    <2> HIDE DEF r
    <2>3. Carries(r, f, booked)
        BY <2>1, <2>2 DEF Carries
    <2> QED BY <2>3 DEF r, e
<1>2. ASSUME NEW i \in Intents \ f PROVE Carries(Append(q, Fill(i)), f \cup {i}, booked)
    <2> DEFINE e == Fill(i)
               r == Append(q, e)
               g == f \cup {i}
    <2>1. e.kind = "fill" /\ e.id = i
        BY DEF Fill
    <2> HIDE DEF e
    <2>2. /\ DOMAIN r = DOMAIN q \cup {Len(q) + 1}
          /\ \A k \in DOMAIN q : r[k] = q[k]
          /\ r[Len(q) + 1] = e
          /\ \A k \in DOMAIN q \cup {0} : Unbooked(r, k) = Unbooked(q, k) \cup {i}
        BY <2>1, AppendUnbooked
    <2> HIDE DEF r
    <2>3. \A k \in DOMAIN q \cup {0} : g \ Unbooked(r, k) = f \ Unbooked(q, k)
        BY <2>2
    <2>4. \A k \in DOMAIN q : q[k].kind = "fill" => q[k].id \in f /\ q[k].id # i
        BY DEF Carries
    <2>5. booked = Cardinality(g \ Unbooked(r, 0))
        BY <2>3 DEF Carries
    <2>6. ASSUME NEW k \in DOMAIN r
          PROVE  /\ r[k].kind = "wallet" => r[k].units = Cardinality(g \ Unbooked(r, k))
                 /\ r[k].kind = "fill" => r[k].id \in g
        <3>1. CASE k \in DOMAIN q
            BY <2>2, <2>3, <3>1 DEF Carries
        <3>2. CASE k = Len(q) + 1
            BY <2>1, <2>2, <3>2
        <3> QED BY <2>2, <3>1, <3>2
    <2>7. \A j, k \in DOMAIN r :
             r[j].kind = "fill" /\ r[k].kind = "fill" /\ r[j].id = r[k].id => j = k
        BY <2>1, <2>2, <2>4 DEF Carries
    <2>8. Carries(r, g, booked)
        BY <2>5, <2>6, <2>7 DEF Carries
    <2> QED BY <2>8 DEF r, e
<1>3. Carries(Append(q, Wallet(Cardinality(f))), f, booked)
    <2> DEFINE e == Wallet(Cardinality(f))
               r == Append(q, e)
    <2>1. e.kind = "wallet" /\ e.units = Cardinality(f)
        BY DEF Wallet
    <2> HIDE DEF e
    <2>2. /\ DOMAIN r = DOMAIN q \cup {Len(q) + 1}
          /\ \A k \in DOMAIN q : r[k] = q[k]
          /\ r[Len(q) + 1] = e
          /\ \A k \in DOMAIN q \cup {0} : Unbooked(r, k) = Unbooked(q, k)
          /\ Unbooked(r, Len(q) + 1) = {}
        BY <2>1, AppendUnbooked
    <2> HIDE DEF r
    <2>3. ASSUME NEW k \in DOMAIN r
          PROVE  /\ r[k].kind = "wallet" => r[k].units = Cardinality(f \ Unbooked(r, k))
                 /\ r[k].kind = "fill" => r[k].id \in f
        <3>1. CASE k \in DOMAIN q
            BY <2>2, <3>1 DEF Carries
        <3>2. CASE k = Len(q) + 1
            <4>1. f \ Unbooked(r, k) = f
                BY <2>2, <3>2
            <4> QED BY <2>1, <2>2, <3>2, <4>1
        <3> QED BY <2>2, <3>1, <3>2
    <2>4. \A j, k \in DOMAIN r :
             r[j].kind = "fill" /\ r[k].kind = "fill" /\ r[j].id = r[k].id => j = k
        BY <2>1, <2>2 DEF Carries
    <2>5. Carries(r, f, booked)
        BY <2>2, <2>3, <2>4 DEF Carries
    <2> QED BY <2>5 DEF r, e
<1> QED BY <1>1, <1>2, <1>3
-----------------------------------------------------------------------------
Filled == {i \in Intents : verdict[i] = "filled"}

(* No order failed and none was filled synthetically.                      *)
Clean == \A i \in Intents : verdict[i] \notin {"failed", "synthetic"}

(* On a live account connect() asks for no wallet, and an order that is    *)
(* under way has no verdict.                                               *)
UnderWay ==
    /\ \A c \in Connectors : conn[c].pc \in {"new", "loading", "done"}
    /\ exec.pc \in {"ticker", "order", "price"} => verdict[exec.id] = "none"

(* Where nothing went wrong the venue has what was filled, but for the     *)
(* order that is with it, and the bus brings the ledger to it.             *)
Reckoned ==
    /\ Carries(queue, Filled, ledger)
    /\ venue \subseteq submitted
    /\ submitted \subseteq
          Filled \cup (IF exec.pc \in {"order", "price"} THEN {exec.id} ELSE {})
    /\ exec.pc = "answer" => exec.seen = Cardinality(Filled)

Sound == Typed /\ Honest /\ UnderWay

LEMMA InitReckoned == Init => UnderWay /\ Reckoned
<1> SUFFICES ASSUME Init PROVE UnderWay /\ Reckoned
    OBVIOUS
<1>1. UnderWay
    BY DEF Init, UnderWay, NewCall, Idle
<1>2. Filled = {} /\ DOMAIN queue = {} /\ ledger = 0
    BY DEF Init, Filled
<1>3. Filled \ Unbooked(queue, 0) = {}
    BY <1>2
<1>4. Carries(queue, Filled, ledger)
    BY <1>2, <1>3, FS_EmptySet DEF Carries
<1> QED BY <1>1, <1>4 DEF Init, Reckoned, Idle

(* A verdict is final, and an order under way has none.                    *)
LEMMA VerdictsAreFinal ==
    ASSUME ~DemoEnv, Sound, [Next]_vars
    PROVE  /\ UnderWay'
           /\ \A i \in Intents : verdict[i] # "none" => verdict'[i] = verdict[i]
<1> USE DEF market, binding, unmoved
<1> DEFINE Final == \A i \in Intents : verdict[i] # "none" => verdict'[i] = verdict[i]
<1>t. /\ conn \in [Connectors -> Calls] /\ queue \in Seq(Events)
      /\ verdict \in [Intents -> {"none", "dropped", "abides", "synthetic", "filled", "failed"}]
      /\ exec.pc # "idle" => exec.id \in Intents
    BY DEF Sound, Typed, TypeOK, Busy
<1>1. ASSUME UNCHANGED <<exec, verdict>>,
             NEW c \in Connectors, conn'[c].pc \in {"new", "loading", "done"},
             \A d \in Connectors \ {c} : conn'[d] = conn[d]
      PROVE  UnderWay' /\ Final
    BY <1>1 DEF Sound, UnderWay
<1>2. ASSUME UNCHANGED <<conn, exec, verdict>> PROVE UnderWay' /\ Final
    BY <1>2 DEF Sound, UnderWay
<1>3. CASE BootConnect
    BY <1>1, <1>3, <1>t, SessionAssumption DEF BootConnect, Connect, Calls
<1>4. ASSUME NEW c \in Connectors, RequestReality(c) PROVE UnderWay' /\ Final
    BY <1>1, <1>4, <1>t DEF RequestReality, Connect, Calls
<1>5. ASSUME NEW c \in Connectors, ConnStep(c) PROVE UnderWay' /\ Final
    <2>1. Bind(c) \/ LoadFails(c)
        BY <1>5 DEF ConnStep, CapitalAnswered, ConnSnapshot, ConnPublishes, ConnWalletFails,
                    Sound, UnderWay
    <2> QED BY <1>1, <2>1, <1>t DEF Bind, LoadFails, Calls
<1>6. CASE RequestSimulation \/ CloseStarts \/ CloseEnds \/ PublishIntent
           \/ \E c \in Connectors : Dispose(c)
    BY <1>2, <1>6 DEF RequestSimulation, CloseStarts, CloseEnds, PublishIntent, Dispose
<1>7. ASSUME NEW i \in Intents, VenueExecutes(i) \/ VenueRefuses(i)
      PROVE  UnderWay' /\ Final
    BY <1>2, <1>7 DEF VenueExecutes, VenueRefuses
<1>8. CASE Dispatch
    <2>1. CASE Book
        BY <1>2, <2>1 DEF Book
    <2>2. CASE GateDrops \/ AbidesFills \/ SyntheticFill \/ ExecuteReality
        <3>1. First.id \in Intents /\ verdict[First.id] = "none" /\ exec.pc = "idle"
            BY <2>2, PopType, EventFields, PopWaits
               DEF Sound, Typed, Honest, ServedOnce, Fresh, GateDrops, AbidesFills,
                   SyntheticFill, ExecuteReality
        <3> QED BY <2>2, <3>1, <1>t
               DEF Sound, UnderWay, GateDrops, AbidesFills, SyntheticFill, ExecuteReality
    <2>3. CASE CreateOrder
        BY <2>3, <1>t DEF Sound, UnderWay, CreateOrder
    <2>4. CASE NoSessionLeft \/ OrderRaises \/ PriceArrives
        BY <2>4, <1>t DEF Sound, UnderWay, NoSessionLeft, OrderRaises, PriceArrives,
                          ReportFill, Idle
    <2>5. CASE OrderAcknowledged
        <3>1. CASE ReportFill
            BY <2>5, <3>1, <1>t DEF Sound, UnderWay, OrderAcknowledged, ReportFill, Idle
        <3>2. CASE exec' = [exec EXCEPT !.pc = "price"] /\ UNCHANGED <<queue, verdict>>
            <4>1. exec'.id = exec.id /\ exec.pc = "order"
                BY <2>5, <3>2 DEF OrderAcknowledged, Sound, Typed, TypeOK, Steps
            <4> QED BY <2>5, <3>2, <4>1 DEF Sound, UnderWay, OrderAcknowledged
        <3> QED BY <2>5, <3>1, <3>2 DEF OrderAcknowledged
    <2>6. CASE ExecSnapshot \/ ExecPublishes \/ ExecWalletFails
        BY <2>6 DEF Sound, UnderWay, ExecSnapshot, ExecPublishes, ExecWalletFails, Idle
    <2> QED BY <1>8, <2>1, <2>2, <2>3, <2>4, <2>5, <2>6 DEF Dispatch
<1>9. CASE UNCHANGED vars
    BY <1>2, <1>9 DEF vars
<1> QED BY <1>3, <1>4, <1>5, <1>6, <1>7, <1>8, <1>9 DEF Next
(* The dispatcher reports a fill of the order that the venue has.          *)
LEMMA ReportFillReckoned ==
    ASSUME Sound, Reckoned, ReportFill, exec.pc \in {"order", "price"},
           exec.id \in venue, UNCHANGED <<ledger, submitted, venue>>
    PROVE  Reckoned'
<1>1. exec.id \in Intents \ Filled /\ Filled \subseteq Intents /\ queue \in Seq(Events)
    BY DEF Sound, Typed, TypeOK, Busy, UnderWay, Filled
<1>2. Filled' = Filled \cup {exec.id}
    BY <1>1 DEF ReportFill, Filled, Sound, Typed, TypeOK
<1>3. Carries(queue', Filled', ledger')
    BY <1>1, <1>2, AppendCarries DEF ReportFill, Reckoned
<1>4. submitted' \subseteq Filled' /\ exec'.pc \notin {"order", "price", "answer"}
    BY <1>2 DEF Reckoned, ReportFill, Idle
<1> QED BY <1>3, <1>4 DEF Reckoned

LEMMA DispatchReckoned ==
    ASSUME ~Expiring, Sound, Reckoned, Dispatch, Clean'
    PROVE  Reckoned'
<1> USE DEF market, unmoved
<1>t. /\ TypeOK /\ queue \in Seq(Events) /\ Filled \subseteq Intents
      /\ Carries(queue, Filled, ledger)
      /\ verdict \in [Intents -> {"none", "dropped", "abides", "synthetic", "filled", "failed"}]
      /\ exec.pc # "idle" => exec.id \in Intents
    BY DEF Sound, Typed, TypeOK, Busy, Filled, Reckoned
<1>1. CASE Book
    <2>1. /\ queue # <<>> /\ queue' = Pop /\ First.kind \in {"fill", "wallet"}
          /\ First.kind = "fill" => First.units = 1
        <3>1. First \in Events /\ First.kind # "intent" /\ queue # <<>> /\ queue' = Pop
            BY <1>1, <1>t, PopType DEF Book
        <3> QED BY <3>1 DEF Events
    <2>2. Filled' = Filled
        BY <1>1 DEF Book, Filled
    <2>3. Carries(queue', Filled', ledger')
        BY <1>1, <1>t, <2>1, <2>2, PopCarries DEF Book
    <2> QED BY <1>1, <2>2, <2>3 DEF Book, Reckoned
<1>2. CASE GateDrops \/ AbidesFills \/ ExecuteReality
    <2>1. queue # <<>> /\ queue' = Pop /\ First.kind = "intent" /\ ledger' = ledger
        BY <1>2 DEF GateDrops, AbidesFills, ExecuteReality
    <2>2. First.id \in Intents /\ verdict[First.id] = "none" /\ exec.pc = "idle"
        BY <1>2, <1>t, <2>1, PopType, EventFields, PopWaits
           DEF Sound, Honest, ServedOnce, Fresh, GateDrops, AbidesFills, ExecuteReality
    <2>3. Filled' = Filled
        BY <1>2, <1>t, <2>2 DEF Filled, GateDrops, AbidesFills, ExecuteReality
    <2>4. Carries(queue', Filled', ledger')
        BY <1>t, <2>1, <2>3, PopCarries
    <2>5. exec'.pc \in {"idle", "ticker"}
        BY <1>2, <2>2 DEF GateDrops, AbidesFills, ExecuteReality
    <2> QED BY <1>2, <2>2, <2>3, <2>4, <2>5
            DEF GateDrops, AbidesFills, ExecuteReality, Reckoned
<1>3. ~SyntheticFill /\ ~NoSessionLeft /\ ~OrderRaises
    <2>1. CASE SyntheticFill
        <3>1. First.id \in Intents
            BY <1>t, <2>1, PopType, EventFields DEF SyntheticFill
        <3> QED BY <1>t, <2>1, <3>1 DEF SyntheticFill, Clean
    <2>2. CASE NoSessionLeft \/ OrderRaises
        BY <1>t, <2>2 DEF NoSessionLeft, OrderRaises, Clean
    <2> QED BY <2>1, <2>2
<1>4. CASE CreateOrder
    <2>1. /\ UNCHANGED <<queue, verdict, venue, ledger>> /\ exec.pc = "ticker"
          /\ exec'.pc = "order" /\ exec'.id = exec.id /\ submitted' = submitted \cup {exec.id}
        BY <1>4 DEF CreateOrder
    <2>2. Filled' = Filled
        BY <2>1 DEF Filled
    <2> QED BY <2>1, <2>2 DEF Reckoned
<1>5. CASE OrderAcknowledged
    <2>1. exec.pc = "order" /\ exec.id \in venue
        BY <1>5 DEF OrderAcknowledged
    <2>2. CASE ReportFill
        BY <1>5, <2>1, <2>2, ReportFillReckoned DEF OrderAcknowledged
    <2>3. CASE exec' = [exec EXCEPT !.pc = "price"] /\ UNCHANGED <<queue, verdict>>
        <3>1. exec'.pc = "price" /\ exec'.id = exec.id
            BY <1>t, <2>3 DEF TypeOK, Steps
        <3>2. Filled' = Filled
            BY <2>3 DEF Filled
        <3> QED BY <1>5, <2>1, <2>3, <3>1, <3>2 DEF OrderAcknowledged, Reckoned
    <2> QED BY <1>5, <2>2, <2>3 DEF OrderAcknowledged
<1>6. CASE PriceArrives
    <2>1. exec.pc = "price" /\ exec.id \in venue
        BY <1>6 DEF PriceArrives, Sound, Honest, ServedOnce
    <2> QED BY <1>6, <2>1, ReportFillReckoned DEF PriceArrives
<1>7. CASE ExecSnapshot
    <2>1. /\ UNCHANGED <<queue, verdict, submitted, venue, ledger>> /\ exec.pc = "wallet"
          /\ exec'.pc = "answer" /\ exec'.seen = Cardinality(venue)
        BY <1>7 DEF ExecSnapshot
    <2>2. Filled' = Filled
        BY <2>1 DEF Filled
    <2>3. venue = Filled
        BY <1>t, <2>1 DEF Reckoned, Sound, Honest, HonestReports, Filled
    <2> QED BY <2>1, <2>2, <2>3 DEF Reckoned
<1>8. CASE ExecPublishes
    <2>1. /\ UNCHANGED <<verdict, submitted, venue, ledger>> /\ exec.pc = "answer"
          /\ exec'.pc = "idle" /\ queue' = Append(queue, Wallet(Cardinality(Filled)))
        BY <1>8 DEF ExecPublishes, Reckoned, Idle
    <2>2. Filled' = Filled
        BY <2>1 DEF Filled
    <2>3. Carries(queue', Filled', ledger')
        BY <1>t, <2>1, <2>2, AppendCarries
    <2> QED BY <2>1, <2>2, <2>3 DEF Reckoned
<1>9. CASE ExecWalletFails
    <2>1. /\ UNCHANGED <<queue, verdict, submitted, venue, ledger>>
          /\ exec.pc \in {"wallet", "answer"} /\ exec'.pc = "idle"
        BY <1>9 DEF ExecWalletFails, Idle
    <2>2. Filled' = Filled
        BY <2>1 DEF Filled
    <2> QED BY <2>1, <2>2 DEF Reckoned
<1> QED BY <1>1, <1>2, <1>3, <1>4, <1>5, <1>6, <1>7, <1>8, <1>9 DEF Dispatch

LEMMA NextReckoned ==
    ASSUME ~Expiring, ~DemoEnv, Sound, Reckoned, [Next]_vars, Clean'
    PROVE  Reckoned'
<1> USE DEF market, binding, unmoved
<1>k. ASSUME UNCHANGED <<exec, queue, verdict, submitted, venue, ledger>> PROVE Reckoned'
    <2>1. Filled' = Filled
        BY <1>k DEF Filled
    <2> QED BY <1>k, <2>1 DEF Reckoned
<1>1. CASE BootConnect \/ RequestSimulation \/ CloseStarts \/ CloseEnds
    BY <1>1, <1>k DEF BootConnect, RequestSimulation, CloseStarts, CloseEnds
<1>2. ASSUME NEW c \in Connectors, RequestReality(c) \/ Dispose(c) PROVE Reckoned'
    BY <1>2, <1>k DEF RequestReality, Dispose
<1>3. ASSUME NEW c \in Connectors, ConnStep(c) PROVE Reckoned'
    <2>1. Bind(c) \/ LoadFails(c)
        BY <1>3 DEF ConnStep, CapitalAnswered, ConnSnapshot, ConnPublishes, ConnWalletFails,
                    Sound, UnderWay
    <2> QED BY <1>k, <2>1 DEF Bind, LoadFails
<1>4. CASE PublishIntent
    <2>1. sent' \in Intents /\ queue' = Append(queue, Intent(sent'))
          /\ UNCHANGED <<exec, verdict, submitted, venue, ledger>>
        BY <1>4, SessionAssumption
           DEF PublishIntent, SessionAssumption, Sound, Typed, TypeOK, Intents
    <2>2. Filled' = Filled /\ Filled \subseteq Intents /\ queue \in Seq(Events)
        BY <2>1 DEF Filled, Sound, Typed, TypeOK
    <2>3. Carries(queue', Filled', ledger')
        BY <2>1, <2>2, AppendCarries DEF Reckoned
    <2> QED BY <2>1, <2>2, <2>3 DEF Reckoned
<1>5. CASE Dispatch
    BY <1>5, DispatchReckoned
<1>6. ASSUME NEW i \in Intents, VenueExecutes(i) \/ VenueRefuses(i) PROVE Reckoned'
    <2>1. /\ UNCHANGED <<exec, queue, verdict, submitted, ledger>>
          /\ venue' \subseteq venue \cup {i} /\ i \in submitted
        BY <1>6 DEF VenueExecutes, VenueRefuses
    <2>2. Filled' = Filled
        BY <2>1 DEF Filled
    <2> QED BY <2>1, <2>2 DEF Reckoned
<1>7. CASE UNCHANGED vars
    BY <1>7, <1>k DEF vars
<1> QED BY <1>1, <1>2, <1>3, <1>4, <1>5, <1>6, <1>7 DEF Next

LEMMA SettledIsReckoned ==
    ASSUME Sound, Clean => Reckoned
    PROVE  LedgerReconciled
<1> SUFFICES ASSUME Settled PROVE ledger = Cardinality(venue)
    BY DEF LedgerReconciled
<1>1. Clean
    <2>1. \A i \in Intents : i > sent => verdict[i] = "none"
        BY DEF Sound, Honest, ServedOnce
    <2>2. \A i \in Intents : i > sent \/ i \in 1 .. sent
        BY DEF Sound, Typed, TypeOK, Intents
    <2> QED BY <2>1, <2>2 DEF Settled, Clean
<1>2. Reckoned /\ queue = <<>> /\ exec.pc = "idle"
    BY <1>1 DEF Settled
<1>3. venue = Filled
    BY <1>2 DEF Reckoned, Sound, Honest, HonestReports, Filled, Typed, TypeOK
<1>4. Filled \ Unbooked(queue, 0) = Filled
    BY <1>2 DEF Unbooked
<1> QED BY <1>2, <1>3, <1>4 DEF Reckoned, Carries

(* On a live account, whatever sessions come and go, the ledger holds the  *)
(* venue's position when nothing is in flight, no order failed and none    *)
(* was filled synthetically. In the demo environment connect() asks for    *)
(* the wallet beside the dispatcher, and this is not so.                   *)
THEOREM LedgerIsReconciled ==
    ASSUME ~Expiring, ~DemoEnv
    PROVE  Spec => []LedgerReconciled
<1> DEFINE Inv == Sound /\ (Clean => Reckoned)
<1>1. Init => Inv
    BY InitTyped, InitHonest, InitReckoned DEF Sound
<1>2. Inv /\ [Next]_vars => Inv'
    <2> SUFFICES ASSUME Inv, [Next]_vars PROVE Inv'
        OBVIOUS
    <2>1. Sound'
        BY NextTyped, NextHonest, VerdictsAreFinal DEF Sound
    <2>2. ASSUME Clean' PROVE Clean
        BY <2>2, VerdictsAreFinal DEF Clean
    <2> QED BY <2>1, <2>2, NextReckoned
<1>3. Inv => LedgerReconciled
    BY SettledIsReckoned
<1> QED BY <1>1, <1>2, <1>3, PTL DEF Spec

-----------------------------------------------------------------------------
(* No order is lost and none is served twice, at any venue and in either   *)
(* environment.                                                            *)

(* The dispatcher has intent i in hand.                                    *)
AtWork(i) == exec.pc \in {"ticker", "order", "price"} /\ exec.id = i

Answered(i) == verdict[i] # "none"

(* An intent that was published is on the bus, in hand or answered, and    *)
(* never two of them; one that was not published is nowhere.               *)
Accounted ==
    /\ Distinct(queue)
    /\ \A i \in Intents :
          /\ i <= sent <=> Waits(queue, i) \/ AtWork(i) \/ Answered(i)
          /\ Waits(queue, i) => ~AtWork(i) /\ ~Answered(i)
          /\ AtWork(i) => ~Answered(i)

(* What was answered once is not answered again.                           *)
AnswersStand == \A i \in Intents : Answered(i) => verdict'[i] = verdict[i]

LEMMA InitAccounted == Init => Accounted
<1> SUFFICES ASSUME Init PROVE Accounted
    OBVIOUS
<1>1. DOMAIN queue = {} /\ sent = 0 /\ exec.pc = "idle" /\ \A i \in Intents : ~Answered(i)
    BY DEF Init, Idle, Answered
<1>2. Distinct(queue) /\ \A i : ~Waits(queue, i) /\ ~AtWork(i)
    BY <1>1 DEF Distinct, Waits, AtWork
<1>3. \A i \in Intents : ~(i <= sent)
    BY <1>1, SessionAssumption DEF Intents, SessionAssumption
<1> QED
    BY <1>1, <1>2, <1>3 DEF Accounted

(* Taking the first event off the bus removes that one only.               *)
LEMMA PoppedOnly ==
    ASSUME TypeOK, queue # <<>>, Distinct(queue)
    PROVE  /\ Distinct(Pop)
           /\ \A i : Waits(Pop, i) <=> Waits(queue, i) /\ ~(First.kind = "intent" /\ First.id = i)
<1>1. /\ queue \in Seq(Events) /\ 1 \in DOMAIN queue /\ First = queue[1]
    BY DEF TypeOK, First
<1>2. \A k \in DOMAIN queue : k = 1 \/ (k - 1 \in DOMAIN Pop /\ Pop[k - 1] = queue[k])
    BY <1>1 DEF Pop
<1>3. /\ Distinct(Pop) /\ \A i : Waits(Pop, i) => Waits(queue, i)
      /\ First.kind = "intent" => ~Waits(Pop, First.id)
    BY PopWaits
<1>4. ASSUME NEW i, Waits(queue, i), ~Waits(Pop, i) PROVE First.kind = "intent" /\ First.id = i
    <2>1. PICK k \in DOMAIN queue : queue[k].kind = "intent" /\ queue[k].id = i
        BY <1>4 DEF Waits
    <2>2. k = 1
        BY <1>2, <1>4, <2>1 DEF Waits
    <2> QED
        BY <1>1, <2>1, <2>2
<1> QED
    BY <1>3, <1>4

(* Putting an event on the bus adds that one only.                         *)
LEMMA AppendedOnly ==
    ASSUME NEW q \in Seq(Events), NEW e \in Events, Distinct(q),
           e.kind = "intent" => ~Waits(q, e.id)
    PROVE  /\ Distinct(Append(q, e))
           /\ \A i : Waits(Append(q, e), i) <=> Waits(q, i) \/ (e.kind = "intent" /\ i = e.id)
<1>1. /\ \A k \in DOMAIN q : k \in DOMAIN Append(q, e) /\ Append(q, e)[k] = q[k]
      /\ Len(q) + 1 \in DOMAIN Append(q, e) /\ Append(q, e)[Len(q) + 1] = e
    OBVIOUS
<1>2. \A i : Waits(q, i) => Waits(Append(q, e), i)
    BY <1>1 DEF Waits
<1>3. e.kind = "intent" => Waits(Append(q, e), e.id)
    BY <1>1 DEF Waits
<1> QED
    BY <1>2, <1>3, AppendWaits

(* A step that serves no intent: fills and wallets may come and go.        *)
LEMMA ElsewhereAccounted ==
    ASSUME Typed, Accounted, UNCHANGED <<sent, verdict>>, Distinct(queue'),
           \A i : Waits(queue', i) <=> Waits(queue, i),
           \A i : AtWork(i)' <=> AtWork(i)
    PROVE  Accounted' /\ AnswersStand
<1>1. \A i \in Intents : Answered(i)' <=> Answered(i)
    BY DEF Answered
<1>2. AnswersStand
    BY DEF AnswersStand
<1> QED
    BY <1>1, <1>2 DEF Accounted

(* The intent that was first on the bus is answered at once.               *)
LEMMA ServedAccounted ==
    ASSUME Typed, Accounted, exec.pc = "idle", UNCHANGED <<exec, sent>>,
           queue # <<>>, First.kind = "intent",
           NEW v \in {"dropped", "abides", "synthetic"},
           verdict' = [verdict EXCEPT ![First.id] = v],
           Distinct(queue'), \A i : Waits(queue', i) <=> Waits(Pop, i)
    PROVE  Accounted' /\ AnswersStand
<1>1. First.id \in Intents
    BY PopType, EventFields DEF Typed
<1>2. \A i : Waits(queue', i) <=> Waits(queue, i) /\ i # First.id
    BY PoppedOnly DEF Typed, Accounted
<1>3. Waits(queue, First.id)
    BY PopWaits DEF Typed, Accounted
<1>4. \A i \in Intents : verdict'[i] = IF i = First.id THEN v ELSE verdict[i]
    BY <1>1 DEF Typed, TypeOK
<1>5. \A i \in Intents : Answered(i)' <=> Answered(i) \/ i = First.id
    BY <1>4 DEF Answered
<1>6. \A i : ~AtWork(i) /\ ~AtWork(i)'
    BY DEF AtWork
<1>7. AnswersStand
    BY <1>3, <1>4 DEF AnswersStand, Accounted
<1>8. Accounted'
    BY <1>1, <1>2, <1>3, <1>5, <1>6 DEF Accounted
<1> QED
    BY <1>7, <1>8

(* The dispatcher is done with the intent that it had in hand.             *)
LEMMA DoneAccounted ==
    ASSUME Typed, Accounted, exec.pc \in {"ticker", "order", "price"},
           exec'.pc \notin {"ticker", "order", "price"}, UNCHANGED sent,
           NEW v \in {"filled", "failed"}, verdict' = [verdict EXCEPT ![exec.id] = v],
           Distinct(queue'), \A i : Waits(queue', i) <=> Waits(queue, i)
    PROVE  Accounted' /\ AnswersStand
<1>1. exec.id \in Intents /\ AtWork(exec.id)
    BY DEF AtWork, Typed, Busy
<1>2. \A i \in Intents : verdict'[i] = IF i = exec.id THEN v ELSE verdict[i]
    BY <1>1 DEF Typed, TypeOK
<1>3. \A i \in Intents : Answered(i)' <=> Answered(i) \/ i = exec.id
    BY <1>2 DEF Answered
<1>4. \A i : ~AtWork(i)' /\ (AtWork(i) <=> i = exec.id)
    BY DEF AtWork
<1>5. AnswersStand
    BY <1>1, <1>2 DEF AnswersStand, Accounted
<1>6. Accounted'
    BY <1>1, <1>3, <1>4 DEF Accounted
<1> QED
    BY <1>5, <1>6

LEMMA ReportFillAccounted ==
    ASSUME Typed, Accounted, exec.pc \in {"order", "price"}, ReportFill, UNCHANGED sent
    PROVE  Accounted' /\ AnswersStand
<1>1. exec.id \in Intents /\ queue \in Seq(Events) /\ Distinct(queue)
    BY DEF Typed, TypeOK, Busy, Accounted
<1>2. Distinct(queue') /\ \A i : Waits(queue', i) <=> Waits(queue, i)
    BY <1>1, ReportKinds, AppendedOnly DEF ReportFill
<1>3. exec'.pc \notin {"ticker", "order", "price"}
    BY DEF ReportFill, Idle
<1>4. verdict' = [verdict EXCEPT ![exec.id] = "filled"]
    BY DEF ReportFill
<1> QED
    BY <1>2, <1>3, <1>4, DoneAccounted

LEMMA DispatchAccounted ==
    ASSUME Typed, Accounted, Dispatch
    PROVE  Accounted' /\ AnswersStand
<1> USE DEF unmoved, market, binding
<1>1. TypeOK /\ Distinct(queue) /\ queue \in Seq(Events)
    BY DEF Typed, TypeOK, Accounted
<1>2. CASE Book
    <2>1. queue # <<>> /\ First.kind # "intent" /\ queue' = Pop
          /\ UNCHANGED <<exec, sent, verdict>>
        BY <1>2 DEF Book
    <2>2. Distinct(queue') /\ \A i : Waits(queue', i) <=> Waits(queue, i)
        BY <1>1, <2>1, PoppedOnly
    <2>3. \A i : AtWork(i)' <=> AtWork(i)
        BY <2>1 DEF AtWork
    <2> QED
        BY <2>1, <2>2, <2>3, ElsewhereAccounted
<1>3. CASE GateDrops \/ AbidesFills
    <2>1. /\ queue' = Pop /\ queue # <<>> /\ First.kind = "intent" /\ exec.pc = "idle"
          /\ UNCHANGED <<exec, sent>>
          /\ \E v \in {"dropped", "abides", "synthetic"} :
                verdict' = [verdict EXCEPT ![First.id] = v]
        BY <1>3 DEF GateDrops, AbidesFills
    <2>2. Distinct(queue') /\ \A i : Waits(queue', i) <=> Waits(Pop, i)
        BY <1>1, <2>1, PoppedOnly
    <2> QED
        BY <2>1, <2>2, ServedAccounted
<1>4. CASE SyntheticFill
    <2>1. Pop \in Seq(Events) /\ First.id \in Intents /\ Distinct(Pop)
        BY <1>1, <1>4, PopType, EventFields, PopWaits DEF SyntheticFill
    <2>2. Distinct(queue') /\ \A i : Waits(queue', i) <=> Waits(Pop, i)
        BY <1>4, <2>1, ReportKinds, AppendedOnly DEF SyntheticFill
    <2> QED
        BY <1>4, <2>2, ServedAccounted DEF SyntheticFill
<1>5. CASE ExecuteReality
    <2>1. /\ queue # <<>> /\ First.kind = "intent" /\ queue' = Pop /\ exec.pc = "idle"
          /\ exec'.pc = "ticker" /\ exec'.id = First.id /\ UNCHANGED <<sent, verdict>>
        BY <1>5 DEF ExecuteReality
    <2>2. Distinct(queue') /\ \A i : Waits(queue', i) <=> Waits(queue, i) /\ i # First.id
        BY <1>1, <2>1, PoppedOnly
    <2>3. Waits(queue, First.id)
        BY <1>1, <2>1, PopWaits
    <2>4. \A i : ~AtWork(i) /\ (AtWork(i)' <=> i = First.id)
        BY <2>1 DEF AtWork
    <2>5. \A i \in Intents : Answered(i)' <=> Answered(i)
        BY <2>1 DEF Answered
    <2>6. AnswersStand
        BY <2>1 DEF AnswersStand
    <2> QED
        BY <2>1, <2>2, <2>3, <2>4, <2>5, <2>6 DEF Accounted
<1>6. CASE CreateOrder
    <2>1. exec.pc = "ticker" /\ exec'.pc = "order" /\ exec'.id = exec.id
          /\ UNCHANGED <<queue, sent, verdict>>
        BY <1>6 DEF CreateOrder
    <2>2. \A i : AtWork(i)' <=> AtWork(i)
        BY <2>1 DEF AtWork
    <2> QED
        BY <1>1, <2>1, <2>2, ElsewhereAccounted
<1>7. CASE NoSessionLeft \/ OrderRaises
    <2>1. /\ exec.pc \in {"ticker", "order"} /\ exec'.pc = "idle" /\ UNCHANGED <<queue, sent>>
          /\ verdict' = [verdict EXCEPT ![exec.id] = "failed"]
        BY <1>7 DEF NoSessionLeft, OrderRaises, Idle
    <2> QED
        BY <1>1, <2>1, DoneAccounted
<1>8. CASE OrderAcknowledged
    <2>1. CASE ReportFill
        BY <1>8, <2>1, ReportFillAccounted DEF OrderAcknowledged
    <2>2. CASE exec' = [exec EXCEPT !.pc = "price"] /\ UNCHANGED <<queue, verdict>>
        <3>1. exec.pc = "order" /\ exec'.pc = "price" /\ exec'.id = exec.id /\ UNCHANGED sent
            BY <1>8, <2>2 DEF OrderAcknowledged, Typed, TypeOK, Steps
        <3>2. \A i : AtWork(i)' <=> AtWork(i)
            BY <3>1 DEF AtWork
        <3> QED
            BY <1>1, <2>2, <3>1, <3>2, ElsewhereAccounted
    <2> QED
        BY <1>8, <2>1, <2>2 DEF OrderAcknowledged
<1>9. CASE PriceArrives
    BY <1>9, ReportFillAccounted DEF PriceArrives
<1>10. CASE ExecSnapshot \/ ExecPublishes \/ ExecWalletFails
    <2>1. /\ exec.pc \in {"wallet", "answer"} /\ exec'.pc \in {"idle", "answer"}
          /\ UNCHANGED <<sent, verdict>>
        BY <1>10 DEF ExecSnapshot, ExecPublishes, ExecWalletFails, Idle
    <2>2. \A i : ~AtWork(i) /\ ~AtWork(i)'
        BY <2>1 DEF AtWork
    <2>3. Distinct(queue') /\ \A i : Waits(queue', i) <=> Waits(queue, i)
        <3>1. exec.seen \in Nat
            BY DEF Typed, TypeOK, Steps
        <3>2. CASE ExecPublishes
            BY <1>1, <3>1, <3>2, ReportKinds, AppendedOnly DEF ExecPublishes
        <3>3. CASE ExecSnapshot \/ ExecWalletFails
            BY <1>1, <3>3 DEF ExecSnapshot, ExecWalletFails
        <3> QED
            BY <1>10, <3>2, <3>3
    <2> QED
        BY <2>1, <2>2, <2>3, ElsewhereAccounted
<1> QED
    BY <1>2, <1>3, <1>4, <1>5, <1>6, <1>7, <1>8, <1>9, <1>10 DEF Dispatch

LEMMA NextAccounted ==
    ASSUME Typed, Accounted, [Next]_vars
    PROVE  Accounted' /\ AnswersStand
<1> DEFINE Kept == UNCHANGED <<exec, sent, queue, verdict>>
<1>k. ASSUME Kept PROVE Accounted' /\ AnswersStand
    BY <1>k, ElsewhereAccounted DEF Accounted, AtWork
<1>1. CASE BootConnect \/ RequestSimulation \/ CloseStarts \/ CloseEnds
    BY <1>1, <1>k DEF BootConnect, RequestSimulation, CloseStarts, CloseEnds, market
<1>2. ASSUME NEW c \in Connectors, RequestReality(c) PROVE Accounted' /\ AnswersStand
    BY <1>2, <1>k DEF RequestReality, market
<1>3. ASSUME NEW c \in Connectors, ConnStep(c) PROVE Accounted' /\ AnswersStand
    <2>1. CASE ConnPublishes(c)
        <3>1. conn[c].seen \in Nat /\ queue \in Seq(Events) /\ Distinct(queue)
            BY DEF Typed, TypeOK, Calls, Accounted
        <3>2. Distinct(queue') /\ \A i : Waits(queue', i) <=> Waits(queue, i)
            BY <2>1, <3>1, ReportKinds, AppendedOnly DEF ConnPublishes
        <3>3. UNCHANGED <<exec, sent, verdict>>
            BY <2>1 DEF ConnPublishes
        <3> QED
            BY <3>2, <3>3, ElsewhereAccounted DEF AtWork
    <2>2. CASE ~ConnPublishes(c)
        BY <1>3, <2>2, <1>k DEF ConnStep, Bind, LoadFails, CapitalAnswered, ConnSnapshot,
                                ConnWalletFails
    <2> QED
        BY <2>1, <2>2
<1>4. ASSUME NEW c \in Connectors, Dispose(c) PROVE Accounted' /\ AnswersStand
    BY <1>4, <1>k DEF Dispose
<1>5. CASE PublishIntent
    <2>1. /\ sent' \in Intents /\ sent' = sent + 1 /\ sent \in Nat
          /\ queue \in Seq(Events) /\ Distinct(queue)
        BY <1>5, SessionAssumption
           DEF PublishIntent, SessionAssumption, Typed, TypeOK, Intents, Accounted
    <2>2. Intent(sent') \in Events /\ Intent(sent').kind = "intent" /\ Intent(sent').id = sent'
        BY <2>1, EventType DEF Intent
    <2>3. ~Waits(queue, sent') /\ ~AtWork(sent') /\ ~Answered(sent')
        BY <2>1 DEF Accounted
    <2>4. queue' = Append(queue, Intent(sent')) /\ UNCHANGED <<exec, verdict>>
        BY <1>5 DEF PublishIntent
    <2>5. Distinct(queue') /\ \A i : Waits(queue', i) <=> Waits(queue, i) \/ i = sent'
        BY <2>1, <2>2, <2>3, <2>4, AppendedOnly
    <2>6. \A i : (AtWork(i)' <=> AtWork(i)) /\ (Answered(i)' <=> Answered(i))
        BY <2>4 DEF AtWork, Answered
    <2>7. \A i \in Intents : i <= sent' <=> i <= sent \/ i = sent'
        BY <2>1 DEF Intents
    <2>8. AnswersStand
        BY <2>4 DEF AnswersStand
    <2> QED
        BY <2>3, <2>5, <2>6, <2>7, <2>8 DEF Accounted
<1>6. CASE Dispatch
    BY <1>6, DispatchAccounted
<1>7. ASSUME NEW i \in Intents, VenueExecutes(i) \/ VenueRefuses(i)
      PROVE  Accounted' /\ AnswersStand
    BY <1>7, <1>k DEF VenueExecutes, VenueRefuses, unmoved
<1>8. CASE UNCHANGED vars
    BY <1>8, <1>k DEF vars
<1> QED
    BY <1>1, <1>2, <1>3, <1>4, <1>5, <1>6, <1>7, <1>8 DEF Next

(* No order is lost between the bus and its answer, whatever session is    *)
(* dropped under it, and none is in two places: what every intent's        *)
(* verdict in the end (NothingHangs) rests on.                             *)
THEOREM NoOrderIsLost == Spec => []Accounted
<1>1. Typed /\ Accounted /\ [Next]_vars => (Typed /\ Accounted)'
    BY NextTyped, NextAccounted
<1> QED
    BY InitTyped, InitAccounted, <1>1, PTL DEF Spec

(* No order is answered twice: a verdict once given stands, so that a fill *)
(* is never followed by a failure, nor a failure by a fill.                *)
THEOREM AnsweredOnce == Spec => [][AnswersStand]_vars
<1>1. Typed /\ Accounted /\ [Next]_vars => (Typed /\ Accounted)'
    BY NextTyped, NextAccounted
<1>2. Typed /\ Accounted /\ [Next]_vars => [AnswersStand]_vars
    BY NextAccounted
<1> QED
    BY InitTyped, InitAccounted, <1>1, <1>2, PTL DEF Spec

-----------------------------------------------------------------------------
(* Where the claims of the bridge about its session come from.  TLC finds  *)
(* each of the four broken in the code as it is; the two theorems below    *)
(* say under which use of it they hold, and so where it is to be mended.   *)

(* The steps that have to do with the session, and all the others.         *)
Elsewhere ==
    /\ UNCHANGED <<mode, armed, exchange, live, session, closer>>
    /\ \A c \in Connectors : /\ conn'[c].pc = "loading" <=> conn[c].pc = "loading"
                             /\ conn'[c].pc = "new" <=> conn[c].pc = "new"

LEMMA SessionSteps ==
    ASSUME TypeOK, [Next]_vars
    PROVE  \/ BootConnect \/ RequestSimulation \/ CloseStarts \/ CloseEnds
           \/ \E c \in Connectors :
                 RequestReality(c) \/ Bind(c) \/ LoadFails(c) \/ Dispose(c)
           \/ Elsewhere
<1>1. CASE PublishIntent
    BY <1>1 DEF PublishIntent, binding, Elsewhere
<1>2. CASE Dispatch
    BY <1>2 DEF Dispatch, Book, GateDrops, AbidesFills, SyntheticFill, ExecuteReality,
                CreateOrder, NoSessionLeft, OrderAcknowledged, PriceArrives, OrderRaises,
                ExecSnapshot, ExecPublishes, ExecWalletFails, unmoved, binding, Elsewhere
<1>3. ASSUME NEW i \in Intents, VenueExecutes(i) \/ VenueRefuses(i) PROVE Elsewhere
    BY <1>3 DEF VenueExecutes, VenueRefuses, unmoved, binding, Elsewhere
<1>4. ASSUME NEW c \in Connectors,
             CapitalAnswered(c) \/ ConnSnapshot(c) \/ ConnPublishes(c) \/ ConnWalletFails(c)
      PROVE  Elsewhere
    <2>1. conn \in [Connectors -> Calls]
        BY DEF TypeOK
    <2>2. /\ conn[c].pc \in {"capital", "wallet", "answer"}
          /\ UNCHANGED <<mode, armed, exchange, live, session, closer>>
          /\ \E n : conn' = [conn EXCEPT ![c] = n] /\ n.pc \in {"wallet", "answer", "done"}
        BY <1>4, <2>1 DEF CapitalAnswered, ConnSnapshot, ConnPublishes, ConnWalletFails,
                          binding, Calls
    <2>3. ASSUME NEW d \in Connectors
          PROVE  /\ conn'[d].pc = "loading" <=> conn[d].pc = "loading"
                 /\ conn'[d].pc = "new" <=> conn[d].pc = "new"
        BY <2>1, <2>2
    <2> QED
        BY <2>2, <2>3 DEF Elsewhere
<1>5. CASE UNCHANGED vars
    BY <1>5 DEF vars, Elsewhere
<1> QED
    BY <1>1, <1>2, <1>3, <1>4, <1>5 DEF Next, ConnStep

(* What a step of one connect() call does to the calls.                    *)
LEMMA CallMoves ==
    ASSUME TypeOK, NEW c \in Connectors, Connect(c) \/ Bind(c) \/ LoadFails(c)
    PROVE  /\ \A d \in Connectors : d # c => conn'[d] = conn[d] /\ session'[d] = session[d]
           /\ Connect(c) => conn[c].pc = "new" /\ conn'[c].pc \in {"loading", "done"}
           /\ ~Connect(c) => conn[c].pc = "loading" /\ conn'[c].pc \in {"capital", "done"}
BY DEF TypeOK, Calls, Connect, Bind, LoadFails

(* The session is bound in the mode that it was asked for.                 *)
BindsInReality == \A c \in Connectors : Bind(c) => mode = "REALITY"

BoundInReality ==
    /\ exchange # None => mode = "REALITY" /\ armed
    /\ \A c \in Connectors : conn[c].pc = "loading" => armed

LEMMA NextBound ==
    ASSUME TypeOK, BoundInReality, [Next]_vars, [BindsInReality]_vars
    PROVE  BoundInReality'
<1>1. ASSUME NEW c \in Connectors, Connect(c), mode' = "REALITY" \/ mode' = mode
      PROVE  BoundInReality'
    BY <1>1 DEF Connect, BoundInReality
<1>2. CASE RequestSimulation
    <2>1. conn' = conn /\ armed' = armed
        BY <1>2 DEF RequestSimulation
    <2>2. exchange' = None
        BY <1>2 DEF RequestSimulation, BoundInReality, binding
    <2> QED
        BY <2>1, <2>2 DEF BoundInReality
<1>3. CASE CloseStarts \/ CloseEnds
    BY <1>3 DEF CloseStarts, CloseEnds, BoundInReality
<1>4. ASSUME NEW c \in Connectors, Bind(c) PROVE BoundInReality'
    <2>1. mode = "REALITY" /\ mode' = mode /\ armed /\ armed' = armed
        <3>1. vars' # vars
            BY <1>4, CallMoves DEF Bind, vars
        <3> QED
            BY <1>4, <3>1 DEF BindsInReality, Bind, BoundInReality
    <2> QED
        BY <2>1 DEF BoundInReality
<1>5. ASSUME NEW c \in Connectors, LoadFails(c) PROVE BoundInReality'
    <2>1. \A d \in Connectors : conn'[d].pc = "loading" => conn[d].pc = "loading"
        BY <1>5, CallMoves DEF LoadFails
    <2> QED
        BY <1>5, <2>1 DEF LoadFails, BoundInReality
<1>6. ASSUME NEW c \in Connectors, Dispose(c) PROVE BoundInReality'
    BY <1>6 DEF Dispose, BoundInReality
<1>7. CASE Elsewhere
    BY <1>7 DEF Elsewhere, BoundInReality
<1> QED
    BY <1>1, <1>2, <1>3, <1>4, <1>5, <1>6, <1>7, SessionSteps, SessionAssumption
       DEF BootConnect, RequestReality, SessionAssumption

(* All it takes for SIMULATION to keep its hands off the venue is that     *)
(* connect() looks at the mode again before it binds what it has loaded    *)
(* (ccxt_bridge.py, between load_markets and self._exchange): then no live *)
(* session stays bound there and no order is sent from there, although the *)
(* dispatcher reads the mode before its awaits and not after them.         *)
THEOREM RecheckDecouples ==
    Spec /\ [][BindsInReality]_vars => []NoLiveSessionInSimulation /\ NoLiveOrderInSimulation
<1>1. Init => BoundInReality
    BY DEF Init, BoundInReality, NewCall
<1>2. TypeOK /\ BoundInReality /\ [Next]_vars /\ [BindsInReality]_vars => BoundInReality'
    BY NextBound
<1>3. BoundInReality => NoLiveSessionInSimulation
    BY DEF BoundInReality, NoLiveSessionInSimulation, IsLive
<1>4. BoundInReality /\ [Next]_vars => [submitted' # submitted => mode = "REALITY"]_vars
    <2> SUFFICES ASSUME BoundInReality, Next, submitted' # submitted PROVE mode = "REALITY"
        OBVIOUS
    <2>1. CreateOrder
        BY DEF Next, BootConnect, RequestSimulation, CloseStarts, CloseEnds, RequestReality,
               ConnStep, Bind, LoadFails, CapitalAnswered, ConnSnapshot, ConnPublishes,
               ConnWalletFails, Dispose, PublishIntent, Dispatch, Book, GateDrops,
               AbidesFills, SyntheticFill, ExecuteReality, NoSessionLeft, OrderAcknowledged,
               PriceArrives, OrderRaises, ExecSnapshot, ExecPublishes, ExecWalletFails,
               VenueExecutes, VenueRefuses, market
    <2> QED
        BY <2>1 DEF CreateOrder, BoundInReality
<1> QED
    BY <1>1, <1>2, <1>3, <1>4, TypeCorrect, PTL DEF Spec, NoLiveOrderInSimulation

(* REALITY is asked for only when no session is bound and none is on its   *)
(* way.                                                                    *)
Quiet == exchange = None /\ \A c \in Connectors : conn[c].pc # "loading"
ConnectsWhenQuiet == \A c \in Connectors : RequestReality(c) => Quiet

OneSession ==
    /\ NoOrphanSession
    /\ \A c, d \in Connectors : conn[c].pc = "loading" /\ conn[d].pc = "loading" => c = d
    /\ \A c \in Connectors : conn[c].pc = "loading" => exchange = None
    /\ conn[Boot].pc = "new" => Quiet
    /\ Serving /\ exchange # None => live

LEMMA NextOneSession ==
    ASSUME TypeOK, Sessions, OneSession, [Next]_vars, [ConnectsWhenQuiet]_vars
    PROVE  OneSession'
<1>0. Boot \in Connectors /\ None \notin Connectors
    BY SessionAssumption DEF SessionAssumption
<1>1. ASSUME NEW c \in Connectors, Connect(c), Quiet, UNCHANGED closer,
             c = Boot \/ conn[Boot].pc # "new"
      PROVE  OneSession'
    <2>1. exchange' = None /\ \A d \in Connectors : d # c => conn'[d].pc # "loading"
        BY <1>1, CallMoves DEF Quiet, Connect
    <2>2. conn'[Boot].pc # "new"
        BY <1>0, <1>1, CallMoves
    <2>3. NoOrphanSession'
        <3>1. \A d \in Connectors : d # c => session[d] # "open"
            BY <1>0, <1>1 DEF Quiet, OneSession, NoOrphanSession
        <3>2. session'[c] = "open" => conn'[c].pc = "loading"
            <4>1. session[c] # "open"
                BY <1>0, <1>1 DEF Quiet, OneSession, NoOrphanSession
            <4>2. c \in DOMAIN session /\ c \in DOMAIN conn /\ "pc" \in DOMAIN conn[c]
                BY DEF TypeOK, Calls
            <4>3. /\ session'[c] = (IF mode' = "REALITY" /\ credentialed
                                   THEN "open" ELSE session[c])
                  /\ conn'[c].pc = (IF mode' = "REALITY" /\ credentialed
                                   THEN "loading" ELSE "done")
                BY <1>1, <4>2 DEF Connect
            <4> QED
                BY <4>1, <4>3
        <3> QED
            BY <1>1, <3>1, <3>2, CallMoves DEF NoOrphanSession
    <2> QED
        BY <2>1, <2>2, <2>3 DEF OneSession
<1>2. CASE RequestSimulation
    <2>1. conn' = conn /\ closer' = closer
        BY <1>2 DEF RequestSimulation
    <2>2. CASE exchange = None
        <3>1. exchange' = None /\ ~live
            BY <1>0, <1>2, <2>2 DEF RequestSimulation, binding, Sessions, LiveSessionIsOpen
        <3>2. session' = session
            BY <1>2, <2>2, <3>1 DEF RequestSimulation, binding
        <3> QED
            BY <2>1, <2>2, <3>1, <3>2 DEF OneSession, NoOrphanSession, Quiet, Serving
    <2>3. CASE exchange # None /\ armed
        <3>1. exchange' = None
              /\ \A d \in Connectors :
                    session'[d] = IF d = exchange THEN "closing" ELSE session[d]
            BY <1>2, <2>3 DEF RequestSimulation
        <3> QED
            BY <2>1, <2>3, <3>1 DEF OneSession, NoOrphanSession, Quiet
    <2>4. CASE exchange # None /\ ~armed
        BY <1>2, <2>1, <2>4 DEF RequestSimulation, binding, OneSession, NoOrphanSession,
                                Quiet, Serving
    <2> QED
        BY <2>2, <2>3, <2>4
<1>3. CASE CloseStarts
    <2>1. /\ exchange' = exchange /\ conn' = conn /\ closer' # "up"
          /\ \A d \in Connectors :
                session'[d] = IF d = exchange THEN "closing" ELSE session[d]
        BY <1>3 DEF CloseStarts
    <2> QED
        BY <2>1 DEF OneSession, NoOrphanSession, Quiet, Serving
<1>4. CASE CloseEnds
    <2>1. /\ exchange' = None /\ conn' = conn
          /\ \A d \in Connectors :
                session'[d] = IF d = exchange THEN "closed" ELSE session[d]
        BY <1>4 DEF CloseEnds
    <2> QED
        BY <2>1 DEF OneSession, NoOrphanSession, Quiet
<1>5. ASSUME NEW c \in Connectors, Bind(c) PROVE OneSession'
    <2>1. /\ exchange = None /\ exchange' = c /\ live' /\ session' = session
          /\ conn[c].pc = "loading" /\ conn'[c].pc # "loading"
        BY <1>5, CallMoves DEF Bind, OneSession, Connect
    <2>2. \A d \in Connectors : conn'[d].pc # "loading"
        BY <1>5, <2>1, CallMoves DEF OneSession
    <2>3. conn'[Boot].pc # "new"
        BY <1>0, <1>5, <2>1, CallMoves DEF OneSession, Quiet
    <2>4. NoOrphanSession'
        BY <1>0, <2>1 DEF OneSession, NoOrphanSession
    <2> QED
        BY <2>1, <2>2, <2>3, <2>4 DEF OneSession
<1>6. ASSUME NEW c \in Connectors, LoadFails(c) PROVE OneSession'
    <2>1. /\ exchange' = exchange /\ live' = live /\ closer' = closer
          /\ session'[c] = "closed" /\ conn'[c].pc # "loading"
          /\ conn[c].pc = "loading"
        BY <1>6, CallMoves DEF LoadFails, Connect, TypeOK
    <2>2. \A d \in Connectors : d # c => conn'[d] = conn[d] /\ session'[d] = session[d]
        BY <1>6, CallMoves
    <2>3. conn'[Boot].pc # "new"
        BY <1>0, <1>6, <2>1, CallMoves DEF OneSession, Quiet
    <2> QED
        BY <2>1, <2>2, <2>3 DEF OneSession, NoOrphanSession, Serving
<1>7. ASSUME NEW c \in Connectors, Dispose(c) PROVE OneSession'
    <2>1. /\ UNCHANGED <<exchange, live, conn, closer>>
          /\ \A d \in Connectors : session'[d] = "open" => session[d] = "open"
        BY <1>7 DEF Dispose, TypeOK
    <2> QED
        BY <2>1 DEF OneSession, NoOrphanSession, Quiet, Serving
<1>8. CASE Elsewhere
    BY <1>0, <1>8 DEF Elsewhere, OneSession, NoOrphanSession, Quiet, Serving
<1>9. CASE BootConnect
    BY <1>0, <1>1, <1>9 DEF BootConnect, Connect, OneSession
<1>10. ASSUME NEW c \in Connectors, RequestReality(c) PROVE OneSession'
    <2>1. Quiet
        <3>1. vars' # vars
            BY <1>10, CallMoves DEF RequestReality, vars
        <3> QED
            BY <1>10, <3>1 DEF ConnectsWhenQuiet
    <2> QED
        BY <1>1, <1>10, <2>1 DEF RequestReality
<1> QED
    BY <1>2, <1>3, <1>4, <1>5, <1>6, <1>7, <1>8, <1>9, <1>10, SessionSteps

(* All it takes to keep one session, closed when it is done with, is that  *)
(* an operator does not ask for REALITY while a session is bound or being  *)
(* loaded: then every open session is the bound one or is loading, and no  *)
(* order is filled synthetically beside a bound session.  The connect() of *)
(* the code begins by clearing _live and leaves the old session open.      *)
THEOREM QuietConnectsKeepOneSession ==
    Spec /\ [][ConnectsWhenQuiet]_vars => []NoOrphanSession /\ NoSyntheticBesideSession
<1>1. Init => Sessions /\ OneSession
    <2>1. Init => OneSession
        BY SessionAssumption
           DEF SessionAssumption, Init, OneSession, NoOrphanSession, Quiet, NewCall
    <2> QED
        BY <2>1, InitSessions
<1>2. TypeOK /\ Sessions /\ OneSession /\ [Next]_vars /\ [ConnectsWhenQuiet]_vars
         => Sessions' /\ OneSession'
    BY NextSessions, NextOneSession
<1>3. OneSession => NoOrphanSession
    BY DEF OneSession
<1> DEFINE Beside == \A i \in Intents :
                        Serving /\ verdict[i] = "none" /\ verdict'[i] = "synthetic"
                            => exchange = None
<1>4. TypeOK /\ OneSession /\ [Next]_vars => [Beside]_vars
    <2> SUFFICES ASSUME TypeOK, OneSession, Next, NEW i \in Intents, Serving,
                        verdict[i] = "none", verdict'[i] = "synthetic"
                 PROVE  exchange = None
        OBVIOUS
    <2>1. SyntheticFill
        BY DEF TypeOK, Next, BootConnect, RequestSimulation, CloseStarts, CloseEnds,
               RequestReality, ConnStep, Bind, LoadFails, CapitalAnswered, ConnSnapshot,
               ConnPublishes, ConnWalletFails, Dispose, PublishIntent, Dispatch, Book,
               GateDrops, AbidesFills, ExecuteReality, CreateOrder, NoSessionLeft,
               OrderAcknowledged, ReportFill, PriceArrives, OrderRaises, ExecSnapshot,
               ExecPublishes, ExecWalletFails, VenueExecutes, VenueRefuses, unmoved
    <2> QED
        BY <2>1 DEF SyntheticFill, IsLive, OneSession
<1>5. NoSyntheticBesideSession <=> [][Beside]_vars
    BY DEF NoSyntheticBesideSession
<1> HIDE DEF Beside
<1> QED
    BY <1>1, <1>2, <1>3, <1>4, <1>5, TypeCorrect, PTL DEF Spec
=============================================================================
