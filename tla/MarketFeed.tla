----------------------------- MODULE MarketFeed -----------------------------
(* The live market feed and the alerts about it, which share the bus: the  *)
(* reconnecting streamer (infrastructure/websocket/streamer.py), the hop   *)
(* through the pipeline to md.ticker, the latency breaker of the Sentinel  *)
(* and the Telegram alerts (infrastructure/observability/alerts.py), whose *)
(* bus handlers wait for the network and hold up every tick behind them.   *)
(*                                                                         *)
(* Abstracted data: of a frame only its age is kept, and a frame that the  *)
(* latency anomaly back-dates is one that the exchange sent late. Computing*)
(* takes no time: the clock moves only while the bus is empty or waits for *)
(* Telegram. The pipeline's hop to md.ticker is part of serving a frame.   *)
EXTENDS CircuitBreaker, Sequences

CONSTANTS
    LatencyLimit,   \* latency_limit_ms, in ticks
    PostMax,        \* longest time that a POST to Telegram takes
    Interval,       \* ALERT_MIN_INTERVAL_S
    MaxBackoff,     \* the 30 s of the back-off
    MaxQueue        \* bound on the events waiting on the bus

Keys == {"sentinel_freeze", "ws_disconnect", "ws_reconnect"}

ASSUME FeedAssumption ==
    /\ LatencyLimit \in Nat /\ PostMax \in Nat
    /\ MaxBackoff \in Nat \ {0}
    /\ Interval \in Nat /\ PostMax < Interval
    /\ MaxQueue \in Nat

VARIABLES
    link,       \* the websocket: "dialing", "open", or "waiting" to be retried
    wait,       \* ticks that asyncio.sleep(backoff) still takes
    backoff,    \* local of _run_live
    connected,  \* BinanceWebSocketStreamer._connected
    paused,     \* _paused of the streamer and of the Sentinel
    queue,      \* the bus
    post,       \* ticks that the POST in a handler may still take, and 1; 0: none
    quiet,      \* for each event_key the ticks until _throttled lets it pass
    br          \* Sentinel._breaker

streamVars == <<link, wait, backoff, connected>>
vars == <<streamVars, paused, queue, post, quiet, br>>

(* Ages beyond the limit are not told apart.                               *)
Oldest == LatencyLimit + 1

Ticker(age, onTime) == [topic |-> "md.ticker", age |-> age, onTime |-> onTime]
Alert(key, about) == [topic |-> "alert", key |-> key, about |-> about]

Room == Len(queue) < MaxQueue
Free == post = 0 /\ queue # <<>>

-----------------------------------------------------------------------------
Init ==
    /\ link = "dialing" /\ wait = 0 /\ backoff = 1 /\ connected = FALSE
    /\ paused = FALSE
    /\ queue = <<>> /\ post = 0
    /\ \E since \in {0, Interval} : quiet = [k \in Keys |-> since]
    /\ br = NewBreaker

(* The streamer's loop.                                                    *)
Dialled ==
    /\ link = "dialing" /\ Room
    /\ link' = "open" /\ connected' = TRUE /\ backoff' = 1
    /\ queue' = Append(queue, Alert("ws_reconnect", "up"))
    /\ UNCHANGED <<wait, paused, post, quiet, br>>

(* Connecting or reading raises: report, and sleep for the back-off.       *)
Lost ==
    /\ link \in {"dialing", "open"} /\ Room
    /\ link' = "waiting" /\ connected' = FALSE /\ wait' = backoff
    /\ queue' = Append(queue, Alert("ws_disconnect", "down"))
    /\ UNCHANGED <<backoff, paused, post, quiet, br>>

(* The server says goodbye: the iteration ends without an exception, and   *)
(* the loop dials again, saying nothing.                                   *)
ClosedCleanly ==
    /\ link = "open"
    /\ link' = "dialing"
    /\ UNCHANGED <<wait, backoff, connected, paused, queue, post, quiet, br>>

(* Mutant: the back-off has no cap.                                        *)
DoubledForever == backoff * 2

Doubled == IF backoff * 2 < MaxBackoff THEN backoff * 2 ELSE MaxBackoff

(* Mutant: a paused streamer does not reconnect.                           *)
WakesUnpaused ==
    /\ link = "waiting" /\ wait = 0 /\ ~paused
    /\ link' = "dialing" /\ backoff' = Doubled
    /\ UNCHANGED <<wait, connected, paused, queue, post, quiet, br>>

Wakes ==
    /\ link = "waiting" /\ wait = 0
    /\ link' = "dialing" /\ backoff' = Doubled
    /\ UNCHANGED <<wait, connected, paused, queue, post, quiet, br>>

(* A trade from the exchange. What arrives in a pause is thrown away.      *)
Receive(late) ==
    /\ link = "open" /\ ~paused /\ Room
    /\ queue' = Append(queue, Ticker(IF late THEN Oldest ELSE 0, ~late))
    /\ connected' = TRUE
    /\ UNCHANGED <<link, wait, backoff, paused, post, quiet, br>>

PauseOrResume ==
    /\ paused' = ~paused
    /\ UNCHANGED <<streamVars, queue, post, quiet, br>>

-----------------------------------------------------------------------------
(* The Sentinel's status loop, which does not run on the bus.              *)
RunCycle ==
    /\ ~paused
    /\ br' = Observe(br)
    /\ UNCHANGED <<streamVars, paused, queue, post, quiet>>

(* A cycle whose VaR verdict announces REDUCE_ONLY, under the same topic.  *)
VarBreach ==
    /\ ~paused /\ Room
    /\ br' = Observe(br)
    /\ queue' = Append(queue, Alert("sentinel_freeze", "REDUCE_ONLY"))
    /\ UNCHANGED <<streamVars, paused, post, quiet>>

(* Sentinel._on_ticker: the latency heartbeat.                             *)
ServeTicker ==
    /\ Free /\ Head(queue).topic = "md.ticker"
    /\ br' = IF Head(queue).age > LatencyLimit THEN RecordFailure(br) ELSE RecordSuccess(br)
    /\ queue' = IF br'.raw = "OPEN" /\ br.raw # "OPEN"
                THEN Append(Tail(queue), Alert("sentinel_freeze", "FREEZE"))
                ELSE Tail(queue)
    /\ UNCHANGED <<streamVars, paused, post, quiet>>

(* Mutant: the throttle does not remember what it has let pass.            *)
ForgetsStamp(key) == quiet

Stamped(key) == [quiet EXCEPT ![key] = Interval]

(* sentinel_handler and log_handler: what passes the throttle is sent, and *)
(* the handler, the bus with it, waits for Telegram's answer.              *)
ServeAlert ==
    /\ Free /\ Head(queue).topic = "alert"
    /\ queue' = Tail(queue)
    /\ IF quiet[Head(queue).key] > 0
       THEN UNCHANGED <<post, quiet>>
       ELSE post' = PostMax + 1 /\ quiet' = Stamped(Head(queue).key)
    /\ UNCHANGED <<streamVars, paused, br>>

(* Telegram answers, refuses, or the client's timeout is over.             *)
PostEnds ==
    /\ post > 0
    /\ post' = 0
    /\ UNCHANGED <<streamVars, paused, queue, quiet, br>>

Older(event) ==
    IF event.topic = "md.ticker" /\ event.age < Oldest
    THEN [event EXCEPT !.age = @ + 1] ELSE event

(* Time passes, but not beyond the timeout of a POST.                      *)
Tick ==
    /\ post > 1 \/ (post = 0 /\ queue = <<>>)
    /\ post' = IF post > 0 THEN post - 1 ELSE 0
    /\ wait' = IF wait > 0 THEN wait - 1 ELSE 0
    /\ queue' = [k \in DOMAIN queue |-> Older(queue[k])]
    /\ quiet' = [k \in Keys |-> IF quiet[k] > 0 THEN quiet[k] - 1 ELSE 0]
    /\ br' = Cool(br)
    /\ UNCHANGED <<link, backoff, connected, paused>>

DialEnds == link = "dialing" /\ (Dialled \/ Lost)
Serve == ServeTicker \/ ServeAlert \/ PostEnds

Next ==
    \/ Dialled \/ Lost \/ ClosedCleanly \/ Wakes
    \/ \E late \in BOOLEAN : Receive(late)
    \/ PauseOrResume \/ RunCycle \/ VarBreach
    \/ ServeTicker \/ ServeAlert \/ PostEnds
    \/ Tick

(* The bus task, the streamer's task and the status loop are scheduled, a  *)
(* POST and a dial end; nobody owes frames or peace. Time goes on: there is*)
(* no end of steps in no time. A tick that finds everything counted down   *)
(* changes nothing, so no end of moments at rest will do as well.          *)
AtRest ==
    /\ post = 0 /\ queue = <<>>
    /\ wait = 0 /\ br.cool = 0 /\ \A k \in Keys : quiet[k] = 0

TimeGoesOn == []<><<Tick>>_vars \/ []<>AtRest

Fairness ==
    /\ WF_vars(Serve) /\ TimeGoesOn
    /\ WF_vars(Wakes) /\ SF_vars(DialEnds)
    /\ WF_vars(RunCycle)

Spec == Init /\ [][Next]_vars /\ Fairness

-----------------------------------------------------------------------------
Events == {Ticker(a, o) : a \in 0 .. Oldest, o \in BOOLEAN}
          \cup {Alert(k, a) : k \in Keys, a \in {"up", "down", "FREEZE", "REDUCE_ONLY"}}

TypeOK ==
    /\ link \in {"dialing", "open", "waiting"}
    /\ wait \in 0 .. MaxBackoff /\ backoff \in 1 .. MaxBackoff
    /\ connected \in BOOLEAN /\ paused \in BOOLEAN
    /\ queue \in Seq(Events) /\ Len(queue) <= MaxQueue
    /\ post \in 0 .. PostMax + 1
    /\ quiet \in [Keys -> 0 .. Interval]
    /\ br \in Breakers

(* An alert that is slow makes ticks late, late ticks open the breaker, and*)
(* that is the next alert. This feeds on itself only for a while: when the *)
(* link is up, the platform runs and nothing else disturbs, ticks on time  *)
(* close the breaker, and it stays closed.                                 *)
AlertStormEnds ==
    /\ <>[](link = "open" /\ ~paused)
    /\ ~[]<><<Receive(TRUE) \/ VarBreach>>_vars
    /\ []<><<Receive(FALSE)>>_vars
    => <>[](br.raw = "CLOSED")

(* The streamer never gives up: a link that stays away is dialled again and*)
(* again, whatever the operator has paused.                                *)
FeedIsRetried == <>[](link # "open") => []<>(link = "dialing")

(* alerts.py:6-7 "fire alerts via asyncio.create_task so the trading/      *)
(* collector hot path never waits on network I/O": no tick that came on    *)
(* time is late for the breaker because an alert was being sent.           *)
HotPathNeverWaits ==
    \A k \in DOMAIN queue :
        queue[k].topic = "md.ticker" /\ queue[k].onTime => queue[k].age <= LatencyLimit

(* A freeze is always alerted, or has been a freeze's alert ago: it is not,*)
(* when REDUCE_ONLY was announced under the same key before.               *)
FreezeIsAlerted ==
    [][ServeAlert /\ Head(queue).about = "FREEZE" => post' > 0]_vars

(* GET /health says "connected" of an open link only: it does not, while a *)
(* link that the server closed is dialled again.                           *)
ConnectedIsOpen == connected => link = "open"
=============================================================================
