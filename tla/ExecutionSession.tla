------------------------- MODULE ExecutionSession -------------------------
(* The capital path: the QuantMode switch, the life of the CCXT session    *)
(* (quant/ccxt_bridge.py), the bus dispatcher that carries one order.intent*)
(* at a time into QuantExecutionBridge, the venue, and the position the    *)
(* ledgers (Sentinel and cockpit) derive from quant.fill and               *)
(* quant.wallet.sync.                                                      *)
(*                                                                         *)
(* Everything runs on one asyncio loop, so an action is the code between   *)
(* two awaits that really suspend: exchange calls do, EventBus.publish does*)
(* not.  A connector is one call of connect(): the boot call or one POST   *)
(* of a mode that resolves to REALITY; it owns the CCXT session it opens.  *)
(* Every intent buys one unit, so a position is a number of units.         *)
EXTENDS Integers, Sequences, FiniteSets

CONSTANTS
    Connectors,   \* calls of connect()
    Boot,         \* the one made by the lifespan of main.py
    None,         \* no session
    MaxIntents,   \* bound on the order intents the AI bridge publishes
    DemoEnv,      \* execution_env == "demo": connect() also syncs the wallet
    Expiring      \* the venue may acknowledge an order that never executes

ASSUME SessionAssumption ==
    /\ Boot \in Connectors
    /\ None \notin Connectors
    /\ MaxIntents \in Nat
    /\ DemoEnv \in BOOLEAN
    /\ Expiring \in BOOLEAN

Intents == 1 .. MaxIntents

VARIABLES
    mode,          \* ModeManager._mode
    credentialed,  \* _credentialed (and ccxt installed): fixed at start-up
    armed,         \* _mode_guard_armed
    exchange,      \* _exchange: the connector whose session is bound, or None
    live,          \* _live
    session,       \* aiohttp state of each connector's session
    conn,          \* where each connect() call is suspended
    exec,          \* where the dispatcher is suspended inside _on_intent
    closer,        \* where close() is
    sent,          \* intents published so far
    queue,         \* the bus queue
    verdict,       \* what became of each intent
    submitted,     \* intents handed to create_order
    refused,       \* orders the venue will never execute
    venue,         \* orders the venue has executed
    ledger         \* position in the ledgers

vars == <<mode, credentialed, armed, exchange, live, session, conn, exec,
          closer, sent, queue, verdict, submitted, refused, venue, ledger>>

binding  == <<exchange, live, session>>
market   == <<submitted, refused, venue>>
-----------------------------------------------------------------------------
IsLive == live /\ exchange # None

Idle == [pc |-> "idle", id |-> 0, via |-> None, seen |-> 0]
NewCall == [pc |-> "new", via |-> None, seen |-> 0]

Fill(i)   == [kind |-> "fill", id |-> i, units |-> 1]
Intent(i) == [kind |-> "intent", id |-> i, units |-> 1]
Wallet(n) == [kind |-> "wallet", id |-> 0, units |-> n]

Serving == closer = "up"
First == Head(queue)
Pop == Tail(queue)

Init ==
    /\ mode \in {"REALITY", "SIMULATION"}
    /\ credentialed \in BOOLEAN
    /\ armed = FALSE
    /\ exchange = None
    /\ live = FALSE
    /\ session = [c \in Connectors |-> "none"]
    /\ conn = [c \in Connectors |-> NewCall]
    /\ exec = Idle
    /\ closer = "up"
    /\ sent = 0
    /\ queue = <<>>
    /\ verdict = [i \in Intents |-> "none"]
    /\ submitted = {}
    /\ refused = {}
    /\ venue = {}
    /\ ledger = 0

-----------------------------------------------------------------------------
(* connect() up to the load_markets await; the guard is armed by the first *)
(* call, and _live is cleared although an older session may stay bound.    *)
Connect(c) ==
    /\ conn[c].pc = "new"
    /\ live' = FALSE
    /\ armed' = TRUE
    /\ LET loads == mode' = "REALITY" /\ credentialed
       IN  /\ conn' = [conn EXCEPT ![c].pc = IF loads THEN "loading" ELSE "done"]
           /\ session' = [session EXCEPT ![c] = IF loads THEN "open" ELSE @]
    /\ UNCHANGED exchange

(* The lifespan connects once, after the market and inference loops began. *)
BootConnect ==
    /\ UNCHANGED mode
    /\ Connect(Boot)
    /\ UNCHANGED <<credentialed, exec, closer, sent, queue, verdict, market, ledger>>

(* POST /mode or /control/mode with a mode that resolves to REALITY: the   *)
(* switch and the start of connect() run without suspending.               *)
RequestReality(c) ==
    /\ Serving
    /\ conn[Boot].pc = "done"
    /\ mode' = "REALITY"
    /\ Connect(c)
    /\ UNCHANGED <<credentialed, exec, closer, sent, queue, verdict, market, ledger>>

(* Mutant: the guard disposes of the session and keeps it bound.           *)
KeepsBinding ==
    /\ Serving
    /\ conn[Boot].pc = "done"
    /\ mode = "REALITY"
    /\ mode' = "SIMULATION"
    /\ session' = [c \in Connectors |->
                      IF armed /\ c = exchange THEN "closing" ELSE session[c]]
    /\ UNCHANGED <<credentialed, armed, exchange, live, conn, exec, closer, sent,
                   queue, verdict, market, ledger>>

(* The same endpoints with a mode that resolves to SIMULATION.             *)
(* ModeManager.set is idempotent; its listener _on_mode_change drops what  *)
(* is bound at this instant.                                               *)
RequestSimulation ==
    /\ Serving
    /\ conn[Boot].pc = "done"
    /\ mode = "REALITY"
    /\ mode' = "SIMULATION"
    /\ IF armed /\ (exchange # None \/ live)
       THEN /\ exchange' = None
            /\ live' = FALSE
            /\ session' = [c \in Connectors |->
                              IF c = exchange THEN "closing" ELSE session[c]]
       ELSE UNCHANGED binding
    /\ UNCHANGED <<credentialed, armed, conn, exec, closer, sent, queue, verdict, market, ledger>>

(* load_markets returned: bind, whatever the mode has become meanwhile.    *)
Bind(c) ==
    /\ conn[c].pc = "loading"
    /\ exchange' = c
    /\ live' = TRUE
    /\ conn' = [conn EXCEPT ![c].pc = IF DemoEnv THEN "capital" ELSE "done"]
    /\ UNCHANGED <<mode, credentialed, armed, session, exec, closer, sent, queue,
                   verdict, market, ledger>>

(* load_markets raised: dispose of the half-open session and return.       *)
LoadFails(c) ==
    /\ conn[c].pc = "loading"
    /\ conn' = [conn EXCEPT ![c].pc = "done"]
    /\ session' = [session EXCEPT ![c] = "closed"]
    /\ UNCHANGED <<mode, credentialed, armed, exchange, live, exec, closer, sent,
                   queue, verdict, market, ledger>>

(* _sync_demo_capital: fetch_balance returned or raised; then the wallet   *)
(* is asked for, unless the session is gone.                               *)
CapitalAnswered(c) ==
    /\ conn[c].pc = "capital"
    /\ conn' = [conn EXCEPT ![c] =
                   IF exchange = None THEN [@ EXCEPT !.pc = "done"]
                   ELSE [pc |-> "wallet", via |-> exchange, seen |-> 0]]
    /\ UNCHANGED <<mode, credentialed, armed, binding, exec, closer, sent, queue,
                   verdict, market, ledger>>

(* The venue computes the answer to fetch_positions.                       *)
ConnSnapshot(c) ==
    /\ conn[c].pc = "wallet"
    /\ session[conn[c].via] # "closed"
    /\ conn' = [conn EXCEPT ![c] = [pc |-> "answer", via |-> @.via, seen |-> Cardinality(venue)]]
    /\ UNCHANGED <<mode, credentialed, armed, binding, exec, closer, sent, queue,
                   verdict, market, ledger>>

(* The answer arrives: quant.wallet.sync is published.                     *)
ConnPublishes(c) ==
    /\ conn[c].pc = "answer"
    /\ session[conn[c].via] # "closed"
    /\ queue' = Append(queue, Wallet(conn[c].seen))
    /\ conn' = [conn EXCEPT ![c].pc = "done"]
    /\ UNCHANGED <<mode, credentialed, armed, binding, exec, closer, sent,
                   verdict, market, ledger>>

(* Any of the wallet calls raised: the sync is skipped.                    *)
ConnWalletFails(c) ==
    /\ conn[c].pc \in {"wallet", "answer"}
    /\ conn' = [conn EXCEPT ![c].pc = "done"]
    /\ UNCHANGED <<mode, credentialed, armed, binding, exec, closer, sent, queue,
                   verdict, market, ledger>>

ConnStep(c) ==
    \/ Bind(c) \/ LoadFails(c) \/ CapitalAnswered(c)
    \/ ConnSnapshot(c) \/ ConnPublishes(c) \/ ConnWalletFails(c)

(* The task that the mode guard spawned closes the dropped session.        *)
Dispose(c) ==
    /\ session[c] = "closing"
    /\ closer # "closing" \/ exchange # c
    /\ session' = [session EXCEPT ![c] = "closed"]
    /\ UNCHANGED <<mode, credentialed, armed, exchange, live, conn, exec, closer,
                   sent, queue, verdict, market, ledger>>

(* close() at shutdown, when no request is being served any more.          *)
CloseStarts ==
    /\ Serving
    /\ \A c \in Connectors : conn[c].pc \in {"new", "done"}
    /\ conn[Boot].pc = "done"
    /\ live' = FALSE
    /\ closer' = IF exchange = None THEN "down" ELSE "closing"
    /\ session' = [c \in Connectors |-> IF c = exchange THEN "closing" ELSE session[c]]
    /\ UNCHANGED <<mode, credentialed, armed, exchange, conn, exec, sent, queue,
                   verdict, market, ledger>>

CloseEnds ==
    /\ closer = "closing"
    /\ closer' = "down"
    /\ session' = [c \in Connectors |-> IF c = exchange THEN "closed" ELSE session[c]]
    /\ exchange' = None
    /\ UNCHANGED <<mode, credentialed, armed, live, conn, exec, sent, queue,
                   verdict, market, ledger>>

-----------------------------------------------------------------------------
(* The AI bridge publishes one more order.intent.                          *)
PublishIntent ==
    /\ sent < MaxIntents
    /\ sent' = sent + 1
    /\ queue' = Append(queue, Intent(sent'))
    /\ UNCHANGED <<mode, credentialed, armed, binding, conn, exec, closer, verdict,
                   market, ledger>>

unmoved == <<mode, credentialed, armed, binding, conn, closer, sent>>

(* Mutant: a wallet position is added instead of replacing the ledger's.   *)
WalletAsDelta ==
    /\ exec.pc = "idle" /\ queue # <<>> /\ First.kind # "intent"
    /\ ledger' = ledger + First.units
    /\ queue' = Pop
    /\ UNCHANGED <<unmoved, exec, verdict, market>>

(* Mutant: a fill is booked on the wrong side.                             *)
WrongSide ==
    /\ exec.pc = "idle" /\ queue # <<>> /\ First.kind # "intent"
    /\ ledger' = IF First.kind = "fill" THEN ledger - First.units ELSE First.units
    /\ queue' = Pop
    /\ UNCHANGED <<unmoved, exec, verdict, market>>

(* The ledgers book a fill, or take the exchange wallet's word for it.     *)
Book ==
    /\ exec.pc = "idle" /\ queue # <<>> /\ First.kind # "intent"
    /\ ledger' = IF First.kind = "fill" THEN ledger + First.units ELSE First.units
    /\ queue' = Pop
    /\ UNCHANGED <<unmoved, exec, verdict, market>>

(* _on_intent: the pre-trade gate drops the order.                         *)
GateDrops ==
    /\ exec.pc = "idle" /\ queue # <<>> /\ First.kind = "intent"
    /\ verdict' = [verdict EXCEPT ![First.id] = "dropped"]
    /\ queue' = Pop
    /\ UNCHANGED <<unmoved, exec, market, ledger>>

(* SIMULATION: the ABIDES kernel publishes a quant.fill without the keys   *)
(* both ledgers require, so neither books it.                              *)
AbidesFills ==
    /\ exec.pc = "idle" /\ queue # <<>> /\ First.kind = "intent"
    /\ mode = "SIMULATION"
    /\ verdict' = [verdict EXCEPT ![First.id] = "abides"]
    /\ queue' = Pop
    /\ UNCHANGED <<unmoved, exec, market, ledger>>

(* REALITY without a live session: _execute_simulation.                    *)
SyntheticFill ==
    /\ exec.pc = "idle" /\ queue # <<>> /\ First.kind = "intent"
    /\ mode = "REALITY" /\ ~IsLive
    /\ verdict' = [verdict EXCEPT ![First.id] = "synthetic"]
    /\ queue' = Append(Pop, Fill(First.id))
    /\ UNCHANGED <<unmoved, exec, market, ledger>>

(* REALITY with a live session: _execute_reality asks for a ticker first.  *)
ExecuteReality ==
    /\ exec.pc = "idle" /\ queue # <<>> /\ First.kind = "intent"
    /\ mode = "REALITY" /\ IsLive
    /\ exec' = [pc |-> "ticker", id |-> First.id, via |-> None, seen |-> 0]
    /\ queue' = Pop
    /\ UNCHANGED <<unmoved, verdict, market, ledger>>

(* The ticker arrived or its call raised; create_order goes to whatever    *)
(* session is bound by now, and neither the mode nor _live is read again.  *)
CreateOrder ==
    /\ exec.pc = "ticker" /\ exchange # None
    /\ exec' = [pc |-> "order", id |-> exec.id, via |-> exchange, seen |-> 0]
    /\ submitted' = submitted \cup {exec.id}
    /\ UNCHANGED <<unmoved, queue, verdict, refused, venue, ledger>>

(* Mutant: the dispatcher waits for a session to come back.                *)
WaitForSession == exec.pc = "ticker" /\ exchange = None /\ UNCHANGED vars

(* The session was dropped meanwhile: the call on None raises.             *)
NoSessionLeft ==
    /\ exec.pc = "ticker" /\ exchange = None
    /\ verdict' = [verdict EXCEPT ![exec.id] = "failed"]
    /\ exec' = Idle
    /\ UNCHANGED <<unmoved, queue, market, ledger>>

(* The venue matches the order, perhaps after the client gave up on it...  *)
VenueExecutes(i) ==
    /\ i \in submitted \ (venue \cup refused)
    /\ venue' = venue \cup {i}
    /\ UNCHANGED <<unmoved, exec, queue, verdict, submitted, refused, ledger>>

(* ... or refuses it, or lets it expire unmatched.                         *)
VenueRefuses(i) ==
    /\ i \in submitted \ (venue \cup refused)
    /\ refused' = refused \cup {i}
    /\ UNCHANGED <<unmoved, exec, queue, verdict, submitted, venue, ledger>>

(* What execute() does with a filled report: publish, and reconcile with   *)
(* the wallet when the session is still live in REALITY.                   *)
ReportFill ==
    /\ verdict' = [verdict EXCEPT ![exec.id] = "filled"]
    /\ queue' = Append(queue, Fill(exec.id))
    /\ exec' = IF mode = "REALITY" /\ IsLive
               THEN [pc |-> "wallet", id |-> exec.id, via |-> exchange, seen |-> 0]
               ELSE Idle

(* create_order returned.  A missing or zero "filled" counts as the whole  *)
(* quantity; without an average price a second ticker is awaited first.    *)
OrderAcknowledged ==
    /\ exec.pc = "order" /\ session[exec.via] # "closed"
    /\ exec.id \in venue \/ (Expiring /\ exec.id \in refused)
    /\ \/ ReportFill
       \/ exec' = [exec EXCEPT !.pc = "price"] /\ UNCHANGED <<queue, verdict>>
    /\ UNCHANGED <<unmoved, market, ledger>>

PriceArrives ==
    /\ exec.pc = "price"
    /\ ReportFill
    /\ UNCHANGED <<unmoved, market, ledger>>

(* Mutant: an order that raised is filled synthetically.                   *)
FallBackToSynthetic ==
    /\ exec.pc = "order"
    /\ verdict' = [verdict EXCEPT ![exec.id] = "synthetic"]
    /\ queue' = Append(queue, Fill(exec.id))
    /\ exec' = Idle
    /\ UNCHANGED <<unmoved, market, ledger>>

(* create_order raised: refused by the venue, or a timeout or a broken     *)
(* connection that leaves the order's fate unknown.  Never a fill.         *)
OrderRaises ==
    /\ exec.pc = "order"
    /\ verdict' = [verdict EXCEPT ![exec.id] = "failed"]
    /\ exec' = Idle
    /\ UNCHANGED <<unmoved, queue, market, ledger>>

(* _publish_wallet_truth after a live fill, as in connect().               *)
ExecSnapshot ==
    /\ exec.pc = "wallet" /\ session[exec.via] # "closed"
    /\ exec' = [pc |-> "answer", id |-> exec.id, via |-> exec.via, seen |-> Cardinality(venue)]
    /\ UNCHANGED <<unmoved, queue, verdict, market, ledger>>

ExecPublishes ==
    /\ exec.pc = "answer" /\ session[exec.via] # "closed"
    /\ queue' = Append(queue, Wallet(exec.seen))
    /\ exec' = Idle
    /\ UNCHANGED <<unmoved, verdict, market, ledger>>

ExecWalletFails ==
    /\ exec.pc \in {"wallet", "answer"}
    /\ exec' = Idle
    /\ UNCHANGED <<unmoved, queue, verdict, market, ledger>>

Dispatch ==
    \/ Book \/ GateDrops \/ AbidesFills \/ SyntheticFill \/ ExecuteReality
    \/ CreateOrder \/ NoSessionLeft \/ OrderAcknowledged \/ PriceArrives \/ OrderRaises
    \/ ExecSnapshot \/ ExecPublishes \/ ExecWalletFails

Next ==
    \/ BootConnect \/ RequestSimulation \/ CloseStarts \/ CloseEnds
    \/ \E c \in Connectors : RequestReality(c) \/ ConnStep(c) \/ Dispose(c)
    \/ PublishIntent
    \/ Dispatch
    \/ \E i \in Intents : VenueExecutes(i) \/ VenueRefuses(i)

(* The bus task keeps dispatching, and every exchange call returns or      *)
(* raises, for ccxt puts a timeout on it.  Operators, the AI bridge and    *)
(* the venue's matching owe nothing.                                       *)
Spec ==
    /\ Init /\ [][Next]_vars
    /\ WF_vars(Dispatch)
    /\ \A c \in Connectors : WF_vars(ConnStep(c)) /\ WF_vars(Dispose(c))

-----------------------------------------------------------------------------
Events == [kind : {"intent", "fill"}, id : Intents, units : {1}]
          \cup [kind : {"wallet"}, id : {0}, units : Nat]
Calls == [pc : {"new", "loading", "capital", "wallet", "answer", "done"},
          via : Connectors \cup {None}, seen : Nat]
Steps == [pc : {"idle", "ticker", "order", "price", "wallet", "answer"},
          id : Intents \cup {0}, via : Connectors \cup {None}, seen : Nat]

TypeOK ==
    /\ mode \in {"REALITY", "SIMULATION"}
    /\ credentialed \in BOOLEAN
    /\ armed \in BOOLEAN
    /\ exchange \in Connectors \cup {None}
    /\ live \in BOOLEAN
    /\ session \in [Connectors -> {"none", "open", "closing", "closed"}]
    /\ conn \in [Connectors -> Calls]
    /\ exec \in Steps
    /\ closer \in {"up", "closing", "down"}
    /\ sent \in 0 .. MaxIntents
    /\ queue \in Seq(Events)
    /\ verdict \in [Intents -> {"none", "dropped", "abides", "synthetic", "filled", "failed"}]
    /\ submitted \subseteq Intents /\ refused \subseteq Intents /\ venue \subseteq Intents
    /\ ledger \in Nat

(* What execute() promises for a live order (ccxt_bridge.py:357-361): no   *)
(* synthetic fill for an order that was handed to the venue, and no real   *)
(* fill for one the venue has not executed, whatever timeouts, dropped     *)
(* sessions and mode switches happen on the way.                           *)
HonestReports ==
    \A i \in Intents :
        /\ verdict[i] = "synthetic" => i \notin submitted
        /\ verdict[i] = "filled" => i \in venue

(* is_live tells the truth: while it holds, the bound session was loaded   *)
(* and is neither disposed of nor being disposed of, whichever connect()   *)
(* calls, mode switches and shutdown interleave.                           *)
LiveSessionIsOpen == live => exchange # None /\ session[exchange] = "open"

(* Nobody waits for ever, with switches, disposals and shutdown at every   *)
(* await: the bus is never stuck behind an order, every published intent   *)
(* comes to a verdict; and connect() "MUST return successfully"            *)
(* (ccxt_bridge.py:194), or the lifespan and the mode endpoints hang.      *)
NothingHangs ==
    /\ \A i \in Intents : sent >= i ~> verdict[i] # "none"
    /\ \A c \in Connectors : conn[c].pc # "new" ~> conn[c].pc = "done"

Settled ==
    /\ queue = <<>> /\ exec.pc = "idle"
    /\ \A c \in Connectors : conn[c].pc \in {"new", "done"}
    /\ \A i \in 1 .. sent : verdict[i] \in {"filled", "dropped", "abides"}

(* cockpit/ws.py:112 "Exchange wallet is the PnL source of truth after     *)
(* live fills": when nothing is in flight and no order failed or was       *)
(* filled synthetically, the ledger holds the venue's position.            *)
LedgerReconciled == Settled => ledger = Cardinality(venue)

(* README.md:353 "không để live socket kẹt sang sandbox": no live session  *)
(* stays bound in SIMULATION.                                              *)
NoLiveSessionInSimulation == mode = "SIMULATION" => ~IsLive

(* ccxt_bridge.py:10-12 "SIMULATION -- decouples from the exchange         *)
(* entirely ... so macro stress-tests never touch live capital".           *)
NoLiveOrderInSimulation == [][submitted' # submitted => mode = "REALITY"]_vars

(* ccxt_bridge.py:160-161 "a REALITY->SIMULATION transition force tears    *)
(* down any live exchange socket instead of leaving it bound": a session   *)
(* that was loaded and is not bound any more is being closed.              *)
NoOrphanSession ==
    \A c \in Connectors :
        session[c] = "open" => c = exchange \/ conn[c].pc = "loading"

(* ccxt_bridge.py:357-361: an order of a credentialed bridge in REALITY is *)
(* filled synthetically only when no session loaded, never because an      *)
(* operator asked for REALITY again while one was bound.                   *)
NoSyntheticBesideSession ==
    [][\A i \in Intents :
          Serving /\ verdict[i] = "none" /\ verdict'[i] = "synthetic"
              => exchange = None]_vars
=============================================================================
