------------------------------- MODULE Ledger -------------------------------
(* The two books that the platform keeps of one account: the Sentinel's    *)
(* (sentinel/manager.py) and the cockpit's (core/cockpit/ws.py). Both      *)
(* subscribe to the same topics, and the dispatcher runs both handlers of  *)
(* an event before the next one: an event is one step.                     *)
(*                                                                         *)
(* Abstracted data: quantities are lots. A position keeps its cost         *)
(* avg * qty in place of avg, so that all sums are exact integers; fills   *)
(* whose share of the cost is no integer are left out (Exact). Fills that  *)
(* are not FILLED change neither book. The cockpit's statistics (session   *)
(* profit, wins, drawdown) are left out, and the governor that follows a   *)
(* revaluation is the subject of module Sentinel.                          *)
EXTENDS Integers, FiniteSets, Functions

CONSTANTS
    Symbols,
    Prices,     \* prices of fills and tickers
    Lots,       \* quantities of fills
    Fees,       \* commissions of fills
    Capital,    \* starting_capital
    Bases,      \* equity bases of quant.capital.sync
    Wallets,    \* payloads of quant.wallet.sync: [equity, upnl, positions]
    MaxQty,     \* bound on the open lots that a fill leaves
    MaxCost,    \* bound on the cost of the position that a fill leaves
    MaxCash     \* bound on the realised total that a fill leaves

Position == [qty : Int, cost : Int]

(* An average price is never negative: the cost has the quantity's sign.   *)
SignedCost(pos) ==
    /\ pos.qty > 0 => pos.cost >= 0
    /\ pos.qty < 0 => pos.cost <= 0
    /\ pos.qty = 0 => pos.cost = 0

(* The wallet that the bridge publishes lists finitely many positions, each*)
(* with the exchange's entry price for its average.                        *)
ASSUME LedgerAssumption ==
    /\ Prices \subseteq Nat \ {0}
    /\ Lots \subseteq Nat \ {0}
    /\ Fees \subseteq Nat
    /\ Capital \in Nat \ {0}
    /\ Bases \subseteq Nat
    /\ MaxQty \in Nat /\ MaxCost \in Nat /\ MaxCash \in Nat
    /\ \A w \in Wallets : /\ w.equity \in Int /\ w.upnl \in Int
                          /\ DOMAIN w.positions \subseteq Symbols
                          /\ IsFiniteSet(DOMAIN w.positions)
                          /\ \A s \in DOMAIN w.positions :
                                /\ w.positions[s] \in Position
                                /\ SignedCost(w.positions[s])

VARIABLES
    sentinel,   \* positions, marks, starting capital, PnL and equity
    cockpit,    \* the same of the hub; its equity is the last of _equity
    filled,     \* the cockpit's ledger of fills is not empty
    synced      \* history: a wallet sync has been applied

vars == <<sentinel, cockpit, filled, synced>>

Book(positions, marks, start, realised, unreal, equity) ==
    [positions |-> positions, marks |-> marks, start |-> start,
     realised |-> realised, unreal |-> unreal, equity |-> equity]

Sides == {"LONG_OPEN", "LONG_CLOSE", "SHORT_OPEN", "SHORT_CLOSE"}

NoMark == 0

-----------------------------------------------------------------------------
(* The accounting of one position.                                         *)

Size(x) == IF x < 0 THEN -x ELSE x

Flat == [qty |-> 0, cost |-> 0]

(* setdefault(asset, {"qty": 0, "avg": 0}).                                *)
Held(positions, sym) == IF sym \in DOMAIN positions THEN positions[sym] ELSE Flat

Store(positions, sym, pos) ==
    [s \in DOMAIN positions \cup {sym} |-> IF s = sym THEN pos ELSE positions[s]]

Closes(pos, side) == side \in {"LONG_CLOSE", "SHORT_CLOSE"} /\ pos.qty # 0

Direction(pos) == IF pos.qty > 0 THEN 1 ELSE -1

(* What n lots of the position cost, with the position's sign.             *)
Share(pos, n) == (pos.cost * n) \div Size(pos.qty)

Exact(pos, n) == (pos.cost * n) % Size(pos.qty) = 0

(* Mutant: the fee of a close is added to the gain.                        *)
FeeIsGained(pos, n, price, fee) ==
    Direction(pos) * (price * n) - Share(pos, n) + fee

(* realized = direction * (price - avg) * qty - commission.                *)
Gain(pos, n, price, fee) ==
    Direction(pos) * (price * n) - Share(pos, n) - fee

Reduced(pos, n) ==
    [qty |-> pos.qty - Direction(pos) * n, cost |-> pos.cost - Share(pos, n)]

Signed(side, n) == IF side \in {"LONG_OPEN", "LONG_CLOSE"} THEN n ELSE -n

(* Mutant: the sign of the position is forgotten.                          *)
AveragedUnsigned(pos, delta, price) ==
    LET qty == pos.qty + delta
    IN [qty |-> qty, cost |-> IF qty = 0 THEN 0 ELSE Size(pos.cost) + price * Size(delta)]

(* Anything but a close is averaged in, whatever its direction.            *)
Averaged(pos, delta, price) ==
    LET qty == pos.qty + delta
        cost == Size(pos.cost) + price * Size(delta)
    IN [qty |-> qty,
        cost |-> IF qty = 0 THEN 0 ELSE IF qty > 0 THEN cost ELSE -cost]

(* Mutant: the cockpit does not close with SHORT_CLOSE.                    *)
ClosesLongsOnly(pos, side, n, price) ==
    IF side = "LONG_CLOSE" /\ pos.qty # 0
    THEN Reduced(pos, n)
    ELSE Averaged(pos, Signed(side, n), price)

(* The position that the cockpit holds after a fill.                       *)
CockpitMoved(pos, side, n, price) ==
    IF Closes(pos, side) THEN Reduced(pos, n)
                         ELSE Averaged(pos, Signed(side, n), price)

(* The position that the Sentinel holds after a fill.                      *)
SentinelMoved(pos, side, n, price) ==
    IF Closes(pos, side) THEN Reduced(pos, n)
                         ELSE Averaged(pos, Signed(side, n), price)

-----------------------------------------------------------------------------
(* Marking to market.                                                      *)

(* (mark - avg) * qty; a symbol without a mark is valued at its cost.      *)
Unreal(pos, mark) == IF mark = NoMark THEN 0 ELSE mark * pos.qty - pos.cost

Unrealised(positions, marks) ==
    SumFunction([s \in DOMAIN positions |-> Unreal(positions[s], marks[s])])

(* _revalue_and_govern.                                                    *)
Revalued(positions, marks, start, realised) ==
    LET unreal == Unrealised(positions, marks)
    IN Book(positions, marks, start, realised, unreal, start + realised + unreal)

(* What the book says the account is worth at its marks.                   *)
Worth(book) == book.start + book.realised + Unrealised(book.positions, book.marks)

Cash(book) == book.start + book.realised

-----------------------------------------------------------------------------
Opening == Book(<<>>, [s \in Symbols |-> NoMark], Capital, 0, 0, Capital)

Init ==
    /\ sentinel = Opening
    /\ cockpit = Opening
    /\ filled = FALSE
    /\ synced = FALSE

(* What a fill realises: a close its gain, anything else nothing.          *)
Booked(pos, side, n, price, fee) ==
    IF Closes(pos, side) THEN Gain(pos, n, price, fee) ELSE 0

(* The Sentinel's book after a fill.                                       *)
SentinelFilled(sym, side, n, price, fee) ==
    LET pos == Held(sentinel.positions, sym)
    IN Revalued(Store(sentinel.positions, sym, SentinelMoved(pos, side, n, price)),
                [sentinel.marks EXCEPT ![sym] = price],
                sentinel.start,
                sentinel.realised + Booked(pos, side, n, price, fee))

(* The cockpit's: _apply_pnl.                                              *)
CockpitFilled(sym, side, n, price, fee) ==
    LET pos == Held(cockpit.positions, sym)
    IN Revalued(Store(cockpit.positions, sym, CockpitMoved(pos, side, n, price)),
                [cockpit.marks EXCEPT ![sym] = price],
                cockpit.start,
                cockpit.realised + Booked(pos, side, n, price, fee))

OpenLots(positions) == SumFunction([s \in DOMAIN positions |-> Size(positions[s].qty)])

(* The fills that the instance follows: exact, and within its bounds.      *)
InBounds(sym, side, n, price, fee) ==
    LET pos == Held(sentinel.positions, sym)
        moved == SentinelMoved(pos, side, n, price)
    IN /\ Closes(pos, side) => Exact(pos, n)
       /\ OpenLots(Store(sentinel.positions, sym, moved)) <= MaxQty
       /\ Size(moved.cost) <= MaxCost
       /\ Size(sentinel.realised + Booked(pos, side, n, price, fee)) <= MaxCash

(* Both _on_fill handlers.                                                 *)
Fill(sym, side, n, price, fee) ==
    /\ InBounds(sym, side, n, price, fee)
    /\ sentinel' = SentinelFilled(sym, side, n, price, fee)
    /\ cockpit' = CockpitFilled(sym, side, n, price, fee)
    /\ filled' = TRUE
    /\ UNCHANGED synced

(* Mutant: the Sentinel marks only what it still has open.                 *)
MarksOpenOnly(sym, price) ==
    IF Held(sentinel.positions, sym).qty # 0
    THEN [sentinel.marks EXCEPT ![sym] = price]
    ELSE sentinel.marks

(* The Sentinel re-marks the symbols that it has a position record of.     *)
SentinelMarks(sym, price) ==
    IF sym \in DOMAIN sentinel.positions
    THEN [sentinel.marks EXCEPT ![sym] = price]
    ELSE sentinel.marks

(* Both _on_ticker handlers: the Sentinel revalues its equity, the cockpit *)
(* marks every symbol and leaves its equity curve alone.                   *)
Ticker(sym, price) ==
    /\ sentinel' = Revalued(sentinel.positions, SentinelMarks(sym, price),
                            sentinel.start, sentinel.realised)
    /\ LET marks == [cockpit.marks EXCEPT ![sym] = price]
       IN cockpit' = Book(cockpit.positions, marks, cockpit.start, cockpit.realised,
                          Unrealised(cockpit.positions, marks), cockpit.equity)
    /\ UNCHANGED <<filled, synced>>

(* A book that has taken base for its capital.                             *)
Rebased(book, base) == Book(book.positions, book.marks, base, 0, 0, base)

(* Mutant: the cockpit asks its ledger only.                               *)
CockpitIgnoresPositions == ~filled

(* `if self._positions or self._ledger: return`.                           *)
CockpitMayRebase == cockpit.positions = <<>> /\ ~filled

SentinelMayRebase == sentinel.positions = <<>>

(* Both _on_capital_sync handlers.                                         *)
CapitalSync(base) ==
    /\ sentinel' = IF SentinelMayRebase /\ base > 0
                   THEN Rebased(sentinel, base) ELSE sentinel
    /\ cockpit' = IF CockpitMayRebase /\ base > 0
                  THEN Rebased(cockpit, base) ELSE cockpit
    /\ UNCHANGED <<filled, synced>>

(* Mutant: the cockpit leaves the exchange's open profit in the realised.  *)
SettlesWithOpenProfit(book, w) ==
    Book(w.positions, book.marks, book.start, w.equity - book.start, w.upnl,
         w.equity + w.upnl)

(* The cockpit's book once the exchange's wallet has been applied; its     *)
(* _update_equity yields start + realised + unrealised.                    *)
CockpitSettled(book, w) ==
    Book(w.positions, book.marks, book.start, w.equity - book.start - w.upnl,
         w.upnl, w.equity)

(* The Sentinel's.                                                         *)
SentinelSettled(book, w) ==
    Book(w.positions, book.marks, book.start, w.equity - book.start - w.upnl,
         w.upnl, w.equity)

(* Both _on_wallet_sync handlers.                                          *)
WalletSync(w) ==
    /\ w.equity > 0
    /\ sentinel' = SentinelSettled(sentinel, w)
    /\ cockpit' = CockpitSettled(cockpit, w)
    /\ synced' = TRUE
    /\ UNCHANGED filled

Next ==
    \/ \E sym \in Symbols, side \in Sides, n \in Lots, price \in Prices, fee \in Fees :
          Fill(sym, side, n, price, fee)
    \/ \E sym \in Symbols, price \in Prices : Ticker(sym, price)
    \/ \E base \in Bases : CapitalSync(base)
    \/ \E w \in Wallets : WalletSync(w)

Spec == Init /\ [][Next]_vars

-----------------------------------------------------------------------------
IsBook(b) ==
    /\ DOMAIN b.positions \subseteq Symbols
    /\ \A s \in DOMAIN b.positions :
          b.positions[s].qty \in Int /\ b.positions[s].cost \in Int
    /\ b.marks \in [Symbols -> Prices \cup {NoMark}]
    /\ b.start \in Nat \ {0}
    /\ b.realised \in Int /\ b.unreal \in Int /\ b.equity \in Int

(* Both books are books and an average price is never negative: the cost   *)
(* of a position has the position's sign.                                  *)
TypeOK ==
    /\ IsBook(sentinel) /\ IsBook(cockpit)
    /\ filled \in BOOLEAN /\ synced \in BOOLEAN
    /\ \A s \in DOMAIN sentinel.positions : SignedCost(sentinel.positions[s])

(* What the Sentinel's docstring promises of the cockpit, as far as it     *)
(* holds: the positions are the same whatever happens, and until the       *)
(* exchange's wallet is first applied so are the capital, the realised and *)
(* the unrealised profit and the marks of everything ever held, although   *)
(* the two guard a capital sync and a ticker differently.                  *)
Mirrored ==
    /\ cockpit.positions = sentinel.positions
    /\ ~synced =>
          /\ cockpit.start = sentinel.start
          /\ cockpit.realised = sentinel.realised
          /\ cockpit.unreal = sentinel.unreal
          /\ \A s \in DOMAIN sentinel.positions : cockpit.marks[s] = sentinel.marks[s]

(* Capital and realised profit part in one way only: a capital sync that   *)
(* finds an account emptied by the exchange, which the Sentinel takes for  *)
(* one that has never traded and the cockpit does not.                     *)
OnlyRebasingSplits ==
    [][/\ Cash(cockpit) = Cash(sentinel)
       /\ Cash(cockpit)' # Cash(sentinel)'
       => /\ synced /\ filled
          /\ sentinel.positions = <<>> /\ UNCHANGED cockpit]_vars

(* An OPEN against the position.                                           *)
Reverses(pos, side) ==
    ~Closes(pos, side) /\ pos.qty * Signed(side, 1) < 0

(* What the next fill at the mark of its symbol makes of the account's     *)
(* worth in the Sentinel's book.                                           *)
WorthAfter(sym, side, n, fee) ==
    Worth(SentinelFilled(sym, side, n, sentinel.marks[sym], fee))

Marked == {s \in Symbols : sentinel.marks[s] # NoMark}

(* A fill at the mark moves profit from unrealised to realised and creates *)
(* none: the account is worth the same, less the fee of a close. This      *)
(* includes closes that overshoot and turn the position; it excludes OPENs *)
(* against the position, see AllFillsConserve.                             *)
FillsConserve ==
    \A sym \in Marked, side \in Sides, n \in Lots, fee \in Fees :
       LET pos == Held(sentinel.positions, sym)
       IN ~Reverses(pos, side) =>
             WorthAfter(sym, side, n, fee) =
                Worth(sentinel) - (IF Closes(pos, side) THEN fee ELSE 0)

(* The Sentinel's comment says that its equity is execution truth, capital *)
(* plus realised plus unrealised profit: no fill at the mark changes it by *)
(* more than its fee. An OPEN against the position, which a reversing      *)
(* signal sends, is averaged into the cost of the rest and books nothing.  *)
AllFillsConserve ==
    \A sym \in Marked, side \in Sides, n \in Lots, fee \in Fees :
       WorthAfter(sym, side, n, fee) \in {Worth(sentinel), Worth(sentinel) - fee}
=============================================================================
