------------------------------- MODULE Trade -------------------------------
(**************************************************************************   *)
(* Trading between two players: TradeData, the handlers of TradeHandler.cpp   *)
(* and Player::TradeCancel, with the transaction that makes a trade           *)
(* durable.  The handlers are PROCESS_THREADUNSAFE: the world thread runs     *)
(* them one at a time, so each is one step, but between two of them           *)
(* anything else may happen to the players' gold and items, and the           *)
(* process may crash before the database has the trade.                       *)
(*                                                                            *)
(* Items are tokens (stacking is left out); bags hold a number of them.       *)
(* A spell cast on the item in the last slot is on or off.                    *)
(**************************************************************************   *)
EXTENDS Integers, FiniteSets, Sequences, SequencesExt

CONSTANTS
    Players, Items,
    Slots,          \* TRADE_SLOT_TRADED_COUNT slots whose items change hands
    NotTraded,      \* TRADE_SLOT_NONTRADED
    None,
    MaxMoney,       \* MAX_MONEY_AMOUNT
    Room,           \* items that fit into a player's bags
    StartItems, StartMoney,
    MaxWrites       \* bound on the transactions the database worker is behind

AllSlots == Slots \cup {NotTraded}

Offer == [gold : 0..MaxMoney, spell : BOOLEAN, slot : [AllSlots -> Items \cup {None}]]
NoOffer == [gold |-> 0, spell |-> FALSE, slot |-> [s \in AllSlots |-> None]]
TradeData == [with : Players, accepted : BOOLEAN, offer : Offer]
Saved == [items : SUBSET Items, money : 0..MaxMoney]

ASSUME TradeAssumption ==
    /\ NotTraded \notin Slots /\ None \notin Players \cup Items \cup TradeData \cup Saved
    /\ IsFiniteSet(Players) /\ IsFiniteSet(Items)
    /\ MaxMoney \in Nat /\ Room \in [Players -> Nat]
    /\ StartItems \in [Players -> SUBSET Items]
    /\ \A p, q \in Players : p # q => StartItems[p] \cap StartItems[q] = {}
    /\ StartMoney \in [Players -> 0..MaxMoney]
    /\ MaxWrites \in Nat

VARIABLES
    online,         \* players in the world
    trade,          \* m_trade: None, or the player's TradeData
    bag,            \* the items each player holds
    money,          \* PLAYER_FIELD_COINAGE
    bound,          \* items that cannot be traded (any more)
    writes,         \* transactions handed to the CharacterDatabase, in order
    saved,          \* the inventory and gold of each player in the database
    seen            \* history: the partner's offer when a player accepted it

vars == <<online, trade, bag, money, bound, writes, saved, seen>>

TypeOK ==
    /\ online \subseteq Players
    /\ trade \in [Players -> TradeData \cup {None}]
    /\ bag \in [Players -> SUBSET Items]
    /\ money \in [Players -> 0..MaxMoney]
    /\ bound \subseteq Items
    /\ writes \in Seq([Players -> Saved \cup {None}])
    /\ saved \in [Players -> Saved]
    /\ seen \in [Players -> Offer]

Init ==
    /\ online = Players
    /\ trade = [p \in Players |-> None]
    /\ bag = StartItems
    /\ money = StartMoney
    /\ bound = {}
    /\ writes = << >>
    /\ saved = [p \in Players |-> [items |-> StartItems[p], money |-> StartMoney[p]]]
    /\ seen = [p \in Players |-> NoOffer]

Trading(p) == trade[p] # None
Partner(p) == trade[p].with
OfferOf(p) == trade[p].offer

(* What a player has accepted is remembered while the acceptance stands.      *)
Remember(p) ==
    seen' = [q \in Players |->
        IF trade'[q] = None \/ ~trade'[q].accepted THEN NoOffer
        ELSE IF q = p THEN OfferOf(Partner(q)) ELSE seen[q]]
Forget == Remember(None)

(* TradeData::GetItem: an item placed in a slot may have left the bags.       *)
ItemIn(p, s) == IF OfferOf(p).slot[s] \in bag[p] THEN OfferOf(p).slot[s] ELSE None
GivenBy(p) == {ItemIn(p, s) : s \in Slots} \ {None}

----------------------------------------------------------------------------
(* TradeData.                                                                 *)

(* Variant: the partner's acceptance stands.                                  *)
ChangeAlone(p, offer) ==
    /\ offer # OfferOf(p)
    /\ trade' = [trade EXCEPT ![p].offer = offer, ![p].accepted = FALSE]
    /\ Forget
    /\ UNCHANGED <<online, bag, money, bound, writes, saved>>

(* Every setter that changes something takes back both acceptances.           *)
Change(p, offer) ==
    /\ offer # OfferOf(p)
    /\ trade' = [trade EXCEPT ![p].offer = offer,
                              ![p].accepted = FALSE,
                              ![Partner(p)].accepted = FALSE]
    /\ Forget
    /\ UNCHANGED <<online, bag, money, bound, writes, saved>>

(* HandleSetTradeGoldOpcode, SetMoney.                                        *)
SetGold(p, gold) ==
    /\ Trading(p)
    /\ gold <= money[p]
    /\ Change(p, [OfferOf(p) EXCEPT !.gold = gold])

(* SetItem also drops the spells that may depend on the item: the             *)
(* partner's when the item they were cast on changes, and the player's own.   *)
SetItem(p, s, item) ==
    /\ item # OfferOf(p).slot[s]
    /\ trade' = [trade EXCEPT
            ![p].offer.slot[s] = item,
            ![p].offer.spell = FALSE,
            ![p].accepted = FALSE,
            ![Partner(p)].accepted = FALSE,
            ![Partner(p)].offer.spell = IF s = NotTraded THEN FALSE ELSE @]
    /\ Forget
    /\ UNCHANGED <<online, bag, money, bound, writes, saved>>

(* HandleSetTradeItemOpcode.                                                  *)
PlaceItem(p, s, item) ==
    /\ Trading(p)
    /\ item \in bag[p]
    /\ s # NotTraded => item \notin bound
    /\ \A r \in AllSlots : OfferOf(p).slot[r] # item
    /\ SetItem(p, s, item)

(* HandleClearTradeItemOpcode.                                                *)
ClearItem(p, s) ==
    /\ Trading(p)
    /\ SetItem(p, s, None)

(* Spell::cast on the partner's last slot: kept for the end of the trade.     *)
SetSpell(p) ==
    /\ Trading(p)
    /\ ~OfferOf(p).spell
    /\ Change(p, [OfferOf(p) EXCEPT !.spell = TRUE])

----------------------------------------------------------------------------
(* HandleAcceptTradeOpcode.  The checks are made in this order, and the       *)
(* first that fails decides which of the two acceptances is taken back.       *)

(* Variant: the gold was checked when it was offered.                         *)
CannotPayIgnored(p) == FALSE

CannotPay(p) == money[p] < OfferOf(p).gold
TooMuchGold(p) == money[p] >= MaxMoney - OfferOf(Partner(p)).gold
HasBoundItem(p) == (GivenBy(p) \cup GivenBy(Partner(p))) \cap bound # {}
Blocked(p) == CannotPay(p) \/ CannotPay(Partner(p)) \/ TooMuchGold(p)
              \/ TooMuchGold(Partner(p)) \/ HasBoundItem(p)

Accepted(p, mine, his) ==
    /\ trade' = [trade EXCEPT ![p].accepted = mine, ![Partner(p)].accepted = his]
    /\ Remember(p)
    /\ UNCHANGED <<online, bag, money, bound, writes, saved>>

AcceptBlocked(p) ==
    LET q == Partner(p) IN
    /\ Trading(p) /\ Blocked(p)
    /\ CASE CannotPay(p)   -> Accepted(p, FALSE, trade[q].accepted)
         [] ~CannotPay(p) /\ CannotPay(q) -> Accepted(p, TRUE, FALSE)
         [] ~CannotPay(p) /\ ~CannotPay(q) /\ TooMuchGold(p) ->
                Accepted(p, FALSE, trade[q].accepted)
         [] ~CannotPay(p) /\ ~CannotPay(q) /\ ~TooMuchGold(p) /\ TooMuchGold(q) ->
                Accepted(p, TRUE, FALSE)
         [] OTHER -> Accepted(p, TRUE, trade[q].accepted)

AcceptFirst(p) ==
    /\ Trading(p) /\ ~Blocked(p)
    /\ ~trade[Partner(p)].accepted
    /\ Accepted(p, TRUE, FALSE)

(* A spell needs an item in the partner's last slot.                          *)
SpellWorks(caster) ==
    OfferOf(caster).spell => ItemIn(Partner(caster), NotTraded) # None
SpellsWork(p) == SpellWorks(p) /\ SpellWorks(Partner(p))

(* Both have accepted, but a spell cannot be cast now: it is withdrawn.       *)
(* The player's own spell is tried before that of the partner.                *)
SpellFails(p, caster) ==
    /\ Trading(p) /\ ~Blocked(p)
    /\ trade[Partner(p)].accepted
    /\ caster \in {p, Partner(p)} /\ OfferOf(caster).spell
    /\ caster # p => SpellWorks(p)
    /\ Change(caster, [OfferOf(caster) EXCEPT !.spell = FALSE])

(* Variant: what the player gives is all that counts.                         *)
FitsAlone(p) == Cardinality(bag[p] \ GivenBy(p)) <= Room[p]

(* CanStoreItems takes the items flagged IsInTrade for free space.            *)
Fits(p) ==
    Cardinality(bag[p] \ GivenBy(p)) + Cardinality(GivenBy(Partner(p))) <= Room[p]

AcceptNoRoom(p) ==
    /\ Trading(p) /\ ~Blocked(p)
    /\ trade[Partner(p)].accepted /\ SpellsWork(p)
    /\ ~Fits(p) \/ ~Fits(Partner(p))
    /\ Accepted(p, FALSE, FALSE)

Write(ps, newBag, newMoney) ==
    writes' = Append(writes, [p \in Players |->
        IF p \in ps THEN [items |-> newBag[p], money |-> newMoney[p]] ELSE None])

(* ModifyMoney, for a player who pays first and is paid then.                 *)
Modified(p) == money[p] - OfferOf(p).gold + OfferOf(Partner(p)).gold

(* Variant: each player is saved in a transaction of his own, and only one    *)
(* of them here.                                                              *)
AcceptBothSavedApart(p) ==
    LET q == Partner(p) IN
    /\ Trading(p) /\ ~Blocked(p)
    /\ trade[q].accepted /\ SpellsWork(p)
    /\ Fits(p) /\ Fits(q)
    /\ Len(writes) < MaxWrites
    /\ bag' = [bag EXCEPT ![p] = (@ \ GivenBy(p)) \cup GivenBy(q),
                          ![q] = (@ \ GivenBy(q)) \cup GivenBy(p)]
    /\ money' = [money EXCEPT ![p] = Modified(p), ![q] = Modified(q)]
    /\ trade' = [trade EXCEPT ![p] = None, ![q] = None]
    /\ Write({p}, bag', money')
    /\ Forget
    /\ UNCHANGED <<online, bound, saved>>

(* The items change hands, then the gold; both windows are deleted and        *)
(* both players saved in one transaction.                                     *)
AcceptBoth(p) ==
    LET q == Partner(p) IN
    /\ Trading(p) /\ ~Blocked(p)
    /\ trade[q].accepted /\ SpellsWork(p)
    /\ Fits(p) /\ Fits(q)
    /\ Len(writes) < MaxWrites
    /\ bag' = [bag EXCEPT ![p] = (@ \ GivenBy(p)) \cup GivenBy(q),
                          ![q] = (@ \ GivenBy(q)) \cup GivenBy(p)]
    /\ money' = [money EXCEPT ![p] = Modified(p), ![q] = Modified(q)]
    /\ trade' = [trade EXCEPT ![p] = None, ![q] = None]
    /\ Write({p, q}, bag', money')
    /\ Forget
    /\ UNCHANGED <<online, bound, saved>>

(* HandleUnacceptTradeOpcode.                                                 *)
Unaccept(p) ==
    /\ Trading(p)
    /\ Accepted(p, FALSE, trade[Partner(p)].accepted)

----------------------------------------------------------------------------
(* Variant: the other player may be trading already.                          *)
InitiateAnyway(p, q) ==
    /\ {p, q} \subseteq online /\ p # q
    /\ ~Trading(p)
    /\ trade' = [trade EXCEPT
            ![p] = [with |-> q, accepted |-> FALSE, offer |-> NoOffer],
            ![q] = [with |-> p, accepted |-> FALSE, offer |-> NoOffer]]
    /\ Forget
    /\ UNCHANGED <<online, bag, money, bound, writes, saved>>

(* HandleInitiateTradeOpcode, once its checks on both players have passed.    *)
Initiate(p, q) ==
    /\ {p, q} \subseteq online /\ p # q
    /\ ~Trading(p) /\ ~Trading(q)
    /\ trade' = [trade EXCEPT
            ![p] = [with |-> q, accepted |-> FALSE, offer |-> NoOffer],
            ![q] = [with |-> p, accepted |-> FALSE, offer |-> NoOffer]]
    /\ Forget
    /\ UNCHANGED <<online, bag, money, bound, writes, saved>>

(* Player::TradeCancel deletes both windows.                                  *)
Cancelled(p) ==
    IF Trading(p) THEN [trade EXCEPT ![p] = None, ![Partner(p)] = None] ELSE trade

(* HandleCancelTradeOpcode, HandleSocketClosed, a taxi flight.                *)
TradeCancel(p) ==
    /\ Trading(p)
    /\ trade' = Cancelled(p)
    /\ Forget
    /\ UNCHANGED <<online, bag, money, bound, writes, saved>>

(* CleanupsBeforeDelete of a player who leaves the world, after a save.       *)
Logout(p) ==
    /\ p \in online /\ Len(writes) < MaxWrites
    /\ online' = online \ {p}
    /\ trade' = Cancelled(p)
    /\ Write({p}, bag, money)
    /\ Forget
    /\ UNCHANGED <<bag, money, bound, saved>>

(* The login queries are queued behind what the player's logout wrote.        *)
Login(p) ==
    /\ p \notin online /\ \A i \in DOMAIN writes : writes[i][p] = None
    /\ online' = online \cup {p}
    /\ bag' = [bag EXCEPT ![p] = saved[p].items]
    /\ money' = [money EXCEPT ![p] = saved[p].money]
    /\ UNCHANGED <<trade, bound, writes, saved, seen>>

----------------------------------------------------------------------------
(* The rest of the game, and the database.                                    *)

(* Gold is spent and items are used up whether or not they are in a           *)
(* trade window; an item may become soulbound.                                *)
Spend(p) ==
    /\ p \in online /\ money[p] > 0
    /\ money' = [money EXCEPT ![p] = @ - 1]
    /\ UNCHANGED <<online, trade, bag, bound, writes, saved, seen>>

LoseItem(p, item) ==
    /\ p \in online /\ item \in bag[p]
    /\ bag' = [bag EXCEPT ![p] = @ \ {item}]
    /\ UNCHANGED <<online, trade, money, bound, writes, saved, seen>>

BindItem(item) ==
    /\ bound' = bound \cup {item}
    /\ UNCHANGED <<online, trade, bag, money, writes, saved, seen>>

(* Player::SaveToDB, at any time.                                             *)
SavePlayer(p) ==
    /\ p \in online /\ Len(writes) < MaxWrites
    /\ Write({p}, bag, money)
    /\ UNCHANGED <<online, trade, bag, money, bound, saved, seen>>

(* The one worker of the pool commits the transactions in order.              *)
Commit ==
    /\ writes # << >>
    /\ writes' = Tail(writes)
    /\ saved' = [p \in Players |->
                   IF Head(writes)[p] = None THEN saved[p] ELSE Head(writes)[p]]
    /\ UNCHANGED <<online, trade, bag, money, bound, seen>>

(* The process dies with its queue; everyone comes back as last saved, and    *)
(* items may have been bound in what was not saved.                           *)
Crash ==
    /\ online' = Players
    /\ trade' = [p \in Players |-> None]
    /\ bag' = [p \in Players |-> saved[p].items]
    /\ money' = [p \in Players |-> saved[p].money]
    /\ writes' = << >>
    /\ bound' \in SUBSET bound
    /\ Forget
    /\ UNCHANGED saved

Next ==
    \/ \E p \in Players :
          \/ \E g \in 0..MaxMoney : SetGold(p, g)
          \/ \E s \in AllSlots : \/ ClearItem(p, s)
                                 \/ \E i \in Items : PlaceItem(p, s, i)
          \/ SetSpell(p)
          \/ AcceptBlocked(p) \/ AcceptFirst(p) \/ AcceptNoRoom(p) \/ AcceptBoth(p)
          \/ \E c \in Players : SpellFails(p, c)
          \/ Unaccept(p) \/ TradeCancel(p) \/ Logout(p) \/ Login(p)
          \/ \E q \in Players : Initiate(p, q)
          \/ Spend(p) \/ SavePlayer(p)
          \/ \E i \in Items : LoseItem(p, i)
    \/ \E i \in Items : BindItem(i)
    \/ Commit \/ Crash

Spec == Init /\ [][Next]_vars

----------------------------------------------------------------------------
(* Properties.                                                                *)

(* m_trade of two players point at each other's owner: SetItem, SetMoney      *)
(* and SetSpell follow GetTraderData() without a test, whoever initiated,     *)
(* cancelled or logged out before.                                            *)
PartnersAreMutual ==
    \A p \in Players : Trading(p) =>
        /\ Partner(p) # p /\ Trading(Partner(p)) /\ Partner(Partner(p)) = p
        /\ {p, Partner(p)} \subseteq online

(* An acceptance is always of the offer the partner now makes: no order of    *)
(* changes, acceptances and refusals of the two leaves a flag set that was    *)
(* given to an earlier offer.                                                 *)
AcceptanceIsInformed ==
    \A p \in Players : Trading(p) /\ trade[p].accepted =>
        seen[p] = OfferOf(Partner(p))

(* A completed trade neither creates nor destroys gold or items, and each     *)
(* partner still fits within his bags and below the gold limit.               *)
Completes(p) == Trading(p) /\ AcceptBoth(p)
TradeConserves ==
    [][\A p \in Players : Completes(p) => LET q == Partner(p) IN
          /\ money'[p] + money'[q] = money[p] + money[q]
          /\ bag'[p] \cup bag'[q] = bag[p] \cup bag[q]
          /\ bag'[p] \cap bag'[q] = {}
          /\ \A r \in {p, q} : Cardinality(bag'[r]) <= Room[r]]_vars

(* An item is held by one player, and no crash makes a second one of it:      *)
(* whatever prefix of the transactions the database has, no item is in two    *)
(* inventories and there is no more gold than the players began with.         *)
Disjoint(items) == \A p, q \in Players : p # q => items[p] \cap items[q] = {}
NoItemTwice == Disjoint(bag) /\ Disjoint([p \in Players |-> saved[p].items])
Total(m) == FoldSet(LAMBDA p, sum : sum + m[p], 0, Players)
NothingDuplicated ==
    NoItemTwice /\ Total([p \in Players |-> saved[p].money]) <= Total(StartMoney)

(* Nor does a crash lose one: whatever prefix of the transactions the         *)
(* database has, an item that a player holds is in somebody's inventory there.*)
NothingLost ==
    \A p \in Players : bag[p] \subseteq UNION {saved[q].items : q \in Players}
============================================================================
