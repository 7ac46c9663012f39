---------------------------- MODULE Trade_proofs -----------------------------
(* Proofs for Trade: for any players, items, slots and amounts of gold, trades*)
(* are mutual and informed, conserve what they exchange, and no item exists   *)
(* twice and no gold is made, crashes or not.                                 *)
EXTENDS Trade, Induction, FiniteSetTheorems, SequenceTheorems, TLAPS

----------------------------------------------------------------------------
(* The inductive invariant                                                    *)

(* What the database has of a player after the first k transactions.          *)
Recorded(k, p, v) ==
    \/ v = saved[p] /\ \A i \in 1..k : writes[i][p] = None
    \/ \E i \in 1..k : writes[i][p] = v /\ \A j \in 1..k : j > i => writes[j][p] = None

(* Nobody holds an item that somebody else holds, or would get back from the  *)
(* database, however many of the transactions it will have.                   *)
BagsHold == \A p, q \in Players : p # q => bag[p] \cap bag[q] = {}
BagsRecorded ==
    \A p, q \in Players, v \in Saved :
        p # q /\ Recorded(Len(writes), q, v) => bag[p] \cap v.items = {}
RecordsHold ==
    \A k \in 0..Len(writes) : \A p, q \in Players, u, v \in Saved :
        p # q /\ Recorded(k, p, u) /\ Recorded(k, q, v) => u.items \cap v.items = {}

HeldOnce == BagsHold /\ BagsRecorded /\ RecordsHold

IInv == TypeOK /\ PartnersAreMutual /\ AcceptanceIsInformed /\ HeldOnce

----------------------------------------------------------------------------
(* Facts about trades and steps                                               *)

LEMMA Absent ==
    /\ None \notin Players /\ None \notin Items /\ None \notin TradeData /\ None \notin Saved
    /\ NoOffer \in Offer /\ IsFiniteSet(Items) /\ MaxMoney \in Nat
BY TradeAssumption DEF NoOffer, Offer

LEMMA TradeFacts ==
    ASSUME TypeOK, NEW p \in Players, Trading(p)
    PROVE  /\ trade[p] \in TradeData /\ Partner(p) \in Players
           /\ OfferOf(p) \in Offer /\ trade[p].accepted \in BOOLEAN
BY DEF TypeOK, Trading, Partner, OfferOf, TradeData

LEMMA InitHolds == Init => IInv
<1> SUFFICES ASSUME Init PROVE IInv
  OBVIOUS
<1> USE DEF Init
<1>1. TypeOK
  BY TradeAssumption, Absent DEF TypeOK, Saved
<1>2. PartnersAreMutual /\ AcceptanceIsInformed
  BY DEF PartnersAreMutual, AcceptanceIsInformed, Trading
<1>3. BagsHold
  BY TradeAssumption DEF BagsHold
<1>4. Len(writes) = 0
  OBVIOUS
<1>5. \A p \in Players, v \in Saved : Recorded(0, p, v) => v.items = StartItems[p]
  BY DEF Recorded
<1>6. BagsRecorded
  BY <1>4, <1>5, TradeAssumption DEF BagsRecorded
<1>7. RecordsHold
  BY <1>4, <1>5, TradeAssumption DEF RecordsHold
<1> QED BY <1>1, <1>2, <1>3, <1>6, <1>7 DEF IInv, HeldOnce

(* Steps that change neither bags nor the database.                           *)
LEMMA HeldKept ==
    ASSUME HeldOnce, UNCHANGED <<bag, writes, saved>>
    PROVE  HeldOnce'
BY DEF HeldOnce, BagsHold, BagsRecorded, RecordsHold, Recorded

(* The windows keep their partners, and nobody comes or goes.                 *)
WindowsKept ==
    \A r \in Players : /\ trade'[r] = None <=> trade[r] = None
                       /\ trade[r] # None => trade'[r].with = trade[r].with

LEMMA MutualKept ==
    ASSUME TypeOK, PartnersAreMutual, WindowsKept, UNCHANGED online
    PROVE  PartnersAreMutual'
BY TradeFacts DEF PartnersAreMutual, WindowsKept, Trading, Partner

(* An offer of p changes, and maybe the spell of the other: both acceptances  *)
(* are taken back.                                                            *)
Retracts(p) ==
    /\ trade' \in [Players -> TradeData \cup {None}]
    /\ \A r \in Players : r # p /\ r # Partner(p) => trade'[r] = trade[r]
    /\ trade'[p] \in TradeData /\ trade'[Partner(p)] \in TradeData
    /\ trade'[p].with = Partner(p) /\ trade'[Partner(p)].with = Partner(Partner(p))
    /\ ~trade'[p].accepted /\ ~trade'[Partner(p)].accepted

LEMMA ForgetKeepsType ==
    ASSUME TypeOK, Forget
    PROVE  /\ seen' \in [Players -> Offer]
           /\ \A r \in Players :
                 seen'[r] = IF trade'[r] = None \/ ~trade'[r].accepted THEN NoOffer ELSE seen[r]
BY Absent DEF TypeOK, Forget, Remember

LEMMA RetractHolds ==
    ASSUME IInv, NEW p \in Players, Trading(p), Retracts(p), Forget,
           UNCHANGED <<online, bag, money, bound, writes, saved>>
    PROVE  IInv'
<1> USE DEF IInv
<1> DEFINE q == Partner(p)
<1>1. q \in Players /\ Trading(q) /\ Partner(q) = p /\ q # p
  BY TradeFacts DEF PartnersAreMutual
<1>2. TypeOK'
  BY ForgetKeepsType DEF Retracts, TypeOK
<1>3. PartnersAreMutual'
  <2>1. WindowsKept
    BY <1>1, Absent DEF WindowsKept, Retracts, Partner, Trading
  <2> QED BY <2>1, MutualKept
<1>4. AcceptanceIsInformed'
  <2> SUFFICES ASSUME NEW r \in Players, trade'[r] # None, trade'[r].accepted
               PROVE  seen'[r] = trade'[trade'[r].with].offer
    BY DEF AcceptanceIsInformed, Trading, OfferOf, Partner
  <2>1. r # p /\ r # q
    BY DEF Retracts
  <2>2. trade'[r] = trade[r] /\ Trading(r) /\ trade[r].accepted
    BY <2>1 DEF Retracts, Trading
  <2>3. Partner(r) \in Players /\ Partner(r) # p /\ Partner(r) # q
    BY <1>1, <2>1, <2>2, TradeFacts DEF PartnersAreMutual
  <2>4. trade'[Partner(r)] = trade[Partner(r)]
    BY <2>3 DEF Retracts
  <2>5. seen'[r] = seen[r] /\ seen[r] = OfferOf(Partner(r))
    BY <2>2, ForgetKeepsType DEF AcceptanceIsInformed
  <2> QED BY <2>2, <2>4, <2>5 DEF Partner, OfferOf
<1>5. HeldOnce'
  BY HeldKept
<1> QED BY <1>2, <1>3, <1>4, <1>5

----------------------------------------------------------------------------
(* The setters of TradeData                                                   *)

LEMMA ChangeHolds ==
    ASSUME IInv, NEW p \in Players, Trading(p), NEW o \in Offer, Change(p, o)
    PROVE  IInv'
<1>1. /\ Partner(p) \in Players /\ Partner(p) # p /\ Trading(Partner(p))
      /\ trade[p] \in TradeData /\ trade[Partner(p)] \in TradeData
  BY TradeFacts DEF IInv, PartnersAreMutual
<1>2. /\ trade'[p] = [with |-> trade[p].with, accepted |-> FALSE, offer |-> o]
      /\ trade'[Partner(p)] = [with |-> trade[Partner(p)].with, accepted |-> FALSE,
                               offer |-> trade[Partner(p)].offer]
      /\ \A r \in Players : r # p /\ r # Partner(p) => trade'[r] = trade[r]
      /\ DOMAIN trade' = Players /\ trade' = [r \in Players |-> trade'[r]]
  BY <1>1 DEF Change, IInv, TypeOK, TradeData
<1>3. trade'[p] \in TradeData /\ trade'[Partner(p)] \in TradeData
  BY <1>1, <1>2 DEF TradeData
<1>4. \A r \in Players : trade'[r] \in TradeData \cup {None}
  BY <1>1, <1>2, <1>3 DEF IInv, TypeOK
<1>5. Retracts(p)
  BY <1>1, <1>2, <1>3, <1>4 DEF Retracts, Partner
<1> QED BY <1>5, RetractHolds DEF Change

LEMMA SetItemHolds ==
    ASSUME IInv, NEW p \in Players, Trading(p), NEW s \in AllSlots,
           NEW i \in Items \cup {None}, SetItem(p, s, i)
    PROVE  IInv'
<1>1. /\ Partner(p) \in Players /\ Partner(p) # p /\ Trading(Partner(p))
      /\ trade[p] \in TradeData /\ trade[Partner(p)] \in TradeData
      /\ OfferOf(p) \in Offer /\ OfferOf(Partner(p)) \in Offer
  BY TradeFacts DEF IInv, PartnersAreMutual
<1> DEFINE mine == [gold |-> OfferOf(p).gold, spell |-> FALSE,
                    slot |-> [OfferOf(p).slot EXCEPT ![s] = i]]
           his == [gold |-> OfferOf(Partner(p)).gold,
                   spell |-> IF s = NotTraded THEN FALSE ELSE OfferOf(Partner(p)).spell,
                   slot |-> OfferOf(Partner(p)).slot]
<1>2. mine \in Offer /\ his \in Offer
  BY <1>1 DEF Offer
<1>3. /\ trade'[p] = [with |-> trade[p].with, accepted |-> FALSE, offer |-> mine]
      /\ trade'[Partner(p)] = [with |-> trade[Partner(p)].with, accepted |-> FALSE,
                               offer |-> his]
      /\ \A r \in Players : r # p /\ r # Partner(p) => trade'[r] = trade[r]
      /\ DOMAIN trade' = Players /\ trade' = [r \in Players |-> trade'[r]]
  BY <1>1, ZenonT(60) DEF SetItem, IInv, TypeOK, TradeData, Offer, OfferOf
<1> HIDE DEF mine, his
<1>4. trade'[p] \in TradeData /\ trade'[Partner(p)] \in TradeData
  BY <1>1, <1>2, <1>3 DEF TradeData
<1>5. \A r \in Players : trade'[r] \in TradeData \cup {None}
  BY <1>1, <1>3, <1>4 DEF IInv, TypeOK
<1>6. Retracts(p)
  BY <1>1, <1>3, <1>4, <1>5 DEF Retracts, Partner
<1> QED BY <1>6, RetractHolds DEF SetItem

----------------------------------------------------------------------------
(* Acceptances that do not complete the trade                                 *)

LEMMA AcceptedHolds ==
    ASSUME IInv, NEW p \in Players, Trading(p),
           NEW mine \in BOOLEAN, NEW his \in BOOLEAN,
           his => trade[Partner(p)].accepted,
           Accepted(p, mine, his)
    PROVE  IInv'
<1> USE DEF IInv
<1> DEFINE q == Partner(p)
<1>1. /\ q \in Players /\ q # p /\ Trading(q) /\ Partner(q) = p
      /\ trade[p] \in TradeData /\ trade[q] \in TradeData
      /\ OfferOf(p) \in Offer /\ OfferOf(q) \in Offer
  BY TradeFacts DEF PartnersAreMutual
<1>2. /\ trade'[p] = [with |-> trade[p].with, accepted |-> mine, offer |-> trade[p].offer]
      /\ trade'[q] = [with |-> trade[q].with, accepted |-> his, offer |-> trade[q].offer]
      /\ \A r \in Players : r # p /\ r # q => trade'[r] = trade[r]
      /\ trade' = [r \in Players |-> trade'[r]]
  BY <1>1 DEF Accepted, TypeOK, TradeData
<1>3. trade'[p] \in TradeData /\ trade'[q] \in TradeData
  BY <1>1, <1>2 DEF TradeData
<1>4. \A r \in Players : trade'[r] \in TradeData \cup {None}
  BY <1>2, <1>3 DEF TypeOK
<1>5. \A r \in Players :
         seen'[r] = IF trade'[r] = None \/ ~trade'[r].accepted THEN NoOffer
                    ELSE IF r = p THEN OfferOf(q) ELSE seen[r]
  BY DEF Accepted, Remember
<1>6. TypeOK'
  <2>1. seen' \in [Players -> Offer]
    BY <1>1, Absent DEF Accepted, Remember, TypeOK
  <2>2. trade' \in [Players -> TradeData \cup {None}]
    BY <1>2, <1>4
  <2> QED BY <2>1, <2>2 DEF Accepted, TypeOK
<1> HIDE DEF q
<1>7. /\ \A r \in Players : trade[r] # None =>
            /\ trade'[r] # None
            /\ trade'[r].with = trade[r].with /\ trade'[r].offer = trade[r].offer
            /\ r # p /\ trade'[r].accepted => trade[r].accepted
      /\ \A r \in Players : trade[r] = None => trade'[r] = None
  <2>1. trade'[p] # None /\ trade'[q] # None /\ trade[p] # None /\ trade[q] # None
    BY <1>1, <1>3, Absent DEF Trading
  <2> QED BY <1>2, <2>1 DEF q
<1>8. PartnersAreMutual'
  <2>1. WindowsKept
    BY <1>7 DEF WindowsKept
  <2> QED BY <2>1, MutualKept DEF Accepted
<1>9. AcceptanceIsInformed'
  <2> SUFFICES ASSUME NEW r \in Players, trade'[r] # None, trade'[r].accepted
               PROVE  seen'[r] = trade'[trade'[r].with].offer
    BY DEF AcceptanceIsInformed, Trading, OfferOf, Partner
  <2>1. /\ Trading(r) /\ trade'[r].with = Partner(r)
        /\ Partner(r) \in Players /\ trade[Partner(r)] # None
    BY <1>7, TradeFacts DEF PartnersAreMutual, Trading, Partner
  <2>2. trade'[Partner(r)].offer = OfferOf(Partner(r))
    BY <1>7, <2>1 DEF OfferOf
  <2>3. CASE r = p
    BY <1>5, <2>1, <2>2, <2>3 DEF q
  <2>4. CASE r # p
    BY <1>5, <1>7, <2>1, <2>2, <2>4 DEF AcceptanceIsInformed, Trading
  <2> QED BY <2>3, <2>4
<1>10. HeldOnce'
  BY HeldKept DEF Accepted
<1> QED BY <1>6, <1>8, <1>9, <1>10

LEMMA AcceptBlockedHolds ==
    ASSUME IInv, NEW p \in Players, AcceptBlocked(p)
    PROVE  IInv'
<1>1. Trading(p)
  BY DEF AcceptBlocked
<1>2. Partner(p) \in Players /\ Trading(Partner(p))
  BY <1>1, TradeFacts DEF IInv, PartnersAreMutual
<1>3. trade[Partner(p)].accepted \in BOOLEAN
  BY <1>2, TradeFacts DEF IInv
<1>4. \/ Accepted(p, FALSE, trade[Partner(p)].accepted)
      \/ Accepted(p, TRUE, FALSE)
      \/ Accepted(p, TRUE, trade[Partner(p)].accepted)
  BY DEF AcceptBlocked
<1> QED BY <1>1, <1>3, <1>4, AcceptedHolds

----------------------------------------------------------------------------
(* Windows that open and close                                                *)

LEMMA InitiateHolds ==
    ASSUME IInv, NEW p \in Players, NEW q \in Players, Initiate(p, q)
    PROVE  IInv'
<1> USE DEF IInv
<1>1. /\ trade'[p] = [with |-> q, accepted |-> FALSE, offer |-> NoOffer]
      /\ trade'[q] = [with |-> p, accepted |-> FALSE, offer |-> NoOffer]
      /\ \A r \in Players : r # p /\ r # q => trade'[r] = trade[r]
      /\ trade' = [r \in Players |-> trade'[r]]
      /\ p # q
  BY DEF Initiate, TypeOK
<1>2. trade'[p] \in TradeData /\ trade'[q] \in TradeData
  BY <1>1, Absent DEF TradeData
<1>3. TypeOK'
  <2>1. \A r \in Players : trade'[r] \in TradeData \cup {None}
    BY <1>1, <1>2 DEF TypeOK
  <2> QED BY <1>1, <2>1, ForgetKeepsType DEF TypeOK, Initiate
<1>4. PartnersAreMutual'
  <2> SUFFICES ASSUME NEW r \in Players, trade'[r] # None
               PROVE  LET u == trade'[r].with IN
                      u # r /\ trade'[u] # None /\ trade'[u].with = r
                      /\ {r, u} \subseteq online'
    BY DEF PartnersAreMutual, Trading, Partner
  <2>1. CASE r = p \/ r = q
    BY <1>1, <1>2, <2>1, Absent DEF Initiate
  <2>2. CASE r # p /\ r # q
    <3>1. /\ trade'[r] = trade[r] /\ Trading(r)
          /\ Partner(r) \in Players /\ Trading(Partner(r)) /\ Partner(r) # r
          /\ Partner(Partner(r)) = r /\ {r, Partner(r)} \subseteq online
      BY <1>1, <2>2, TradeFacts DEF Trading, PartnersAreMutual
    <3>2. Partner(r) # p /\ Partner(r) # q
      BY <3>1 DEF Initiate
    <3> QED BY <1>1, <3>1, <3>2 DEF Initiate, Partner, Trading
  <2> QED BY <2>1, <2>2
<1>5. AcceptanceIsInformed'
  <2> SUFFICES ASSUME NEW r \in Players, trade'[r] # None, trade'[r].accepted
               PROVE  seen'[r] = trade'[trade'[r].with].offer
    BY DEF AcceptanceIsInformed, Trading, OfferOf, Partner
  <2>1. r # p /\ r # q
    BY <1>1
  <2>2. /\ trade'[r] = trade[r] /\ Trading(r)
        /\ Partner(r) \in Players /\ Trading(Partner(r))
    BY <1>1, <2>1, TradeFacts DEF Trading, PartnersAreMutual
  <2>3. Partner(r) # p /\ Partner(r) # q
    BY <2>2 DEF Initiate
  <2>4. seen'[r] = seen[r]
    BY ForgetKeepsType DEF Initiate
  <2> QED BY <1>1, <2>2, <2>3, <2>4 DEF Partner, OfferOf, AcceptanceIsInformed
<1>6. HeldOnce'
  BY HeldKept DEF Initiate
<1> QED BY <1>3, <1>4, <1>5, <1>6

(* Both windows of a trade are deleted, and p may leave the world.            *)
LEMMA WindowsEnd ==
    ASSUME TypeOK, PartnersAreMutual, AcceptanceIsInformed,
           NEW p \in Players, Trading(p),
           trade' = [trade EXCEPT ![p] = None, ![Partner(p)] = None],
           Forget, online' = online \/ online' = online \ {p}
    PROVE  /\ trade' \in [Players -> TradeData \cup {None}]
           /\ seen' \in [Players -> Offer]
           /\ PartnersAreMutual' /\ AcceptanceIsInformed'
<1> DEFINE q == Partner(p)
<1>1. q \in Players /\ q # p /\ Trading(q) /\ Partner(q) = p
  BY TradeFacts DEF PartnersAreMutual
<1>2. /\ trade'[p] = None /\ trade'[q] = None
      /\ \A r \in Players : r # p /\ r # q => trade'[r] = trade[r]
      /\ trade' = [r \in Players |-> trade'[r]]
  BY <1>1 DEF TypeOK
<1>3. \A r \in Players : trade'[r] \in TradeData \cup {None}
  BY <1>2 DEF TypeOK
<1> HIDE DEF q
<1>4. ASSUME NEW r \in Players, trade'[r] # None
      PROVE  /\ trade'[r] = trade[r] /\ Trading(r) /\ r # p
             /\ Partner(r) \in Players /\ Partner(r) # p
             /\ trade'[Partner(r)] = trade[Partner(r)]
  <2>1. trade'[r] = trade[r] /\ Trading(r) /\ r # p /\ r # q
    BY <1>2, <1>4 DEF Trading
  <2>2. Partner(r) \in Players /\ Partner(Partner(r)) = r
    BY <2>1, TradeFacts DEF PartnersAreMutual
  <2>3. Partner(r) # p /\ Partner(r) # q
    BY <1>1, <2>1, <2>2 DEF q
  <2> QED BY <1>2, <2>1, <2>2, <2>3
<1>5. PartnersAreMutual'
  <2> SUFFICES ASSUME NEW r \in Players, trade'[r] # None
               PROVE  LET u == trade'[r].with IN
                      u # r /\ trade'[u] # None /\ trade'[u].with = r
                      /\ {r, u} \subseteq online'
    BY DEF PartnersAreMutual, Trading, Partner
  <2>1. /\ Partner(r) # r /\ Trading(Partner(r)) /\ Partner(Partner(r)) = r
        /\ {r, Partner(r)} \subseteq online
    BY <1>4 DEF PartnersAreMutual
  <2> QED BY <1>4, <2>1 DEF Partner, Trading
<1>6. AcceptanceIsInformed'
  <2> SUFFICES ASSUME NEW r \in Players, trade'[r] # None, trade'[r].accepted
               PROVE  seen'[r] = trade'[trade'[r].with].offer
    BY DEF AcceptanceIsInformed, Trading, OfferOf, Partner
  <2>1. seen'[r] = seen[r]
    BY ForgetKeepsType
  <2> QED BY <1>4, <2>1 DEF AcceptanceIsInformed, OfferOf, Partner
<1> QED BY <1>2, <1>3, <1>5, <1>6, ForgetKeepsType

LEMMA TradeCancelHolds ==
    ASSUME IInv, NEW p \in Players, TradeCancel(p)
    PROVE  IInv'
<1> USE DEF IInv, TradeCancel, Cancelled
<1>1. TypeOK' /\ PartnersAreMutual' /\ AcceptanceIsInformed'
  BY WindowsEnd DEF TypeOK
<1>2. HeldOnce'
  BY HeldKept
<1> QED BY <1>1, <1>2

----------------------------------------------------------------------------
(* Bags and the database                                                      *)

(* Nothing that trades know of changes.                                       *)
LEMMA TradesKept ==
    ASSUME PartnersAreMutual, AcceptanceIsInformed,
           UNCHANGED <<trade, seen>>, online \subseteq online'
    PROVE  PartnersAreMutual' /\ AcceptanceIsInformed'
BY DEF PartnersAreMutual, AcceptanceIsInformed, Trading, Partner, OfferOf

LEMMA GameHolds ==
    ASSUME IInv,
           \/ \E p \in Players : Spend(p) \/ \E i \in Items : LoseItem(p, i)
           \/ \E i \in Items : BindItem(i)
    PROVE  IInv'
<1> USE DEF IInv
<1>1. /\ UNCHANGED <<trade, seen, online, writes, saved>>
      /\ \A r \in Players : bag'[r] \subseteq bag[r]
      /\ bag' \in [Players -> SUBSET Items] /\ bound' \subseteq Items
      /\ money' \in [Players -> 0..MaxMoney]
  <2>1. CASE \E p \in Players : Spend(p)
    BY <2>1, Absent DEF Spend, TypeOK
  <2>2. CASE \E p \in Players, i \in Items : LoseItem(p, i)
    BY <2>2 DEF LoseItem, TypeOK
  <2>3. CASE \E i \in Items : BindItem(i)
    BY <2>3 DEF BindItem, TypeOK
  <2> QED BY <2>1, <2>2, <2>3
<1>2. TypeOK'
  BY <1>1 DEF TypeOK
<1>3. PartnersAreMutual' /\ AcceptanceIsInformed'
  BY <1>1, TradesKept
<1>4. HeldOnce'
  <2>1. writes' = writes /\ \A k, p, v : Recorded(k, p, v)' <=> Recorded(k, p, v)
    BY <1>1 DEF Recorded
  <2>2. BagsHold'
    BY <1>1 DEF HeldOnce, BagsHold
  <2>3. BagsRecorded'
    BY <1>1, <2>1 DEF HeldOnce, BagsRecorded
  <2>4. RecordsHold'
    BY <2>1 DEF HeldOnce, RecordsHold
  <2> QED BY <2>2, <2>3, <2>4 DEF HeldOnce
<1> QED BY <1>2, <1>3, <1>4

Snapshot(b, m, p) == [items |-> b[p], money |-> m[p]]
Bags == [Players -> SUBSET Items]
Purses == [Players -> 0..MaxMoney]

(* A transaction of the players of ps, who have the bags b and the gold m by  *)
(* then: the database will have the same of the others as before.             *)
LEMMA Written ==
    ASSUME TypeOK, NEW ps \in SUBSET Players, NEW b \in Bags, NEW m \in Purses,
           Write(ps, b, m), saved' = saved, NEW n \in Nat, n = Len(writes)
    PROVE  /\ writes' \in Seq([Players -> Saved \cup {None}])
           /\ Len(writes') = n + 1
           /\ \A k \in 0..Len(writes'), p \in Players, v \in Saved : Recorded(k, p, v)' =>
                 IF k \in 0..n THEN Recorded(k, p, v)
                 ELSE IF p \in ps THEN v = Snapshot(b, m, p) ELSE Recorded(n, p, v)
<1> DEFINE w == [p \in Players |-> IF p \in ps THEN Snapshot(b, m, p) ELSE None]
<1>1. n \in Nat
  OBVIOUS
<1>2. w \in [Players -> Saved \cup {None}]
  BY DEF Saved, Snapshot, Bags, Purses
<1>3. \A p \in Players : IF p \in ps THEN w[p] # None /\ w[p] = Snapshot(b, m, p)
                                     ELSE w[p] = None
  BY Absent DEF Saved, Snapshot, Bags, Purses
<1>4. writes' = Append(writes, w)
  BY DEF Write, Snapshot
<1> HIDE DEF w
<1>5. /\ writes' \in Seq([Players -> Saved \cup {None}])
      /\ Len(writes') = n + 1
      /\ \A i \in 1..n : writes'[i] = writes[i]
      /\ writes'[n + 1] = w
  BY <1>1, <1>2, <1>4, AppendProperties DEF TypeOK
<1>6. ASSUME NEW k \in 0..n, NEW p \in Players, NEW v \in Saved, Recorded(k, p, v)'
      PROVE  Recorded(k, p, v)
  <2>1. \A i \in 1..k : writes'[i] = writes[i]
    BY <1>5
  <2> QED BY <1>6, <2>1 DEF Recorded
<1>7. ASSUME NEW k \in Nat, k = n + 1, NEW p \in ps, NEW v \in Saved, Recorded(k, p, v)'
      PROVE  v = Snapshot(b, m, p)
  <2>1. /\ n + 1 \in 1..k /\ writes'[n + 1][p] # None /\ writes'[n + 1][p] = Snapshot(b, m, p)
    BY <1>3, <1>5, <1>7
  <2>2. PICK i \in 1..k : /\ writes'[i][p] = v
                          /\ \A j \in 1..k : j > i => writes'[j][p] = None
    BY <1>7, <2>1 DEF Recorded
  <2>3. i = n + 1
    BY <1>7, <2>1, <2>2
  <2> QED BY <2>1, <2>2, <2>3
<1>8. ASSUME NEW k \in Nat, k = n + 1, NEW p \in Players, p \notin ps, NEW v \in Saved,
             Recorded(k, p, v)'
      PROVE  Recorded(n, p, v)
  <2>1. \A i \in 1..n : i \in 1..k /\ writes'[i] = writes[i]
    BY <1>5, <1>8
  <2>2. CASE v = saved[p] /\ \A i \in 1..k : writes'[i][p] = None
    BY <2>1, <2>2 DEF Recorded
  <2>3. CASE \E i \in 1..k : /\ writes'[i][p] = v
                             /\ \A j \in 1..k : j > i => writes'[j][p] = None
    <3>1. PICK i \in 1..k : /\ writes'[i][p] = v
                            /\ \A j \in 1..k : j > i => writes'[j][p] = None
      BY <2>3
    <3>2. i # n + 1
      BY <1>3, <1>5, <1>8, <3>1, Absent
    <3>3. i \in 1..n
      BY <1>8, <3>2
    <3> QED BY <2>1, <3>1, <3>3 DEF Recorded
  <2> QED BY <1>8, <2>2, <2>3 DEF Recorded
<1> QED BY <1>1, <1>5, <1>6, <1>7, <1>8

LEMMA WriteHolds ==
    ASSUME TypeOK, HeldOnce, NEW ps \in SUBSET Players,
           NEW b \in Bags, NEW m \in Purses,
           Write(ps, b, m), bag' = b, saved' = saved,
           \A p, q \in Players : p # q => b[p] \cap b[q] = {},
           \A p, q \in Players, v \in Saved :
               p # q /\ q \notin ps /\ Recorded(Len(writes), q, v) => b[p] \cap v.items = {}
    PROVE  HeldOnce' /\ writes' \in Seq([Players -> Saved \cup {None}])
<1>1. PICK n \in Nat : n = Len(writes)
  BY DEF TypeOK
<1>2. PICK l \in Nat : l = n + 1
  OBVIOUS
<1>3. writes' \in Seq([Players -> Saved \cup {None}]) /\ Len(writes') = n + 1
  BY <1>1, Written
<1>4. ASSUME NEW k \in 0..Len(writes'), NEW p \in Players, NEW v \in Saved, Recorded(k, p, v)'
      PROVE  IF k \in 0..n THEN Recorded(k, p, v)
             ELSE IF p \in ps THEN v = Snapshot(b, m, p) ELSE Recorded(n, p, v)
  BY <1>1, <1>4, Written
<1>5. /\ writes' \in Seq([Players -> Saved \cup {None}]) /\ Len(writes') = n + 1
      /\ \A k \in 0..Len(writes'), p \in Players, v \in Saved : Recorded(k, p, v)' =>
            IF k \in 0..n THEN Recorded(k, p, v)
            ELSE IF p \in ps THEN v = Snapshot(b, m, p) ELSE Recorded(n, p, v)
  BY <1>3, <1>4
<1>6. \A p : Snapshot(b, m, p).items = b[p]
  BY DEF Snapshot
<1>9. BagsHold'
  BY DEF BagsHold
<1>10. BagsRecorded'
  <2> SUFFICES ASSUME NEW p \in Players, NEW q \in Players, NEW v \in Saved,
                      p # q, Recorded(l, q, v)'
               PROVE  b[p] \cap v.items = {}
    BY <1>2, <1>5 DEF BagsRecorded
  <2>1. CASE q \in ps
    BY <1>2, <1>5, <1>6, <2>1
  <2>2. CASE q \notin ps
    BY <1>1, <1>2, <1>5, <2>2
  <2> QED BY <2>1, <2>2
<1>11. RecordsHold'
  <2> SUFFICES ASSUME NEW k \in 0..l, NEW p \in Players, NEW q \in Players,
                      NEW u \in Saved, NEW v \in Saved,
                      p # q, Recorded(k, p, u)', Recorded(k, q, v)'
               PROVE  u.items \cap v.items = {}
    BY <1>2, <1>5 DEF RecordsHold
  <2>1. CASE k \in 0..n
    BY <1>1, <1>2, <1>5, <2>1 DEF HeldOnce, RecordsHold
  <2>2. CASE k = l
    <3>1. CASE p \in ps /\ q \in ps
      BY <1>2, <1>5, <1>6, <2>2, <3>1
    <3>2. CASE p \in ps /\ q \notin ps
      BY <1>1, <1>2, <1>5, <1>6, <2>2, <3>2
    <3>3. CASE p \notin ps /\ q \in ps
      BY <1>1, <1>2, <1>5, <1>6, <2>2, <3>3
    <3>4. CASE p \notin ps /\ q \notin ps
      <4>1. n \in 0..Len(writes) /\ Recorded(n, p, u) /\ Recorded(n, q, v)
        BY <1>1, <1>2, <1>5, <2>2, <3>4
      <4> QED BY <4>1 DEF HeldOnce, RecordsHold
    <3> QED BY <3>1, <3>2, <3>3, <3>4
  <2> QED BY <1>2, <1>5, <2>1, <2>2
<1> QED BY <1>2, <1>5, <1>9, <1>10, <1>11 DEF HeldOnce

LEMMA SaveHolds ==
    ASSUME IInv, NEW p \in Players, Write({p}, bag, money), UNCHANGED <<bag, saved>>
    PROVE  HeldOnce' /\ writes' \in Seq([Players -> Saved \cup {None}])
<1>1. /\ TypeOK /\ HeldOnce /\ {p} \in SUBSET Players
      /\ bag \in Bags /\ money \in Purses
  BY DEF IInv, TypeOK, Bags, Purses
<1>2. \A r, q \in Players : r # q => bag[r] \cap bag[q] = {}
  BY <1>1 DEF HeldOnce, BagsHold
<1>3. \A r, q \in Players, v \in Saved :
         r # q /\ q \notin {p} /\ Recorded(Len(writes), q, v) => bag[r] \cap v.items = {}
  BY <1>1 DEF HeldOnce, BagsRecorded
<1> QED BY <1>1, <1>2, <1>3, WriteHolds

LEMMA SavePlayerHolds ==
    ASSUME IInv, NEW p \in Players, SavePlayer(p)
    PROVE  IInv'
<1> USE DEF IInv, SavePlayer
<1>1. HeldOnce' /\ writes' \in Seq([Players -> Saved \cup {None}])
  BY SaveHolds
<1>2. TypeOK'
  BY <1>1 DEF TypeOK
<1>3. PartnersAreMutual' /\ AcceptanceIsInformed'
  BY TradesKept
<1> QED BY <1>1, <1>2, <1>3

LEMMA LogoutHolds ==
    ASSUME IInv, NEW p \in Players, Logout(p)
    PROVE  IInv'
<1> USE DEF IInv, Logout
<1>1. HeldOnce' /\ writes' \in Seq([Players -> Saved \cup {None}])
  BY SaveHolds
<1>2. CASE Trading(p)
  <2>1. /\ trade' \in [Players -> TradeData \cup {None}] /\ seen' \in [Players -> Offer]
        /\ PartnersAreMutual' /\ AcceptanceIsInformed'
    BY <1>2, WindowsEnd DEF Cancelled
  <2>2. TypeOK'
    BY <1>1, <2>1 DEF TypeOK
  <2> QED BY <1>1, <2>1, <2>2
<1>3. CASE ~Trading(p)
  <2>1. trade' = trade
    BY <1>3 DEF Cancelled
  <2>2. TypeOK'
    BY <1>1, <2>1, ForgetKeepsType DEF TypeOK
  <2>3. PartnersAreMutual'
    <3> SUFFICES ASSUME NEW r \in Players, Trading(r)
                 PROVE  /\ Partner(r) # r /\ Trading(Partner(r)) /\ Partner(Partner(r)) = r
                        /\ {r, Partner(r)} \subseteq online'
      BY <2>1 DEF PartnersAreMutual, Trading, Partner
    <3>1. /\ Partner(r) # r /\ Trading(Partner(r)) /\ Partner(Partner(r)) = r
          /\ {r, Partner(r)} \subseteq online
      BY DEF PartnersAreMutual
    <3>2. r # p /\ Partner(r) # p
      BY <1>3, <3>1
    <3> QED BY <3>1, <3>2
  <2>4. AcceptanceIsInformed'
    BY <2>1, ForgetKeepsType DEF AcceptanceIsInformed, Trading, Partner, OfferOf
  <2> QED BY <1>1, <2>2, <2>3, <2>4
<1> QED BY <1>2, <1>3

LEMMA LoginHolds ==
    ASSUME IInv, NEW p \in Players, Login(p)
    PROVE  IInv'
<1> USE DEF IInv, Login
<1>1. /\ bag'[p] = saved[p].items /\ saved[p] \in Saved
      /\ \A r \in Players : r # p => bag'[r] = bag[r]
  BY DEF TypeOK
<1>2. Recorded(Len(writes), p, saved[p])
  BY DEF Recorded, TypeOK
<1>3. TypeOK'
  BY <1>1 DEF TypeOK, Saved
<1>4. PartnersAreMutual' /\ AcceptanceIsInformed'
  BY TradesKept
<1>5. BagsHold'
  BY <1>1, <1>2 DEF HeldOnce, BagsHold, BagsRecorded
<1>6. \A k \in 0..Len(writes), r \in Players, v \in Saved :
         Recorded(k, r, v)' <=> Recorded(k, r, v)
  BY DEF Recorded
<1>7. Len(writes) \in 0..Len(writes) /\ Len(writes') = Len(writes)
  BY DEF TypeOK
<1>8. BagsRecorded'
  BY <1>1, <1>2, <1>6, <1>7 DEF HeldOnce, BagsRecorded, RecordsHold
<1>9. RecordsHold'
  BY <1>6, <1>7 DEF HeldOnce, RecordsHold
<1> QED BY <1>3, <1>4, <1>5, <1>8, <1>9 DEF HeldOnce

(* The database has after k more transactions what it was to have after k + 1.*)
LEMMA Committed ==
    ASSUME TypeOK, Commit
    PROVE  /\ writes' \in Seq([Players -> Saved \cup {None}])
           /\ saved' \in [Players -> Saved]
           /\ Len(writes') \in Nat /\ Len(writes) = Len(writes') + 1
           /\ \A k \in 0..Len(writes'), p \in Players, v \in Saved :
                 Recorded(k, p, v)' => Recorded(k + 1, p, v)
<1> USE DEF Commit
<1>1. PICK n \in Nat : n + 1 = Len(writes)
  <2>1. writes \in Seq([Players -> Saved \cup {None}]) /\ writes # <<>>
    BY DEF TypeOK
  <2>2. PICK l \in Nat : l = Len(writes)
    BY <2>1
  <2>3. l # 0
    BY <2>1, <2>2, EmptySeq
  <2>4. l - 1 \in Nat /\ (l - 1) + 1 = l
    BY <2>2, <2>3
  <2> QED BY <2>2, <2>4
<1>2. /\ writes' \in Seq([Players -> Saved \cup {None}]) /\ Len(writes') = n
      /\ \A i \in 1..n : writes'[i] = writes[i + 1]
      /\ Head(writes) = writes[1] /\ writes[1] \in [Players -> Saved \cup {None}]
  <2>1. writes \in Seq([Players -> Saved \cup {None}]) /\ writes # <<>>
    BY DEF TypeOK
  <2>2. /\ Tail(writes) \in Seq([Players -> Saved \cup {None}])
        /\ Len(Tail(writes)) = n
        /\ \A i \in 1..Len(Tail(writes)) : Tail(writes)[i] = writes[i + 1]
    BY <1>1, <2>1, HeadTailProperties
  <2>3. Head(writes) = writes[1] /\ writes[1] \in [Players -> Saved \cup {None}]
    BY <1>1, <2>1
  <2> QED BY <2>2, <2>3
<1>3. \A p \in Players : saved'[p] = IF writes[1][p] = None THEN saved[p] ELSE writes[1][p]
  BY <1>2
<1>4. saved' \in [Players -> Saved]
  BY <1>2 DEF TypeOK
<1>6. ASSUME NEW k \in 0..n, NEW p \in Players, NEW v \in Saved, Recorded(k, p, v)'
      PROVE  Recorded(k + 1, p, v)
  <2> HIDE DEF Commit
  <2>1. \A i \in 1..k : writes'[i] = writes[i + 1]
    BY <1>2
  <2>2. ASSUME NEW j \in 1..(k + 1), j # 1
        PROVE  \E i \in 1..k : j = i + 1
    <3>1. j - 1 \in 1..k /\ j = (j - 1) + 1
      BY <2>2
    <3> QED BY <3>1
  <2>3. CASE v = saved'[p] /\ \A i \in 1..k : writes'[i][p] = None
    <3>1. \A j \in 1..(k + 1) : j # 1 => writes[j][p] = None
      BY <2>1, <2>2, <2>3
    <3>2. CASE writes[1][p] = None
      <4>1. v = saved[p] /\ \A j \in 1..(k + 1) : writes[j][p] = None
        BY <1>3, <2>3, <3>1, <3>2
      <4> QED BY <4>1 DEF Recorded
    <3>3. CASE writes[1][p] # None
      <4>1. writes[1][p] = v /\ 1 \in 1..(k + 1)
        BY <1>3, <2>3, <3>3
      <4>2. \A j \in 1..(k + 1) : j > 1 => writes[j][p] = None
        BY <3>1
      <4> QED BY <4>1, <4>2 DEF Recorded
    <3> QED BY <3>2, <3>3
  <2>4. CASE \E i \in 1..k : writes'[i][p] = v /\ \A j \in 1..k : j > i => writes'[j][p] = None
    <3>1. PICK i \in 1..k : writes'[i][p] = v /\ \A j \in 1..k : j > i => writes'[j][p] = None
      BY <2>4
    <3>2. i + 1 \in 1..(k + 1) /\ writes[i + 1][p] = v
      BY <2>1, <3>1
    <3>3. ASSUME NEW j \in 1..(k + 1), j > i + 1
          PROVE  writes[j][p] = None
      <4>1. PICK h \in 1..k : j = h + 1
        BY <2>2, <3>3
      <4>2. h > i
        BY <3>3, <4>1
      <4> QED BY <2>1, <3>1, <4>1, <4>2
    <3> QED BY <3>2, <3>3 DEF Recorded
  <2> QED BY <1>6, <2>3, <2>4 DEF Recorded
<1> QED BY <1>1, <1>2, <1>4, <1>6

LEMMA CommitHolds ==
    ASSUME IInv, Commit
    PROVE  IInv'
<1> USE DEF IInv, Commit
<1>1. PICK n \in Nat : n + 1 = Len(writes) /\ n = Len(writes')
  BY Committed
<1>4. TypeOK'
  BY Committed DEF TypeOK
<1>5. PartnersAreMutual' /\ AcceptanceIsInformed'
  BY TradesKept
<1>6. \A k \in 0..n, p \in Players, v \in Saved : Recorded(k, p, v)' => Recorded(k + 1, p, v)
  BY <1>1, Committed
<1>7. BagsHold' /\ BagsRecorded'
  <2>1. BagsHold'
    BY DEF HeldOnce, BagsHold
  <2>2. BagsRecorded'
    <3> SUFFICES ASSUME NEW p \in Players, NEW q \in Players, NEW v \in Saved,
                        p # q, Recorded(n, q, v)'
                 PROVE  bag[p] \cap v.items = {}
      BY <1>1 DEF BagsRecorded
    <3>1. n \in 0..n
      OBVIOUS
    <3>2. Recorded(Len(writes), q, v)
      BY <1>1, <1>6, <3>1
    <3> QED BY <3>2 DEF HeldOnce, BagsRecorded
  <2> QED BY <2>1, <2>2
<1>8. RecordsHold'
  <2> SUFFICES ASSUME NEW k \in 0..n, NEW p \in Players, NEW q \in Players,
                      NEW u \in Saved, NEW v \in Saved,
                      p # q, Recorded(k, p, u)', Recorded(k, q, v)'
               PROVE  u.items \cap v.items = {}
    BY <1>1 DEF RecordsHold
  <2>1. k + 1 \in 0..Len(writes)
    BY <1>1
  <2> QED BY <1>6, <2>1 DEF HeldOnce, RecordsHold
<1> QED BY <1>4, <1>5, <1>7, <1>8 DEF HeldOnce

LEMMA CrashHolds ==
    ASSUME IInv, Crash
    PROVE  IInv'
<1> USE DEF IInv, Crash
<1>1. TypeOK'
  <2>1. bag' \in [Players -> SUBSET Items] /\ money' \in [Players -> 0..MaxMoney]
    BY DEF TypeOK, Saved
  <2>2. writes' \in Seq([Players -> Saved \cup {None}])
    OBVIOUS
  <2>3. seen' \in [Players -> Offer]
    BY ForgetKeepsType
  <2> QED BY <2>1, <2>2, <2>3 DEF TypeOK
<1>2. PartnersAreMutual' /\ AcceptanceIsInformed'
  BY DEF PartnersAreMutual, AcceptanceIsInformed, Trading
<1>3. Len(writes') = 0 /\ 0 \in 0..Len(writes)
  BY DEF TypeOK
<1>4. \A p \in Players, v \in Saved : Recorded(0, p, v)' => v = saved[p]
  BY DEF Recorded
<1>5. \A p \in Players : saved[p] \in Saved /\ Recorded(0, p, saved[p])
  BY DEF Recorded, TypeOK
<1>6. \A p, q \in Players : p # q => saved[p].items \cap saved[q].items = {}
  BY <1>3, <1>5 DEF HeldOnce, RecordsHold
<1>7. BagsHold' /\ BagsRecorded'
  BY <1>3, <1>4, <1>6 DEF BagsHold, BagsRecorded
<1>8. RecordsHold'
  BY <1>3, <1>4, <1>6 DEF RecordsHold
<1> QED BY <1>1, <1>2, <1>7, <1>8 DEF HeldOnce

----------------------------------------------------------------------------
(* A trade that is completed                                                  *)

(* What GetItem finds is in the bags, whatever was offered.                   *)
LEMMA GivenIsHeld == \A p : GivenBy(p) \subseteq bag[p]
BY DEF GivenBy, ItemIn

LEMMA Exchanged ==
    ASSUME IInv, NEW p \in Players, AcceptBoth(p), NEW q, q = Partner(p)
    PROVE  /\ q \in Players /\ q # p /\ Trading(p) /\ Trading(q) /\ Partner(q) = p
           /\ bag'[p] = (bag[p] \ GivenBy(p)) \cup GivenBy(q)
           /\ bag'[q] = (bag[q] \ GivenBy(q)) \cup GivenBy(p)
           /\ \A r \in Players : r # p /\ r # q => bag'[r] = bag[r]
           /\ bag' \in [Players -> SUBSET Items]
           /\ money' \in [Players -> 0..MaxMoney]
           /\ money'[p] + money'[q] = money[p] + money[q]
<1> USE DEF IInv
<1>1. Trading(p)
  BY DEF AcceptBoth
<1>2. q \in Players /\ q # p /\ Trading(q) /\ Partner(q) = p
  BY <1>1, TradeFacts DEF PartnersAreMutual
<1>3. /\ bag' = [bag EXCEPT ![p] = (bag[p] \ GivenBy(p)) \cup GivenBy(q),
                            ![q] = (bag[q] \ GivenBy(q)) \cup GivenBy(p)]
      /\ money' = [money EXCEPT ![p] = Modified(p), ![q] = Modified(q)]
  BY <1>2 DEF AcceptBoth, TypeOK
<1>4. bag \in [Players -> SUBSET Items] /\ GivenBy(p) \subseteq Items /\ GivenBy(q) \subseteq Items
  BY <1>2, GivenIsHeld DEF TypeOK
<1>5. /\ bag'[p] = (bag[p] \ GivenBy(p)) \cup GivenBy(q)
      /\ bag'[q] = (bag[q] \ GivenBy(q)) \cup GivenBy(p)
      /\ \A r \in Players : r # p /\ r # q => bag'[r] = bag[r]
      /\ bag' \in [Players -> SUBSET Items]
  BY <1>2, <1>3, <1>4
<1>6. PICK a \in 0..MaxMoney, b \in 0..MaxMoney :
         a = OfferOf(p).gold /\ b = OfferOf(q).gold
  BY <1>1, <1>2, TradeFacts DEF Offer
<1>7. PICK x \in 0..MaxMoney, y \in 0..MaxMoney : x = money[p] /\ y = money[q]
  BY <1>2 DEF TypeOK
<1>8. Modified(p) = x - a + b /\ Modified(q) = y - b + a
  BY <1>2, <1>6, <1>7 DEF Modified
<1>9. a <= x /\ b <= y /\ x < MaxMoney - b /\ y < MaxMoney - a
  <2>1. ~CannotPay(p) /\ ~CannotPay(q) /\ ~TooMuchGold(p) /\ ~TooMuchGold(q)
    BY DEF AcceptBoth, Blocked
  <2> QED BY <1>2, <1>6, <1>7, <2>1, Absent DEF CannotPay, TooMuchGold
<1>10. /\ Modified(p) \in 0..MaxMoney /\ Modified(q) \in 0..MaxMoney
       /\ Modified(p) + Modified(q) = x + y
  BY <1>6, <1>7, <1>8, <1>9, Absent
<1>11. money'[p] = Modified(p) /\ money'[q] = Modified(q) /\ money' \in [Players -> 0..MaxMoney]
  BY <1>2, <1>3, <1>10 DEF TypeOK
<1> QED BY <1>1, <1>2, <1>5, <1>7, <1>10, <1>11

(* The two bags are disjoint before and after, and together what they were.   *)
LEMMA Swapped ==
    ASSUME NEW A, NEW B, NEW G \in SUBSET A, NEW H \in SUBSET B, A \cap B = {}
    PROVE  /\ ((A \ G) \cup H) \cap ((B \ H) \cup G) = {}
           /\ ((A \ G) \cup H) \cup ((B \ H) \cup G) = A \cup B
OBVIOUS

LEMMA AcceptBothHolds ==
    ASSUME IInv, NEW p \in Players, AcceptBoth(p)
    PROVE  IInv'
<1> USE DEF IInv
<1>0. PICK q : q = Partner(p)
  OBVIOUS
<1>1. /\ q \in Players /\ q # p /\ Trading(p)
      /\ bag'[p] = (bag[p] \ GivenBy(p)) \cup GivenBy(q)
      /\ bag'[q] = (bag[q] \ GivenBy(q)) \cup GivenBy(p)
      /\ \A r \in Players : r # p /\ r # q => bag'[r] = bag[r]
      /\ bag' \in [Players -> SUBSET Items] /\ money' \in [Players -> 0..MaxMoney]
  BY <1>0, Exchanged
<1>2. bag'[p] \cap bag'[q] = {} /\ bag'[p] \cup bag'[q] = bag[p] \cup bag[q]
  <2>1. bag[p] \cap bag[q] = {}
    BY <1>1 DEF HeldOnce, BagsHold
  <2> QED BY <1>1, <2>1, GivenIsHeld, Swapped
<1>3. \A r, t \in Players : r # t => bag'[r] \cap bag'[t] = {}
  <2>1. \A r, t \in Players : r # t => bag[r] \cap bag[t] = {}
    BY DEF HeldOnce, BagsHold
  <2>2. ASSUME NEW t \in Players, t # p, t # q
        PROVE  bag'[p] \cap bag'[t] = {} /\ bag'[q] \cap bag'[t] = {}
    BY <1>1, <1>2, <2>1, <2>2
  <2> QED BY <1>1, <1>2, <2>1, <2>2
<1>4. \A r, t \in Players, v \in Saved :
         r # t /\ t \notin {p, q} /\ Recorded(Len(writes), t, v) => bag'[r] \cap v.items = {}
  <2> TAKE r, t \in Players, v \in Saved
  <2> HAVE r # t /\ t \notin {p, q} /\ Recorded(Len(writes), t, v)
  <2>1. \A u \in Players : u # t => bag[u] \cap v.items = {}
    BY DEF HeldOnce, BagsRecorded
  <2>2. (bag[p] \cup bag[q]) \cap v.items = {}
    BY <1>1, <2>1
  <2>3. CASE r \in {p, q}
    BY <1>2, <2>2, <2>3
  <2>4. CASE r \notin {p, q}
    BY <1>1, <2>1, <2>4
  <2> QED BY <2>3, <2>4
<1>5. HeldOnce' /\ writes' \in Seq([Players -> Saved \cup {None}])
  <2>1. /\ Write({p, q}, bag', money') /\ saved' = saved /\ {p, q} \in SUBSET Players
        /\ bag' \in Bags /\ money' \in Purses
    BY <1>0, <1>1 DEF AcceptBoth, Bags, Purses
  <2> QED BY <1>1, <1>3, <1>4, <2>1, WriteHolds
<1>6. /\ trade' \in [Players -> TradeData \cup {None}] /\ seen' \in [Players -> Offer]
      /\ PartnersAreMutual' /\ AcceptanceIsInformed'
  BY <1>1, WindowsEnd DEF AcceptBoth
<1>7. TypeOK'
  BY <1>1, <1>5, <1>6 DEF AcceptBoth, TypeOK
<1> QED BY <1>5, <1>6, <1>7

(* CanStoreItems: what a player keeps and what he is given fits.              *)
LEMMA FitsAfterwards ==
    ASSUME TypeOK, NEW p \in Players, NEW q \in Players, q = Partner(p), Fits(p)
    PROVE  Cardinality((bag[p] \ GivenBy(p)) \cup GivenBy(q)) <= Room[p]
<1> DEFINE K == bag[p] \ GivenBy(p)
           G == GivenBy(q)
<1>1. IsFiniteSet(K) /\ IsFiniteSet(G)
  <2>1. K \in SUBSET Items /\ G \in SUBSET Items
    BY GivenIsHeld DEF TypeOK
  <2> HIDE DEF K, G
  <2> QED BY <2>1, Absent, FS_Subset
<1>2. Cardinality(K) + Cardinality(G) <= Room[p]
  BY DEF Fits
<1>3. Room[p] \in Nat
  BY TradeAssumption
<1> HIDE DEF K, G
<1>4. Cardinality(K \cup G) = Cardinality(K) + Cardinality(G) - Cardinality(K \cap G)
  BY <1>1, FS_Union
<1>5. IsFiniteSet(K \cap G)
  <2>1. K \cap G \in SUBSET K
    OBVIOUS
  <2> QED BY <1>1, <2>1, FS_Subset
<1>6. Cardinality(K) \in Nat /\ Cardinality(G) \in Nat /\ Cardinality(K \cap G) \in Nat
  BY <1>1, <1>5, FS_CardinalityType
<1>7. Cardinality(K \cup G) <= Room[p]
  BY <1>2, <1>3, <1>4, <1>6
<1> QED BY <1>7 DEF K, G

----------------------------------------------------------------------------
(* Sums of the gold of groups of players                                      *)

Groups == SUBSET Players
Chosen(s) == CHOOSE x \in s : TRUE
Rest(s) == s \ {Chosen(s)}

LEMMA RestFacts ==
    ASSUME IsFiniteSet(Players), NEW s \in Groups
    PROVE  /\ IsFiniteSet(s) /\ Cardinality(s) \in Nat
           /\ s = {} <=> Cardinality(s) = 0
           /\ s # {} => /\ Chosen(s) \in s /\ Chosen(s) \in Players /\ Rest(s) \in Groups
                        /\ Chosen(s) \notin Rest(s)
                        /\ s = Rest(s) \cup {Chosen(s)}
                        /\ Cardinality(Rest(s)) = Cardinality(s) - 1
<1>1. IsFiniteSet(s)
  BY FS_Subset DEF Groups
<1>2. Cardinality(s) \in Nat /\ (s = {} <=> Cardinality(s) = 0)
  BY <1>1, FS_CardinalityType, FS_EmptySet
<1>3. ASSUME s # {}
      PROVE  /\ Chosen(s) \in s /\ Chosen(s) \in Players /\ Rest(s) \in Groups
             /\ Chosen(s) \notin Rest(s)
             /\ s = Rest(s) \cup {Chosen(s)}
             /\ Cardinality(Rest(s)) = Cardinality(s) - 1
  <2>1. Chosen(s) \in s
    BY <1>3 DEF Chosen
  <2>2. Cardinality(s \ {Chosen(s)}) = Cardinality(s) - 1
    BY <1>1, <2>1, FS_RemoveElement
  <2> QED BY <2>1, <2>2 DEF Rest, Groups
<1> QED BY <1>1, <1>2, <1>3

(* What TotalUnfold chooses: a function that adds up the groups' gold.        *)
Adds(sum, m) ==
    sum = [s \in Groups |-> IF s = {} THEN 0 ELSE sum[Rest(s)] + m[Chosen(s)]]

LEMMA GroupInd ==
    ASSUME IsFiniteSet(Players), NEW T \in SUBSET Groups, {} \in T,
           \A s \in Groups : s # {} /\ Rest(s) \in T => s \in T
    PROVE  T = Groups
<1> DEFINE N == {n \in Nat : \A s \in Groups : Cardinality(s) = n => s \in T}
<1>1. 0 \in N
  <2>1. \A s \in Groups : Cardinality(s) = 0 => s = {}
    BY RestFacts
  <2>2. \A s \in Groups : Cardinality(s) = 0 => s \in T
    BY <2>1
  <2> QED BY <2>2
<1>2. ASSUME NEW n \in N PROVE n + 1 \in N
  <2> SUFFICES ASSUME NEW s \in Groups, Cardinality(s) = n + 1 PROVE s \in T
    OBVIOUS
  <2>1. s # {} /\ Cardinality(Rest(s)) = n /\ Rest(s) \in Groups
    BY RestFacts
  <2> QED BY <2>1
<1>3. N = Nat
  <2> HIDE DEF N
  <2> QED BY <1>1, <1>2, InductionOnSets DEF N
<1> QED BY <1>3, RestFacts

LEMMA SumExists ==
    ASSUME IsFiniteSet(Players), NEW m
    PROVE  \E sum : Adds(sum, m)
<1> DEFINE Upto(n) == {s \in Groups : Cardinality(s) <= n}
           Partly(sum, n) ==
               \A s \in Upto(n) : sum[s] = IF s = {} THEN 0 ELSE sum[Rest(s)] + m[Chosen(s)]
           N == {n \in Nat : \E sum : Partly(sum, n)}
<1>1. 0 \in N
  <2> DEFINE f == [s \in Upto(0) |-> 0]
  <2>1. \A s \in Upto(0) : s = {}
    BY RestFacts
  <2>2. Partly(f, 0)
    BY <2>1
  <2> QED BY <2>2
<1>2. ASSUME NEW n \in N PROVE n + 1 \in N
  <2>1. PICK f : Partly(f, n)
    OBVIOUS
  <2> DEFINE g == [s \in Upto(n + 1) |-> IF s = {} THEN 0 ELSE f[Rest(s)] + m[Chosen(s)]]
  <2>2. ASSUME NEW s \in Upto(n) PROVE g[s] = f[s]
    <3>1. s \in Upto(n + 1)
      BY RestFacts
    <3>2. f[s] = IF s = {} THEN 0 ELSE f[Rest(s)] + m[Chosen(s)]
      BY <2>1
    <3> QED BY <3>1, <3>2
  <2>3. ASSUME NEW s \in Upto(n + 1), s # {} PROVE Rest(s) \in Upto(n)
    BY <2>3, RestFacts
  <2>4. \A s \in Upto(n + 1) : g[s] = IF s = {} THEN 0 ELSE g[Rest(s)] + m[Chosen(s)]
    BY <2>2, <2>3
  <2>5. Partly(g, n + 1)
    BY <2>4
  <2> HIDE DEF g, Partly
  <2> QED BY <2>5
<1>3. N = Nat
  <2> HIDE DEF N
  <2> QED BY <1>1, <1>2, InductionOnSets DEF N
<1>4. Upto(Cardinality(Players)) = Groups /\ Cardinality(Players) \in Nat
  <2>1. \A s \in Groups : Cardinality(s) <= Cardinality(Players)
    BY FS_Subset DEF Groups
  <2>2. Players \in Groups
    BY DEF Groups
  <2> QED BY <2>1, <2>2, RestFacts
<1>5. PICK sum : Partly(sum, Cardinality(Players))
  BY <1>3, <1>4
<1> DEFINE f == [s \in Groups |-> sum[s]]
<1>6. \A s \in Groups : s # {} => Rest(s) \in Groups
  BY RestFacts
<1>7. Adds(f, m)
  BY <1>4, <1>5, <1>6 DEF Adds
<1> QED BY <1>7

GroupSum(m) == CHOOSE sum : Adds(sum, m)

LEMMA TotalUnfold ==
    ASSUME NEW m
    PROVE  Total(m) = GroupSum(m)[Players]
BY DEF Total, FoldSet, MapThenFoldSet, Chosen, GroupSum, Adds, Groups, Rest

LEMMA SumFacts ==
    ASSUME IsFiniteSet(Players), NEW m \in [Players -> Nat]
    PROVE  /\ GroupSum(m)[{}] = 0
           /\ \A s \in Groups : s # {} => GroupSum(m)[s] = GroupSum(m)[Rest(s)] + m[Chosen(s)]
           /\ \A s \in Groups : GroupSum(m)[s] \in Nat
<1>1. Adds(GroupSum(m), m)
  BY SumExists DEF GroupSum
<1>2. PICK f : f = GroupSum(m) /\ Adds(f, m)
  BY <1>1
<1>3. {} \in Groups
  BY DEF Groups
<1>4. \A s \in Groups : f[s] = IF s = {} THEN 0 ELSE f[Rest(s)] + m[Chosen(s)]
  BY <1>2 DEF Adds
<1> DEFINE T == {s \in Groups : f[s] \in Nat}
<1>5. {} \in T
  BY <1>3, <1>4
<1>6. \A s \in Groups : s # {} /\ Rest(s) \in T => s \in T
  BY <1>4, RestFacts
<1>7. T = Groups
  <2> HIDE DEF T
  <2> QED BY <1>5, <1>6, GroupInd DEF T
<1> QED BY <1>2, <1>3, <1>4, <1>7

(* Who has less each has less together.                                       *)
LEMMA TotalMonotone ==
    ASSUME IsFiniteSet(Players), NEW m \in [Players -> Nat], NEW h \in [Players -> Nat],
           \A p \in Players : m[p] <= h[p]
    PROVE  Total(m) <= Total(h)
<1> DEFINE T == {s \in Groups : GroupSum(m)[s] <= GroupSum(h)[s]}
<1>1. {} \in T
  BY SumFacts DEF Groups
<1>2. \A s \in Groups : s # {} /\ Rest(s) \in T => s \in T
  <2> SUFFICES ASSUME NEW s \in Groups, s # {}, Rest(s) \in T PROVE s \in T
    OBVIOUS
  <2>1. Chosen(s) \in Players /\ Rest(s) \in Groups
    BY RestFacts
  <2>2. /\ GroupSum(m)[s] = GroupSum(m)[Rest(s)] + m[Chosen(s)] /\ GroupSum(m)[Rest(s)] \in Nat
        /\ GroupSum(h)[s] = GroupSum(h)[Rest(s)] + h[Chosen(s)] /\ GroupSum(h)[Rest(s)] \in Nat
    BY <2>1, SumFacts
  <2>3. GroupSum(m)[Rest(s)] <= GroupSum(h)[Rest(s)] /\ m[Chosen(s)] <= h[Chosen(s)]
        /\ m[Chosen(s)] \in Nat /\ h[Chosen(s)] \in Nat
    BY <2>1
  <2> QED BY <2>2, <2>3
<1>3. T = Groups
  <2> HIDE DEF T
  <2> QED BY <1>1, <1>2, GroupInd DEF T
<1>4. Total(m) = GroupSum(m)[Players] /\ Total(h) = GroupSum(h)[Players]
  BY TotalUnfold
<1>5. Players \in T
  BY <1>3 DEF Groups
<1> QED BY <1>4, <1>5

(* Only p and q have other amounts: so much the total differs.                *)
LEMMA TotalTransfer ==
    ASSUME IsFiniteSet(Players), NEW m \in [Players -> Nat], NEW h \in [Players -> Nat],
           NEW p \in Players, NEW q \in Players, p # q,
           \A r \in Players \ {p, q} : m[r] = h[r]
    PROVE  Total(m) + h[p] + h[q] = Total(h) + m[p] + m[q]
<1> DEFINE Of(f, r, s) == IF r \in s THEN f[r] ELSE 0
           T == {s \in Groups : GroupSum(m)[s] + Of(h, p, s) + Of(h, q, s)
                              = GroupSum(h)[s] + Of(m, p, s) + Of(m, q, s)}
<1>1. {} \in T
  BY SumFacts DEF Groups
<1>2. \A s \in Groups : s # {} /\ Rest(s) \in T => s \in T
  <2> SUFFICES ASSUME NEW s \in Groups, s # {}, Rest(s) \in T PROVE s \in T
    OBVIOUS
  <2>1. /\ Chosen(s) \in Players /\ Rest(s) \in Groups /\ Chosen(s) \notin Rest(s)
        /\ s = Rest(s) \cup {Chosen(s)}
    BY RestFacts
  <2>2. /\ GroupSum(m)[s] = GroupSum(m)[Rest(s)] + m[Chosen(s)] /\ GroupSum(m)[Rest(s)] \in Nat
        /\ GroupSum(h)[s] = GroupSum(h)[Rest(s)] + h[Chosen(s)] /\ GroupSum(h)[Rest(s)] \in Nat
    BY <2>1, SumFacts
  <2>3. ASSUME NEW f \in [Players -> Nat], NEW r \in Players
        PROVE  /\ Of(f, r, s) = IF r = Chosen(s) THEN f[r] ELSE Of(f, r, Rest(s))
               /\ Of(f, r, Rest(s)) \in Nat
               /\ r = Chosen(s) => Of(f, r, Rest(s)) = 0
    BY <2>1
  <2>4. GroupSum(m)[Rest(s)] + Of(h, p, Rest(s)) + Of(h, q, Rest(s))
          = GroupSum(h)[Rest(s)] + Of(m, p, Rest(s)) + Of(m, q, Rest(s))
    OBVIOUS
  <2>5. Chosen(s) # p /\ Chosen(s) # q => m[Chosen(s)] = h[Chosen(s)]
    BY <2>1
  <2> HIDE DEF Of
  <2>6. m[p] \in Nat /\ m[q] \in Nat /\ h[p] \in Nat /\ h[q] \in Nat
        /\ m[Chosen(s)] \in Nat /\ h[Chosen(s)] \in Nat
    BY <2>1
  <2>7. GroupSum(m)[s] + Of(h, p, s) + Of(h, q, s) = GroupSum(h)[s] + Of(m, p, s) + Of(m, q, s)
    <3>1. CASE Chosen(s) = p
      BY <2>2, <2>3, <2>4, <2>6, <3>1
    <3>2. CASE Chosen(s) = q
      BY <2>2, <2>3, <2>4, <2>6, <3>2
    <3>3. CASE Chosen(s) # p /\ Chosen(s) # q
      BY <2>2, <2>3, <2>4, <2>5, <2>6, <3>3
    <3> QED BY <3>1, <3>2, <3>3
  <2> QED BY <2>7
<1>3. T = Groups
  <2> HIDE DEF T
  <2> QED BY <1>1, <1>2, GroupInd DEF T
<1>4. Total(m) = GroupSum(m)[Players] /\ Total(h) = GroupSum(h)[Players]
  BY TotalUnfold
<1>5. Players \in T
  BY <1>3 DEF Groups
<1> QED BY <1>4, <1>5

----------------------------------------------------------------------------
(* How much gold there is                                                     *)

Records == [Players -> Saved]
Gold(r) == [p \in Players |-> r[p].money]
HadBy(k, r) == \A p \in Players : Recorded(k, p, r[p])

(* Nobody has more than the database will give him back once it has all the   *)
(* transactions, and all together it has never more than at the beginning,    *)
(* however many of them it has.                                               *)
GoldCovered ==
    \A p \in Players, v \in Saved : Recorded(Len(writes), p, v) => money[p] <= v.money
GoldRecorded ==
    \A k \in 0..Len(writes) : \A r \in Records :
        HadBy(k, r) => Total(Gold(r)) <= Total(StartMoney)
GInv == GoldCovered /\ GoldRecorded

LEMMA GoldType ==
    /\ \A r \in Records : Gold(r) \in [Players -> Nat]
    /\ \A r \in Records, p \in Players : Gold(r)[p] = r[p].money /\ r[p].money \in Nat
    /\ StartMoney \in [Players -> Nat]
BY TradeAssumption DEF Records, Gold, Saved

LEMMA TotalType ==
    ASSUME NEW m \in [Players -> Nat]
    PROVE  Total(m) \in Nat
<1>1. Players \in Groups
  BY DEF Groups
<1> QED BY <1>1, TotalUnfold, SumFacts, TradeAssumption

(* The database always has something of every player.                         *)
LEMMA RecordedExists ==
    ASSUME TypeOK, NEW p \in Players, NEW n \in Nat, n <= Len(writes)
    PROVE  \E v \in Saved : Recorded(n, p, v)
<1> DEFINE T == {k \in Nat : k <= Len(writes) => \E v \in Saved : Recorded(k, p, v)}
<1>1. 0 \in T
  <2>1. saved[p] \in Saved /\ Recorded(0, p, saved[p])
    BY DEF Recorded, TypeOK
  <2> QED BY <2>1
<1>2. ASSUME NEW k \in T PROVE k + 1 \in T
  <2> SUFFICES ASSUME k + 1 <= Len(writes) PROVE \E v \in Saved : Recorded(k + 1, p, v)
    OBVIOUS
  <2>1. k \in Nat /\ Len(writes) \in Nat /\ k + 1 \in 1..Len(writes)
    BY DEF TypeOK
  <2>2. PICK u \in Saved : Recorded(k, p, u)
    BY <2>1
  <2>3. writes[k + 1][p] \in Saved \cup {None}
    BY <2>1 DEF TypeOK
  <2>4. \A j \in 1..(k + 1) : j \in 1..k \/ j = k + 1
    BY <2>1
  <2>5. CASE writes[k + 1][p] = None
    BY <2>1, <2>2, <2>4, <2>5 DEF Recorded
  <2>6. CASE writes[k + 1][p] \in Saved
    <3>1. k + 1 \in 1..(k + 1) /\ \A j \in 1..(k + 1) : ~ (j > k + 1)
      BY <2>1
    <3> QED BY <2>6, <3>1 DEF Recorded
  <2> QED BY <2>3, <2>5, <2>6
<1>3. T = Nat
  <2> HIDE DEF T
  <2> QED BY <1>1, <1>2, InductionOnSets DEF T
<1> QED BY <1>3

LEMMA GoldInit == Init => GInv
<1> SUFFICES ASSUME Init PROVE GInv
  OBVIOUS
<1>1. Len(writes) = 0
  BY DEF Init
<1>2. \A p \in Players, v \in Saved : Recorded(0, p, v) => v.money = StartMoney[p]
  BY DEF Init, Recorded
<1>3. GoldCovered
  BY <1>1, <1>2, GoldType DEF GoldCovered, Init
<1>4. ASSUME NEW r \in Records, HadBy(0, r)
      PROVE  Total(Gold(r)) <= Total(StartMoney)
  <2>1. \A p \in Players : r[p] \in Saved
    BY DEF Records
  <2>2. \A p \in Players : Gold(r)[p] <= StartMoney[p]
    BY <1>2, <1>4, <2>1, GoldType DEF HadBy
  <2> QED BY <2>2, GoldType, TotalMonotone, TradeAssumption
<1>5. GoldRecorded
  BY <1>1, <1>4 DEF GoldRecorded
<1> QED BY <1>3, <1>5 DEF GInv

(* The database and its transactions stay, and nobody gets any gold.          *)
LEMMA GoldKept ==
    ASSUME TypeOK, GInv, UNCHANGED <<writes, saved>>, money' \in Purses,
           \A p \in Players : money'[p] <= money[p]
    PROVE  GInv'
<1>1. \A k \in 0..Len(writes), p \in Players, v \in Saved : Recorded(k, p, v)' => Recorded(k, p, v)
  BY DEF Recorded
<1>2. Len(writes) \in Nat /\ Len(writes') = Len(writes)
  BY DEF TypeOK
<1>3. GoldCovered'
  <2> SUFFICES ASSUME NEW p \in Players, NEW v \in Saved, Recorded(Len(writes), p, v)'
               PROVE  money'[p] <= v.money
    BY <1>2 DEF GoldCovered
  <2>1. PICK k \in Nat : k = Len(writes)
    BY <1>2
  <2>2. Recorded(k, p, v)'
    BY <1>2, <2>1
  <2>3. money[p] <= v.money
    BY <1>1, <2>1, <2>2 DEF GInv, GoldCovered
  <2>4. money[p] \in Nat /\ money'[p] \in Nat /\ v.money \in Nat
    BY TradeAssumption DEF TypeOK, Purses, Saved
  <2> QED BY <2>3, <2>4
<1>4. GoldRecorded'
  BY <1>1, <1>2 DEF GInv, GoldRecorded, HadBy, Records
<1> QED BY <1>3, <1>4 DEF GInv

(* A transaction of the players of ps, if it leaves no more in the database   *)
(* than it had.                                                               *)
LEMMA GoldWritten ==
    ASSUME TypeOK, GInv, NEW ps \in SUBSET Players, NEW b \in Bags, NEW m \in Purses,
           Write(ps, b, m), money' = m, saved' = saved,
           \A p \in Players \ ps : m[p] = money[p],
           \A r, s \in Records :
               /\ \A p \in Players : money[p] <= s[p].money
               /\ \A p \in Players \ ps : r[p].money = s[p].money
               /\ \A p \in ps : r[p].money = m[p]
               => Total(Gold(r)) <= Total(Gold(s))
    PROVE  GInv'
<1>1. PICK n \in Nat : n = Len(writes)
  BY DEF TypeOK
<1>2. PICK l \in Nat : l = n + 1
  OBVIOUS
<1>3. Len(writes') = l
  BY <1>1, <1>2, Written
<1>4. ASSUME NEW k \in 0..Len(writes'), NEW p \in Players, NEW v \in Saved, Recorded(k, p, v)'
      PROVE  IF k \in 0..n THEN Recorded(k, p, v)
             ELSE IF p \in ps THEN v = Snapshot(b, m, p) ELSE Recorded(n, p, v)
  BY <1>1, <1>4, Written
<1>5. \A p \in Players : Snapshot(b, m, p).money = m[p] /\ m[p] \in Nat
  BY TradeAssumption DEF Snapshot, Purses
<1>6. GoldCovered'
  <2> SUFFICES ASSUME NEW p \in Players, NEW v \in Saved, Recorded(l, p, v)'
               PROVE  m[p] <= v.money
    BY <1>3 DEF GoldCovered
  <2>1. IF p \in ps THEN v = Snapshot(b, m, p) ELSE Recorded(n, p, v)
    BY <1>2, <1>3, <1>4
  <2>2. CASE p \in ps
    BY <1>5, <2>1, <2>2
  <2>3. CASE p \notin ps
    BY <1>1, <2>1, <2>3 DEF GInv, GoldCovered
  <2> QED BY <2>2, <2>3
<1>7. GoldRecorded'
  <2> SUFFICES ASSUME NEW k \in 0..l, NEW r \in Records, HadBy(k, r)'
               PROVE  Total(Gold(r)) <= Total(StartMoney)
    BY <1>3 DEF GoldRecorded
  <2>0. \A p \in Players : r[p] \in Saved /\ Recorded(k, p, r[p])'
    BY DEF HadBy, Records
  <2>1. CASE k \in 0..n
    <3>1. HadBy(k, r)
      BY <1>3, <1>4, <2>0, <2>1 DEF HadBy
    <3> QED BY <1>1, <2>1, <3>1 DEF GInv, GoldRecorded
  <2>2. CASE k = l
    <3> DEFINE s == [p \in Players |->
                        IF p \in ps THEN CHOOSE v \in Saved : Recorded(n, p, v) ELSE r[p]]
    <3>1. \A p \in Players : \E v \in Saved : Recorded(n, p, v)
      BY <1>1, RecordedExists
    <3>2. \A p \in Players : IF p \in ps THEN r[p] = Snapshot(b, m, p) ELSE Recorded(n, p, r[p])
      BY <1>2, <1>3, <1>4, <2>0, <2>2
    <3>3. \A p \in Players : s[p] \in Saved /\ Recorded(n, p, s[p])
      BY <2>0, <3>1, <3>2
    <3>4. \A p \in Players \ ps : s[p] = r[p]
      OBVIOUS
    <3>5. s \in Records
      BY <3>3 DEF Records
    <3> HIDE DEF s
    <3>6. \A p \in Players : money[p] <= s[p].money
      BY <1>1, <3>3 DEF GInv, GoldCovered
    <3>7. \A p \in ps : r[p].money = m[p]
      BY <1>5, <3>2
    <3>8. Total(Gold(r)) <= Total(Gold(s))
      BY <3>4, <3>5, <3>6, <3>7
    <3>9. HadBy(n, s) /\ n \in 0..Len(writes)
      BY <1>1, <3>3 DEF HadBy
    <3>10. Total(Gold(s)) <= Total(StartMoney)
      BY <3>5, <3>9 DEF GInv, GoldRecorded
    <3>11. Total(Gold(r)) \in Nat /\ Total(Gold(s)) \in Nat /\ Total(StartMoney) \in Nat
      BY <3>5, GoldType, TotalType
    <3> QED BY <3>8, <3>10, <3>11
  <2> QED BY <1>2, <2>1, <2>2
<1> QED BY <1>6, <1>7 DEF GInv

LEMMA GoldSaved ==
    ASSUME IInv, GInv, NEW p \in Players, Write({p}, bag, money), UNCHANGED <<money, saved>>
    PROVE  GInv'
<1>1. TypeOK /\ {p} \in SUBSET Players /\ bag \in Bags /\ money \in Purses
  BY DEF IInv, TypeOK, Bags, Purses
<1>2. ASSUME NEW r \in Records, NEW s \in Records,
             \A q \in Players : money[q] <= s[q].money,
             \A q \in Players \ {p} : r[q].money = s[q].money,
             \A q \in {p} : r[q].money = money[q]
      PROVE  Total(Gold(r)) <= Total(Gold(s))
  <2>1. \A q \in Players : Gold(r)[q] <= Gold(s)[q]
    BY <1>2, GoldType
  <2> QED BY <2>1, GoldType, TotalMonotone, TradeAssumption
<1> QED BY <1>1, <1>2, GoldWritten

LEMMA GoldExchanged ==
    ASSUME IInv, GInv, NEW p \in Players, AcceptBoth(p)
    PROVE  GInv'
<1>0. PICK q : q = Partner(p)
  OBVIOUS
<1>1. /\ q \in Players /\ q # p /\ {p, q} \in SUBSET Players
      /\ bag' \in Bags /\ money' \in Purses
      /\ money'[p] + money'[q] = money[p] + money[q]
      /\ Write({p, q}, bag', money') /\ saved' = saved
      /\ TypeOK /\ money \in Purses
  BY <1>0, Exchanged DEF AcceptBoth, IInv, TypeOK, Bags, Purses
<1>2. \A r \in Players \ {p, q} : money'[r] = money[r]
  <2>1. money' = [money EXCEPT ![p] = Modified(p), ![q] = Modified(q)]
    BY <1>0 DEF AcceptBoth
  <2> QED BY <1>1, <2>1 DEF Purses
<1>3. ASSUME NEW r \in Records, NEW s \in Records,
             \A t \in Players : money[t] <= s[t].money,
             \A t \in Players \ {p, q} : r[t].money = s[t].money,
             \A t \in {p, q} : r[t].money = money'[t]
      PROVE  Total(Gold(r)) <= Total(Gold(s))
  <2>1. \A t \in Players \ {p, q} : Gold(r)[t] = Gold(s)[t]
    BY <1>3, GoldType
  <2>2. Total(Gold(r)) + Gold(s)[p] + Gold(s)[q] = Total(Gold(s)) + Gold(r)[p] + Gold(r)[q]
    BY <1>1, <2>1, GoldType, TotalTransfer, TradeAssumption
  <2>3. /\ Gold(r)[p] = money'[p] /\ Gold(r)[q] = money'[q]
        /\ money[p] <= Gold(s)[p] /\ money[q] <= Gold(s)[q]
        /\ Gold(s)[p] \in Nat /\ Gold(s)[q] \in Nat
    BY <1>1, <1>3, GoldType
  <2>4. /\ money[p] \in Nat /\ money[q] \in Nat /\ money'[p] \in Nat /\ money'[q] \in Nat
        /\ Total(Gold(r)) \in Nat /\ Total(Gold(s)) \in Nat
    BY <1>1, GoldType, TotalType, TradeAssumption DEF Purses
  <2> QED BY <1>1, <2>2, <2>3, <2>4
<1> QED BY <1>1, <1>2, <1>3, GoldWritten

LEMMA GoldAtLogin ==
    ASSUME IInv, GInv, NEW p \in Players, Login(p)
    PROVE  GInv'
<1>1. PICK n \in Nat : n = Len(writes)
  BY DEF IInv, TypeOK
<1>2. /\ writes' = writes /\ saved' = saved /\ TypeOK
      /\ money'[p] = saved[p].money /\ \A q \in Players : q # p => money'[q] = money[q]
      /\ \A i \in 1..n : writes[i][p] = None
  BY <1>1 DEF Login, IInv, TypeOK
<1>3. \A k \in 0..n, q \in Players, v \in Saved : Recorded(k, q, v)' => Recorded(k, q, v)
  BY <1>2 DEF Recorded
<1>4. \A v \in Saved : Recorded(n, p, v) => v = saved[p]
  <2> SUFFICES ASSUME NEW v \in Saved, Recorded(n, p, v) PROVE v = saved[p]
    OBVIOUS
  <2> QED BY <1>2, Absent DEF Recorded
<1>5. GoldCovered'
  <2> SUFFICES ASSUME NEW q \in Players, NEW v \in Saved, Recorded(n, q, v)'
               PROVE  money'[q] <= v.money
    BY <1>1, <1>2 DEF GoldCovered
  <2>1. Recorded(n, q, v)
    BY <1>3
  <2>2. v.money \in Nat
    BY TradeAssumption DEF Saved
  <2>3. CASE q = p
    BY <1>2, <1>4, <2>1, <2>2, <2>3
  <2>4. CASE q # p
    BY <1>1, <1>2, <2>1, <2>4 DEF GInv, GoldCovered
  <2> QED BY <2>3, <2>4
<1>6. GoldRecorded'
  <2> SUFFICES ASSUME NEW k \in 0..n, NEW r \in Records, HadBy(k, r)'
               PROVE  Total(Gold(r)) <= Total(StartMoney)
    BY <1>1, <1>2 DEF GoldRecorded
  <2>1. HadBy(k, r)
    BY <1>3 DEF HadBy, Records
  <2> QED BY <1>1, <2>1 DEF GInv, GoldRecorded
<1> QED BY <1>5, <1>6 DEF GInv

LEMMA GoldCommitted ==
    ASSUME IInv, GInv, Commit
    PROVE  GInv'
<1>1. PICK n \in Nat : n + 1 = Len(writes) /\ n = Len(writes')
  BY Committed DEF IInv
<1>2. \A k \in 0..n, p \in Players, v \in Saved : Recorded(k, p, v)' => Recorded(k + 1, p, v)
  BY <1>1, Committed DEF IInv
<1>3. GoldCovered'
  <2> SUFFICES ASSUME NEW p \in Players, NEW v \in Saved, Recorded(n, p, v)'
               PROVE  money'[p] <= v.money
    BY <1>1 DEF GoldCovered
  <2>1. Recorded(n + 1, p, v) /\ money' = money
    BY <1>2 DEF Commit
  <2> QED BY <1>1, <2>1 DEF GInv, GoldCovered
<1>4. GoldRecorded'
  <2> SUFFICES ASSUME NEW k \in 0..n, NEW r \in Records, HadBy(k, r)'
               PROVE  Total(Gold(r)) <= Total(StartMoney)
    BY <1>1 DEF GoldRecorded
  <2>1. HadBy(k + 1, r)
    BY <1>2 DEF HadBy, Records
  <2>2. k + 1 \in 0..Len(writes)
    BY <1>1
  <2> QED BY <2>1, <2>2 DEF GInv, GoldRecorded
<1> QED BY <1>3, <1>4 DEF GInv

LEMMA GoldCrashed ==
    ASSUME IInv, GInv, Crash
    PROVE  GInv'
<1>1. /\ Len(writes') = 0 /\ saved' = saved
      /\ \A p \in Players : money'[p] = saved[p].money
      /\ \A p \in Players : saved[p].money \in Nat
      /\ 0 \in 0..Len(writes)
  BY TradeAssumption DEF Crash, IInv, TypeOK, Saved
<1>2. \A p \in Players, v \in Saved : Recorded(0, p, v)' => v = saved[p] /\ Recorded(0, p, v)
  BY <1>1 DEF Recorded
<1>3. GoldCovered'
  BY <1>1, <1>2 DEF GoldCovered
<1>4. GoldRecorded'
  BY <1>1, <1>2 DEF GoldRecorded, GInv, HadBy, Records
<1> QED BY <1>3, <1>4 DEF GInv

LEMMA GoldStep == IInv /\ GInv /\ [Next]_vars => GInv'
<1> SUFFICES ASSUME IInv, GInv, [Next]_vars PROVE GInv'
  OBVIOUS
<1>1. TypeOK /\ money \in Purses /\ \A p \in Players : money[p] \in Nat
  BY TradeAssumption DEF IInv, TypeOK, Purses
<1>2. CASE UNCHANGED <<money, writes, saved>>
  BY <1>1, <1>2, GoldKept
<1>3. ASSUME NEW p \in Players, Spend(p)
      PROVE  GInv'
  <2>1. /\ money' \in Purses /\ UNCHANGED <<writes, saved>>
        /\ \A q \in Players : money'[q] <= money[q]
    BY <1>1, <1>3, TradeAssumption DEF Spend, Purses
  <2> QED BY <1>1, <2>1, GoldKept
<1>4. ASSUME NEW p \in Players, Logout(p) \/ SavePlayer(p)
      PROVE  GInv'
  BY <1>4, GoldSaved DEF Logout, SavePlayer
<1>5. ASSUME NEW p \in Players, AcceptBoth(p)
      PROVE  GInv'
  BY <1>5, GoldExchanged
<1>6. ASSUME NEW p \in Players, Login(p)
      PROVE  GInv'
  BY <1>6, GoldAtLogin
<1>7. CASE Commit \/ Crash
  BY <1>7, GoldCommitted, GoldCrashed
<1>8. ASSUME NEW p \in Players,
             \/ AcceptBlocked(p) \/ AcceptFirst(p) \/ AcceptNoRoom(p) \/ Unaccept(p)
             \/ SetSpell(p) \/ TradeCancel(p)
             \/ \E g \in 0..MaxMoney : SetGold(p, g)
             \/ \E s \in AllSlots : ClearItem(p, s) \/ \E i \in Items : PlaceItem(p, s, i)
             \/ \E q \in Players : SpellFails(p, q) \/ Initiate(p, q)
             \/ \E i \in Items : LoseItem(p, i)
      PROVE  GInv'
  <2>1. ASSUME NEW mine, NEW his, Accepted(p, mine, his)
        PROVE  UNCHANGED <<money, writes, saved>>
    BY <2>1 DEF Accepted
  <2>2. AcceptBlocked(p) => UNCHANGED <<money, writes, saved>>
    BY <2>1 DEF AcceptBlocked
  <2>3. AcceptFirst(p) \/ AcceptNoRoom(p) \/ Unaccept(p) => UNCHANGED <<money, writes, saved>>
    BY <2>1 DEF AcceptFirst, AcceptNoRoom, Unaccept
  <2>4. SetSpell(p) \/ TradeCancel(p) => UNCHANGED <<money, writes, saved>>
    BY DEF SetSpell, TradeCancel, Change
  <2>5. \A g \in 0..MaxMoney : SetGold(p, g) => UNCHANGED <<money, writes, saved>>
    BY DEF SetGold, Change
  <2>6. \A s \in AllSlots : ClearItem(p, s) \/ (\E i \in Items : PlaceItem(p, s, i))
                             => UNCHANGED <<money, writes, saved>>
    <3>1. \A s, i : SetItem(p, s, i) => UNCHANGED <<money, writes, saved>>
      BY DEF SetItem
    <3> QED BY <3>1 DEF ClearItem, PlaceItem
  <2>7. \A q \in Players : SpellFails(p, q) \/ Initiate(p, q)
                            => UNCHANGED <<money, writes, saved>>
    BY DEF SpellFails, Initiate, Change
  <2>8. \A i \in Items : LoseItem(p, i) => UNCHANGED <<money, writes, saved>>
    BY DEF LoseItem
  <2> QED BY <1>2, <1>8, <2>2, <2>3, <2>4, <2>5, <2>6, <2>7, <2>8
<1>9. ASSUME NEW i \in Items, BindItem(i)
      PROVE  GInv'
  BY <1>2, <1>9 DEF BindItem
<1>10. CASE UNCHANGED vars
  BY <1>2, <1>10 DEF vars
<1> QED BY <1>3, <1>4, <1>5, <1>6, <1>7, <1>8, <1>9, <1>10 DEF Next

----------------------------------------------------------------------------
(* Nothing is lost                                                            *)

(* An item that is held is in some inventory that the database has, however   *)
(* many of the transactions it will have.                                     *)
Covered(k, i) == \E q \in Players, v \in Saved : Recorded(k, q, v) /\ i \in v.items
ItemsCovered ==
    \A k \in 0..Len(writes), p \in Players : \A i \in bag[p] : Covered(k, i)

(* The converse of Written: what the database was to have it will have, but   *)
(* for the players of ps, who are in the transaction.                         *)
LEMMA WrittenBack ==
    ASSUME TypeOK, NEW ps \in SUBSET Players, NEW b \in Bags, NEW m \in Purses,
           Write(ps, b, m), saved' = saved, NEW n \in Nat, n = Len(writes)
    PROVE  /\ \A k \in 0..n, p \in Players, v \in Saved :
                 Recorded(k, p, v) => Recorded(k, p, v)'
           /\ \A p \in Players \ ps, v \in Saved :
                 Recorded(n, p, v) => Recorded(n + 1, p, v)'
           /\ \A p \in ps : Recorded(n + 1, p, Snapshot(b, m, p))'
<1> DEFINE w == [p \in Players |-> IF p \in ps THEN Snapshot(b, m, p) ELSE None]
<1>1. w \in [Players -> Saved \cup {None}]
  BY DEF Saved, Snapshot, Bags, Purses
<1>2. \A p \in Players : IF p \in ps THEN w[p] = Snapshot(b, m, p) ELSE w[p] = None
  OBVIOUS
<1>3. writes' = Append(writes, w)
  BY DEF Write, Snapshot
<1> HIDE DEF w
<1>4. (\A i \in 1..n : writes'[i] = writes[i]) /\ writes'[n + 1] = w
  BY <1>1, <1>3, AppendProperties DEF TypeOK
<1>5. ASSUME NEW k \in 0..n, NEW p \in Players, NEW v \in Saved, Recorded(k, p, v)
      PROVE  Recorded(k, p, v)'
  <2>1. \A i \in 1..k : writes'[i] = writes[i]
    BY <1>4
  <2> QED BY <1>5, <2>1 DEF Recorded
<1>6. ASSUME NEW k \in Nat, k = n + 1, NEW p \in Players, p \notin ps, NEW v \in Saved,
             Recorded(n, p, v)
      PROVE  Recorded(k, p, v)'
  <2>1. \A i \in 1..k : writes'[i][p] = IF i \in 1..n THEN writes[i][p] ELSE None
    BY <1>2, <1>4, <1>6
  <2>2. CASE v = saved[p] /\ \A i \in 1..n : writes[i][p] = None
    BY <2>1, <2>2 DEF Recorded
  <2>3. CASE \E i \in 1..n : writes[i][p] = v /\ \A j \in 1..n : j > i => writes[j][p] = None
    <3>1. PICK i \in 1..n : writes[i][p] = v /\ \A j \in 1..n : j > i => writes[j][p] = None
      BY <2>3
    <3>2. i \in 1..k /\ writes'[i][p] = v
      BY <1>6, <2>1, <3>1
    <3>3. \A j \in 1..k : j > i => writes'[j][p] = None
      BY <2>1, <3>1
    <3> QED BY <3>2, <3>3 DEF Recorded
  <2> QED BY <1>6, <2>2, <2>3 DEF Recorded
<1>7. ASSUME NEW k \in Nat, k = n + 1, NEW p \in ps
      PROVE  Recorded(k, p, Snapshot(b, m, p))'
  <2>1. k \in 1..k /\ \A j \in 1..k : ~(j > k)
    BY <1>7
  <2>2. writes'[k][p] = Snapshot(b, m, p)
    BY <1>2, <1>4, <1>7
  <2>3. \E i \in 1..k : /\ writes'[i][p] = Snapshot(b, m, p)
                        /\ \A j \in 1..k : j > i => writes'[j][p] = None
    BY <2>1, <2>2
  <2> QED BY <2>3 DEF Recorded, Snapshot
<1> QED BY <1>5, <1>6, <1>7

(* A transaction of the players of ps, among whom the items that they held    *)
(* have been dealt anew.                                                      *)
LEMMA CoveredWritten ==
    ASSUME TypeOK, HeldOnce, ItemsCovered, NEW ps \in SUBSET Players,
           NEW b \in Bags, NEW m \in Purses,
           Write(ps, b, m), bag' = b, saved' = saved,
           \A p \in Players : \A i \in b[p] :
               \E q \in Players : i \in bag[q] /\ (q \in ps <=> p \in ps)
    PROVE  ItemsCovered'
<1>1. PICK n \in Nat : n = Len(writes)
  BY DEF TypeOK
<1>2. PICK l \in Nat : l = n + 1
  OBVIOUS
<1>3. Len(writes') = l
  BY <1>1, <1>2, Written
<1>4. /\ \A k \in 0..n, p \in Players, v \in Saved : Recorded(k, p, v) => Recorded(k, p, v)'
      /\ \A p \in Players \ ps, v \in Saved : Recorded(n, p, v) => Recorded(l, p, v)'
      /\ \A p \in ps : Recorded(l, p, Snapshot(b, m, p))'
  BY <1>1, <1>2, WrittenBack
<1> SUFFICES ASSUME NEW k \in 0..l, NEW p \in Players, NEW i \in b[p]
             PROVE  Covered(k, i)'
  BY <1>3 DEF ItemsCovered
<1>5. PICK t \in Players : i \in bag[t] /\ (t \in ps <=> p \in ps)
  OBVIOUS
<1>6. CASE k \in 0..n
  BY <1>1, <1>4, <1>5, <1>6 DEF ItemsCovered, Covered
<1>7. CASE k = l /\ p \in ps
  <2>1. Snapshot(b, m, p) \in Saved /\ i \in Snapshot(b, m, p).items
    BY DEF Snapshot, Saved, Bags, Purses
  <2> QED BY <1>4, <1>7, <2>1 DEF Covered
<1>8. CASE k = l /\ p \notin ps
  <2>1. n \in 0..Len(writes)
    BY <1>1
  <2>2. PICK q \in Players, v \in Saved : Recorded(n, q, v) /\ i \in v.items
    BY <1>5, <2>1 DEF ItemsCovered, Covered
  <2>3. q = t \/ q \notin ps
    BY <1>1, <1>5, <2>2 DEF HeldOnce, BagsRecorded
  <2>4. Recorded(l, q, v)'
    BY <1>4, <1>5, <1>8, <2>2, <2>3
  <2> QED BY <1>8, <2>2, <2>4 DEF Covered
<1> QED BY <1>2, <1>6, <1>7, <1>8

LEMMA CoveredKept ==
    ASSUME TypeOK, ItemsCovered, UNCHANGED <<writes, saved>>,
           \A p \in Players : bag'[p] \subseteq bag[p]
    PROVE  ItemsCovered'
<1>1. \A k, p, v : Recorded(k, p, v)' <=> Recorded(k, p, v)
  BY DEF Recorded
<1> QED BY <1>1 DEF ItemsCovered, Covered

LEMMA CoveredSaved ==
    ASSUME IInv, ItemsCovered, NEW p \in Players,
           Write({p}, bag, money), UNCHANGED <<bag, saved>>
    PROVE  ItemsCovered'
<1>1. TypeOK /\ HeldOnce /\ {p} \in SUBSET Players /\ bag \in Bags /\ money \in Purses
  BY DEF IInv, TypeOK, Bags, Purses
<1> QED BY <1>1, CoveredWritten

LEMMA CoveredExchanged ==
    ASSUME IInv, ItemsCovered, NEW p \in Players, AcceptBoth(p)
    PROVE  ItemsCovered'
<1>0. PICK q : q = Partner(p)
  OBVIOUS
<1>1. /\ q \in Players /\ {p, q} \in SUBSET Players
      /\ bag'[p] = (bag[p] \ GivenBy(p)) \cup GivenBy(q)
      /\ bag'[q] = (bag[q] \ GivenBy(q)) \cup GivenBy(p)
      /\ \A r \in Players : r # p /\ r # q => bag'[r] = bag[r]
      /\ bag' \in Bags /\ money' \in Purses
      /\ Write({p, q}, bag', money') /\ saved' = saved
      /\ TypeOK /\ HeldOnce
  BY <1>0, Exchanged DEF AcceptBoth, IInv, Bags, Purses
<1>2. ASSUME NEW r \in Players, NEW i \in bag'[r]
      PROVE  \E t \in Players : i \in bag[t] /\ (t \in {p, q} <=> r \in {p, q})
  <2>1. CASE r \in {p, q}
    <3>1. i \in bag[p] \/ i \in bag[q]
      BY <1>1, <1>2, <2>1, GivenIsHeld
    <3> QED BY <1>1, <2>1, <3>1
  <2>2. CASE r \notin {p, q}
    BY <1>1, <1>2, <2>2
  <2> QED BY <2>1, <2>2
<1> QED BY <1>1, <1>2, CoveredWritten

LEMMA CoveredAtLogin ==
    ASSUME IInv, ItemsCovered, NEW p \in Players, Login(p)
    PROVE  ItemsCovered'
<1>1. /\ writes' = writes /\ saved' = saved /\ saved[p] \in Saved
      /\ bag'[p] = saved[p].items /\ \A q \in Players : q # p => bag'[q] = bag[q]
      /\ \A i \in 1..Len(writes) : writes[i][p] = None
  BY DEF Login, IInv, TypeOK
<1>2. \A k, q, v : Recorded(k, q, v)' <=> Recorded(k, q, v)
  BY <1>1 DEF Recorded
<1> SUFFICES ASSUME NEW k \in 0..Len(writes), NEW q \in Players, NEW i \in bag'[q]
             PROVE  Covered(k, i)'
  BY <1>1 DEF ItemsCovered
<1>3. CASE q = p
  <2>1. Len(writes) \in Nat
    BY DEF IInv, TypeOK
  <2>2. \A j \in 1..k : writes[j][p] = None
    BY <1>1, <2>1
  <2>3. Recorded(k, p, saved[p])
    BY <2>2 DEF Recorded
  <2> QED BY <1>1, <1>2, <1>3, <2>3 DEF Covered
<1>4. CASE q # p
  BY <1>1, <1>2, <1>4 DEF ItemsCovered, Covered
<1> QED BY <1>3, <1>4

(* The converse of Committed.                                                 *)
LEMMA CommittedBack ==
    ASSUME TypeOK, Commit, NEW n \in Nat, n = Len(writes')
    PROVE  \A k \in 0..n, p \in Players, v \in Saved :
              Recorded(k + 1, p, v) => Recorded(k, p, v)'
<1>1. /\ Len(writes) = n + 1
      /\ \A i \in 1..n : writes'[i] = writes[i + 1]
      /\ \A p \in Players : saved'[p] = IF writes[1][p] = None THEN saved[p] ELSE writes[1][p]
  <2>1. writes \in Seq([Players -> Saved \cup {None}]) /\ writes # <<>> /\ writes' = Tail(writes)
    BY DEF TypeOK, Commit
  <2>2. Len(writes) = n + 1
    BY Committed
  <2>3. \A i \in 1..n : writes'[i] = writes[i + 1]
    BY <2>1, HeadTailProperties
  <2> QED BY <2>1, <2>2, <2>3 DEF Commit
<1> SUFFICES ASSUME NEW k \in 0..n, NEW p \in Players, NEW v \in Saved, Recorded(k + 1, p, v)
             PROVE  Recorded(k, p, v)'
  OBVIOUS
<1>2. \A i \in 1..k : i + 1 \in 1..(k + 1) /\ writes'[i][p] = writes[i + 1][p]
  BY <1>1
<1>3. 1 \in 1..(k + 1)
  OBVIOUS
<1>4. CASE v = saved[p] /\ \A i \in 1..(k + 1) : writes[i][p] = None
  <2>1. saved'[p] = v /\ \A i \in 1..k : writes'[i][p] = None
    BY <1>1, <1>2, <1>3, <1>4
  <2> QED BY <2>1 DEF Recorded
<1>5. CASE \E i \in 1..(k + 1) : /\ writes[i][p] = v
                                 /\ \A j \in 1..(k + 1) : j > i => writes[j][p] = None
  <2>1. PICK i \in 1..(k + 1) : /\ writes[i][p] = v
                                /\ \A j \in 1..(k + 1) : j > i => writes[j][p] = None
    BY <1>5
  <2>2. CASE i = 1
    <3>1. saved'[p] = v
      BY <1>1, <2>1, <2>2, Absent
    <3>2. \A j \in 1..k : writes'[j][p] = None
      BY <1>2, <2>1, <2>2
    <3> QED BY <3>1, <3>2 DEF Recorded
  <2>3. CASE i # 1
    <3>1. PICK h \in 1..k : i = h + 1
      <4>1. i - 1 \in 1..k /\ i = (i - 1) + 1
        BY <2>3
      <4> QED BY <4>1
    <3>2. writes'[h][p] = v
      BY <1>2, <2>1, <3>1
    <3>3. \A j \in 1..k : j > h => writes'[j][p] = None
      BY <1>2, <2>1, <3>1
    <3> QED BY <3>2, <3>3 DEF Recorded
  <2> QED BY <2>2, <2>3
<1> QED BY <1>4, <1>5 DEF Recorded

LEMMA CoveredCommitted ==
    ASSUME IInv, ItemsCovered, Commit
    PROVE  ItemsCovered'
<1>1. PICK n \in Nat : n + 1 = Len(writes) /\ n = Len(writes')
  BY Committed DEF IInv
<1>2. \A k \in 0..n, p \in Players, v \in Saved : Recorded(k + 1, p, v) => Recorded(k, p, v)'
  BY <1>1, CommittedBack DEF IInv
<1> SUFFICES ASSUME NEW k \in 0..n, NEW p \in Players, NEW i \in bag[p]
             PROVE  Covered(k, i)'
  BY <1>1 DEF ItemsCovered, Commit
<1>3. k + 1 \in 0..Len(writes)
  BY <1>1
<1>4. PICK q \in Players, v \in Saved : Recorded(k + 1, q, v) /\ i \in v.items
  BY <1>3 DEF ItemsCovered, Covered
<1> QED BY <1>2, <1>4 DEF Covered

(* What everybody holds is what the database has, at the start and after a    *)
(* crash.                                                                     *)
LEMMA CoveredInit == Init => ItemsCovered
<1> SUFFICES ASSUME Init PROVE ItemsCovered
  OBVIOUS
<1>1. \A p \in Players : saved[p] \in Saved /\ bag[p] = saved[p].items
  BY InitHolds DEF Init, IInv, TypeOK
<1>2. Len(writes) = 0 /\ \A p \in Players : Recorded(0, p, saved[p])
  BY DEF Init, Recorded
<1> QED BY <1>1, <1>2 DEF ItemsCovered, Covered

LEMMA CoveredCrashed ==
    ASSUME IInv, Crash
    PROVE  ItemsCovered'
<1>1. TypeOK'
  BY CrashHolds DEF IInv
<1>2. writes' = <<>> /\ \A p \in Players : bag'[p] = saved'[p].items
  BY DEF Crash
<1>3. \A p \in Players : saved'[p] \in Saved /\ Recorded(0, p, saved[p])'
  BY <1>1, <1>2 DEF Recorded, TypeOK, Crash
<1> QED BY <1>2, <1>3 DEF ItemsCovered, Covered, Crash

LEMMA CoveredStep == IInv /\ ItemsCovered /\ [Next]_vars => ItemsCovered'
<1> SUFFICES ASSUME IInv, ItemsCovered, [Next]_vars PROVE ItemsCovered'
  OBVIOUS
<1>1. TypeOK /\ bag \in Bags
  BY DEF IInv, TypeOK, Bags
<1>2. CASE UNCHANGED <<bag, writes, saved>>
  BY <1>1, <1>2, CoveredKept
<1>3. ASSUME NEW p \in Players, NEW i \in Items, LoseItem(p, i)
      PROVE  ItemsCovered'
  <2>1. UNCHANGED <<writes, saved>> /\ \A q \in Players : bag'[q] \subseteq bag[q]
    BY <1>1, <1>3 DEF LoseItem, Bags
  <2> QED BY <1>1, <2>1, CoveredKept
<1>4. ASSUME NEW p \in Players, Logout(p) \/ SavePlayer(p)
      PROVE  ItemsCovered'
  BY <1>4, CoveredSaved DEF Logout, SavePlayer
<1>5. ASSUME NEW p \in Players, AcceptBoth(p)
      PROVE  ItemsCovered'
  BY <1>5, CoveredExchanged
<1>6. ASSUME NEW p \in Players, Login(p)
      PROVE  ItemsCovered'
  BY <1>6, CoveredAtLogin
<1>7. CASE Commit \/ Crash
  BY <1>7, CoveredCommitted, CoveredCrashed
<1>8. ASSUME NEW p \in Players,
             \/ AcceptBlocked(p) \/ AcceptFirst(p) \/ AcceptNoRoom(p) \/ Unaccept(p)
             \/ SetSpell(p) \/ TradeCancel(p) \/ Spend(p)
             \/ \E g \in 0..MaxMoney : SetGold(p, g)
             \/ \E s \in AllSlots : ClearItem(p, s) \/ \E i \in Items : PlaceItem(p, s, i)
             \/ \E q \in Players : SpellFails(p, q) \/ Initiate(p, q)
      PROVE  ItemsCovered'
  <2>1. ASSUME NEW mine, NEW his, Accepted(p, mine, his)
        PROVE  UNCHANGED <<bag, writes, saved>>
    BY <2>1 DEF Accepted
  <2>2. AcceptBlocked(p) => UNCHANGED <<bag, writes, saved>>
    BY <2>1 DEF AcceptBlocked
  <2>3. AcceptFirst(p) \/ AcceptNoRoom(p) \/ Unaccept(p) => UNCHANGED <<bag, writes, saved>>
    BY <2>1 DEF AcceptFirst, AcceptNoRoom, Unaccept
  <2>4. SetSpell(p) \/ TradeCancel(p) \/ Spend(p) => UNCHANGED <<bag, writes, saved>>
    BY DEF SetSpell, TradeCancel, Spend, Change
  <2>5. \A g \in 0..MaxMoney : SetGold(p, g) => UNCHANGED <<bag, writes, saved>>
    BY DEF SetGold, Change
  <2>6. \A s \in AllSlots : ClearItem(p, s) \/ (\E i \in Items : PlaceItem(p, s, i))
                             => UNCHANGED <<bag, writes, saved>>
    <3>1. \A s, i : SetItem(p, s, i) => UNCHANGED <<bag, writes, saved>>
      BY DEF SetItem
    <3> QED BY <3>1 DEF ClearItem, PlaceItem
  <2>7. \A q \in Players : SpellFails(p, q) \/ Initiate(p, q)
                            => UNCHANGED <<bag, writes, saved>>
    BY DEF SpellFails, Initiate, Change
  <2> QED BY <1>2, <1>8, <2>2, <2>3, <2>4, <2>5, <2>6, <2>7
<1>9. ASSUME NEW i \in Items, BindItem(i)
      PROVE  ItemsCovered'
  BY <1>2, <1>9 DEF BindItem
<1>10. CASE UNCHANGED vars
  BY <1>2, <1>10 DEF vars
<1> QED BY <1>3, <1>4, <1>5, <1>6, <1>7, <1>8, <1>9, <1>10 DEF Next

----------------------------------------------------------------------------
(* The theorems                                                               *)

LEMMA SettersHold ==
    ASSUME IInv, NEW p \in Players, Trading(p)
    PROVE  /\ \A g \in 0..MaxMoney : SetGold(p, g) => IInv'
           /\ SetSpell(p) => IInv'
           /\ \A c \in Players : SpellFails(p, c) => IInv'
           /\ \A s \in AllSlots : ClearItem(p, s) => IInv'
           /\ \A s \in AllSlots, i \in Items : PlaceItem(p, s, i) => IInv'
<1>1. ASSUME NEW c \in Players, Trading(c)
      PROVE  /\ \A g \in 0..MaxMoney : [OfferOf(c) EXCEPT !.gold = g] \in Offer
             /\ \A b \in BOOLEAN : [OfferOf(c) EXCEPT !.spell = b] \in Offer
  BY <1>1, TradeFacts DEF IInv, Offer
<1>2. \A g \in 0..MaxMoney : SetGold(p, g) => IInv'
  BY <1>1, ChangeHolds DEF SetGold
<1>3. SetSpell(p) => IInv'
  BY <1>1, ChangeHolds DEF SetSpell
<1>4. \A c \in Players : SpellFails(p, c) => IInv'
  <2> TAKE c \in Players
  <2> HAVE SpellFails(p, c)
  <2>1. Trading(c)
    BY DEF SpellFails, IInv, PartnersAreMutual
  <2> QED BY <1>1, <2>1, ChangeHolds DEF SpellFails
<1>5. \A s \in AllSlots : ClearItem(p, s) => IInv'
  BY SetItemHolds DEF ClearItem
<1>6. \A s \in AllSlots, i \in Items : PlaceItem(p, s, i) => IInv'
  BY SetItemHolds DEF PlaceItem
<1> QED BY <1>2, <1>3, <1>4, <1>5, <1>6

LEMMA AcceptancesHold ==
    ASSUME IInv, NEW p \in Players,
           AcceptFirst(p) \/ AcceptNoRoom(p) \/ Unaccept(p)
    PROVE  IInv'
<1>1. Trading(p)
  BY DEF AcceptFirst, AcceptNoRoom, Unaccept
<1>2. trade[Partner(p)].accepted \in BOOLEAN
  BY <1>1, TradeFacts DEF IInv, PartnersAreMutual
<1>3. \/ Accepted(p, TRUE, FALSE)
      \/ Accepted(p, FALSE, FALSE)
      \/ Accepted(p, FALSE, trade[Partner(p)].accepted)
  BY DEF AcceptFirst, AcceptNoRoom, Unaccept
<1> QED BY <1>1, <1>2, <1>3, AcceptedHolds

LEMMA StutterHolds ==
    ASSUME IInv, UNCHANGED vars
    PROVE  IInv'
<1> USE DEF IInv, vars
<1>1. TypeOK'
  BY DEF TypeOK
<1>2. PartnersAreMutual' /\ AcceptanceIsInformed'
  BY TradesKept
<1>3. HeldOnce'
  BY HeldKept
<1> QED BY <1>1, <1>2, <1>3

LEMMA StepHolds == IInv /\ [Next]_vars => IInv'
<1> SUFFICES ASSUME IInv, [Next]_vars PROVE IInv'
  OBVIOUS
<1>1. ASSUME NEW p \in Players, NEW g \in 0..MaxMoney, SetGold(p, g)
      PROVE  IInv'
  BY <1>1, SettersHold DEF SetGold
<1>2. ASSUME NEW p \in Players, NEW s \in AllSlots,
             ClearItem(p, s) \/ \E i \in Items : PlaceItem(p, s, i)
      PROVE  IInv'
  BY <1>2, SettersHold DEF ClearItem, PlaceItem
<1>3. ASSUME NEW p \in Players, SetSpell(p) \/ \E c \in Players : SpellFails(p, c)
      PROVE  IInv'
  BY <1>3, SettersHold DEF SetSpell, SpellFails
<1>4. ASSUME NEW p \in Players,
             AcceptBlocked(p) \/ AcceptFirst(p) \/ AcceptNoRoom(p) \/ AcceptBoth(p) \/ Unaccept(p)
      PROVE  IInv'
  BY <1>4, AcceptBlockedHolds, AcceptancesHold, AcceptBothHolds
<1>5. ASSUME NEW p \in Players, TradeCancel(p) \/ \E q \in Players : Initiate(p, q)
      PROVE  IInv'
  BY <1>5, TradeCancelHolds, InitiateHolds
<1>6. ASSUME NEW p \in Players, Logout(p) \/ Login(p) \/ SavePlayer(p)
      PROVE  IInv'
  BY <1>6, LogoutHolds, LoginHolds, SavePlayerHolds
<1>7. ASSUME NEW p \in Players, Spend(p) \/ \E i \in Items : LoseItem(p, i)
      PROVE  IInv'
  BY <1>7, GameHolds
<1>8. ASSUME NEW i \in Items, BindItem(i)
      PROVE  IInv'
  BY <1>8, GameHolds
<1>9. CASE Commit \/ Crash
  BY <1>9, CommitHolds, CrashHolds
<1>10. CASE UNCHANGED vars
  BY <1>10, StutterHolds
<1> QED BY <1>1, <1>2, <1>3, <1>4, <1>5, <1>6, <1>7, <1>8, <1>9, <1>10 DEF Next

(* What every interleaving of the handlers, the game, the saves, the worker   *)
(* of the database and crashes of the process keeps true.                     *)
THEOREM Invariant == Spec => []IInv
BY InitHolds, StepHolds, PTL DEF Spec

(* No gold below 0 or above MAX_MONEY_AMOUNT, and windows, bags and the       *)
(* database hold only what they are declared to.                              *)
THEOREM TypeCorrect == Spec => []TypeOK
BY Invariant, PTL DEF IInv

(* m_trade of a player points at a window that points back, whatever was      *)
(* initiated, cancelled or logged out before: GetTraderData is never null.    *)
THEOREM TradesAreMutual == Spec => []PartnersAreMutual
BY Invariant, PTL DEF IInv

(* An acceptance that stands is of the offer the partner makes now, after any *)
(* changes, acceptances, refusals and failed spells of the two.               *)
THEOREM TradesAreInformed == Spec => []AcceptanceIsInformed
BY Invariant, PTL DEF IInv

(* HandleAcceptTradeOpcode neither creates nor destroys items or gold, and    *)
(* both players have room for what they get.                                  *)
THEOREM TradesConserve == Spec => TradeConserves
<1>1. ASSUME IInv, NEW p \in Players, Completes(p), NEW q, q = Partner(p)
      PROVE  /\ money'[p] + money'[q] = money[p] + money[q]
             /\ bag'[p] \cup bag'[q] = bag[p] \cup bag[q]
             /\ bag'[p] \cap bag'[q] = {}
             /\ \A r \in {p, q} : Cardinality(bag'[r]) <= Room[r]
  <2>1. AcceptBoth(p)
    BY <1>1 DEF Completes
  <2>2. /\ q \in Players /\ q # p /\ Partner(q) = p
        /\ bag'[p] = (bag[p] \ GivenBy(p)) \cup GivenBy(q)
        /\ bag'[q] = (bag[q] \ GivenBy(q)) \cup GivenBy(p)
        /\ money'[p] + money'[q] = money[p] + money[q]
    BY <1>1, <2>1, Exchanged
  <2>3. bag[p] \cap bag[q] = {}
    BY <1>1, <2>2 DEF IInv, HeldOnce, BagsHold
  <2>4. bag'[p] \cup bag'[q] = bag[p] \cup bag[q] /\ bag'[p] \cap bag'[q] = {}
    BY <2>2, <2>3, GivenIsHeld, Swapped
  <2>5. Fits(p) /\ Fits(q) /\ TypeOK
    BY <1>1, <2>1 DEF AcceptBoth, IInv
  <2>6. Cardinality(bag'[p]) <= Room[p]
    BY <1>1, <2>2, <2>5, FitsAfterwards
  <2>7. Cardinality(bag'[q]) <= Room[q]
    BY <2>2, <2>5, FitsAfterwards
  <2> QED BY <2>2, <2>4, <2>6, <2>7
<1>2. IInv /\ [Next]_vars =>
        [\A p \in Players : Completes(p) => LET q == Partner(p) IN
          /\ money'[p] + money'[q] = money[p] + money[q]
          /\ bag'[p] \cup bag'[q] = bag[p] \cup bag[q]
          /\ bag'[p] \cap bag'[q] = {}
          /\ \A r \in {p, q} : Cardinality(bag'[r]) <= Room[r]]_vars
  BY <1>1
<1> QED BY <1>2, Invariant, PTL DEF Spec, TradeConserves

LEMMA NoneTwice == IInv => NoItemTwice
<1> SUFFICES ASSUME IInv PROVE NoItemTwice
  OBVIOUS
<1>1. 0 \in 0..Len(writes) /\ \A p \in Players : saved[p] \in Saved
  BY DEF IInv, TypeOK
<1>2. \A p \in Players : Recorded(0, p, saved[p])
  BY DEF Recorded
<1>3. \A p, q \in Players : p # q => saved[p].items \cap saved[q].items = {}
  BY <1>1, <1>2 DEF IInv, HeldOnce, RecordsHold
<1> QED BY <1>3 DEF IInv, HeldOnce, BagsHold, NoItemTwice, Disjoint

(* No item is in two players' bags or in two inventories of the database, and *)
(* the database never has more gold than the players began with: no trade,    *)
(* save, login, delay of the worker or crash makes any.                       *)
THEOREM NothingTwice == Spec => []NothingDuplicated
<1>1. IInv /\ GInv => NothingDuplicated
  <2> SUFFICES ASSUME IInv, GInv PROVE NothingDuplicated
    OBVIOUS
  <2>1. saved \in Records /\ 0 \in 0..Len(writes)
    BY DEF IInv, TypeOK, Records
  <2>2. HadBy(0, saved)
    BY DEF HadBy, Recorded
  <2>3. Total(Gold(saved)) <= Total(StartMoney)
    BY <2>1, <2>2 DEF GInv, GoldRecorded
  <2> QED BY <2>3, NoneTwice DEF NothingDuplicated, Gold
<1> QED BY <1>1, GoldInit, GoldStep, InitHolds, StepHolds, PTL DEF Spec
(* An item in a player's bags is in some inventory of the database, whatever  *)
(* part of the transactions of trades, saves and logouts it has by now: no    *)
(* crash makes an item of nobody's, and none is lost on the way from one      *)
(* player to another.                                                         *)
THEOREM NothingIsLost == Spec => []NothingLost
<1>1. IInv /\ ItemsCovered => NothingLost
  <2> SUFFICES ASSUME IInv, ItemsCovered, NEW p \in Players, NEW i \in bag[p]
               PROVE  \E q \in Players : i \in saved[q].items
    BY DEF NothingLost
  <2>1. 0 \in 0..Len(writes)
    BY DEF IInv, TypeOK
  <2>2. PICK q \in Players, v \in Saved : Recorded(0, q, v) /\ i \in v.items
    BY <2>1 DEF ItemsCovered, Covered
  <2>3. v = saved[q]
    BY <2>2 DEF Recorded
  <2> QED BY <2>2, <2>3
<1> QED BY <1>1, CoveredInit, CoveredStep, InitHolds, StepHolds, PTL DEF Spec
==============================================================================
