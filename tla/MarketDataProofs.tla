-------------------------- MODULE MarketDataProofs --------------------------
(***************************************************************************)
(* Proofs about what MarketState keeps of one instrument besides its order *)
(* book, for any venue, any limits, any contents and order of events and   *)
(* any number of faults: candle windows, and tickers, funding rates, open  *)
(* interest and trades.                                                    *)
(*                                                                         *)
(* The rows of an answer are applied one after the other by a recursive    *)
(* function; what holds after all of them is shown by induction on the     *)
(* rows (lemma ApplyManyKeeps).                                            *)
(***************************************************************************)
EXTENDS MarketData, WellFoundedInduction, FiniteSetTheorems, TLAPS

Context == [ts : Times, seq : SequenceIds, a : Values \cup {0}, b : Values \cup {0},
            received_at : Nat]
Trade == [id : TradeIds, ts : Times, seq : SequenceIds, received_at : Nat]

CtxTypeInv ==
  /\ clock \in Nat
  /\ value = None \/ value \in Context
  /\ oiHistory \in Seq(Context)
  /\ trades \in Seq(Trade) /\ Len(trades) <= RecentTradeLimit

\* The inductive invariant: the property holds of data of the right types.
CtxInv == CtxTypeInv /\ ContextIsExact

-----------------------------------------------------------------------------
(* Sequences and events                                                    *)

LEMMA Grown ==
  ASSUME NEW S, NEW s \in Seq(S), NEW e \in S
  PROVE  LET t == Append(s, e) IN
         /\ t \in Seq(S) /\ Len(t) = Len(s) + 1 /\ t # <<>> /\ t[Len(t)] = e
         /\ \A k \in 1..Len(s) : t[k] = s[k]
OBVIOUS

\* The oldest element leaves, a new one joins.
LEMMA Slid ==
  ASSUME NEW S, NEW s \in Seq(S), s # <<>>, NEW e \in S
  PROVE  LET t == Append(Tail(s), e) IN
         /\ t \in Seq(S) /\ Len(t) = Len(s) /\ t # <<>> /\ t[Len(t)] = e
         /\ \A k \in 1..Len(s) - 1 : t[k] = s[k + 1]
<1>. DEFINE u == Tail(s)
<1>1. /\ u \in Seq(S) /\ Len(u) = Len(s) - 1 /\ Len(s) \in Nat \ {0}
      /\ \A k \in 1..Len(s) - 1 : u[k] = s[k + 1]
  OBVIOUS
<1>. HIDE DEF u
<1>2. LET t == Append(u, e) IN
      /\ t \in Seq(S) /\ Len(t) = Len(u) + 1 /\ t # <<>> /\ t[Len(t)] = e
      /\ \A k \in 1..Len(u) : t[k] = u[k]
  BY <1>1, Grown
<1>3. LET t == Append(u, e) IN
      /\ t \in Seq(S) /\ Len(t) = Len(s) /\ t # <<>> /\ t[Len(t)] = e
      /\ \A k \in 1..Len(s) - 1 : t[k] = s[k + 1]
  BY <1>1, <1>2
<1>. QED
  BY <1>3 DEF u

LEMMA Replaced ==
  ASSUME NEW S, NEW s \in Seq(S), s # <<>>, NEW e \in S
  PROVE  LET t == [s EXCEPT ![Len(s)] = e] IN
         /\ t \in Seq(S) /\ Len(t) = Len(s) /\ t # <<>> /\ t[Len(t)] = e
         /\ \A k \in 1..Len(s) - 1 : t[k] = s[k]
OBVIOUS

\* None is no event: it has no time of receipt.
LEMMA NoneIsNoEvent ==
  /\ \A e \in Context : e # None /\ e.ts \in Nat /\ e.received_at \in Nat
  /\ \A e \in Trade : e # None /\ e.ts \in Nat
<1>1. None.received_at = -1
  BY DEF None
<1>2. \A e \in Context : e.received_at \in Nat /\ e.ts \in Nat
  BY MarketDataAssumption DEF Context
<1>3. \A e \in Trade : e.received_at \in Nat /\ e.ts \in Nat
  BY MarketDataAssumption DEF Trade
<1>. QED
  BY <1>1, <1>2, <1>3

LEMMA MergedFields ==
  ASSUME NEW e \in Context, value = None \/ value \in Context
  PROVE  /\ Merged(value, e) \in Context
         /\ Merged(value, e).ts = e.ts /\ Merged(value, e).received_at = e.received_at
         /\ feed # "ticker" => Merged(value, e) = e
BY DEF Merged, Context

-----------------------------------------------------------------------------
(* The steps                                                               *)

LEMMA InitContext == Init => CtxInv
<1>. SUFFICES ASSUME Init
              PROVE  CtxInv
  OBVIOUS
<1>1. /\ value = None /\ oiHistory = <<>> /\ trades = <<>> /\ tradeIds = {}
      /\ mark = -1 /\ clock = 0
  BY DEF Init
<1>. QED
  BY <1>1, MarketDataAssumption
     DEF CtxInv, CtxTypeInv, ContextIsExact, FreshnessIsOfTheData, TradeIdsExact,
         InterestHistoryEndsNow, None

LEMMA InvalidateKeeps ==
  ASSUME CtxInv, Invalidate
  PROVE  CtxInv'
<1>1. /\ value' = None /\ oiHistory' = <<>> /\ trades' = <<>> /\ tradeIds' = {}
      /\ mark' = -1 /\ clock' = clock
  BY DEF Invalidate
<1>. QED
  BY <1>1, MarketDataAssumption
     DEF CtxInv, CtxTypeInv, ContextIsExact, FreshnessIsOfTheData, TradeIdsExact,
         InterestHistoryEndsNow, None

LEMMA CandlesKeep ==
  ASSUME CandleStep
  PROVE  UNCHANGED <<feed, contextVars>>
BY DEF CandleStep, VenueUpdates, VenueCloses, ConnectionLost, Connect, ProcessCandle,
   RejectCandle, DetectGap, RecoverBook, RecoveryFails, RefreshBaseline, WarmUp,
   BackfillGap, Recover, BackfillFails, NoticeLoss, BookGap, BeginRecovery

LEMMA StutterKeeps ==
  ASSUME CtxInv, UNCHANGED <<feed, contextVars>>
  PROVE  CtxInv'
<1>1. UNCHANGED <<feed, value, oiHistory, trades, tradeIds, mark, clock>>
  BY DEF contextVars
<1>. QED
  BY <1>1
     DEF CtxInv, CtxTypeInv, ContextIsExact, FreshnessIsOfTheData, TradeIdsExact,
         InterestHistoryEndsNow

\* The history after an event that applies.
LEMMA RecordedHistory ==
  ASSUME CtxInv, feed = "open_interest", NEW e \in Context, Applies(e)
  PROVE  LET t == OpenInterestRecorded(e) IN
         /\ t \in Seq(Context) /\ t # <<>> /\ t[Len(t)] = e
         /\ \A k \in 1..Len(t) - 1 : t[k].ts <= t[k + 1].ts
<1>. DEFINE s == oiHistory
            t == OpenInterestRecorded(e)
<1>1. /\ s \in Seq(Context) /\ (value = None \/ value \in Context)
      /\ (value = None) = (s = <<>>)
      /\ value # None => s[Len(s)] = value
      /\ \A k \in 1..Len(s) - 1 : s[k].ts <= s[k + 1].ts
  BY DEF CtxInv, CtxTypeInv, ContextIsExact, InterestHistoryEndsNow
<1>2. value # None => e.ts >= value.ts
  BY <1>1, NoneIsNoEvent DEF Applies, IsOlder
<1>3. \A k \in 1..Len(s) : s[k].ts \in Nat
  BY <1>1, NoneIsNoEvent
<1>4. CASE IsSameSource(e, value) /\ s # <<>>
  <2>1. t = [s EXCEPT ![Len(s)] = e] /\ e.ts = value.ts
    BY <1>4 DEF OpenInterestRecorded, IsSameSource
  <2>2. /\ t \in Seq(Context) /\ Len(t) = Len(s) /\ t # <<>> /\ t[Len(t)] = e
        /\ \A k \in 1..Len(s) - 1 : t[k] = s[k]
    BY <1>1, <1>4, <2>1, Replaced
  <2>. HIDE DEF t
  <2>3. \A k \in 1..Len(t) - 1 : t[k].ts <= t[k + 1].ts
    <3>. SUFFICES ASSUME NEW k \in 1..Len(t) - 1
                  PROVE  t[k].ts <= t[k + 1].ts
      OBVIOUS
    <3>1. Len(s) \in Nat /\ s[k].ts <= s[k + 1].ts /\ t[k] = s[k]
      BY <1>1, <2>2
    <3>2. CASE k + 1 = Len(s)
      BY <1>1, <1>4, <2>1, <2>2, <3>1, <3>2
    <3>3. CASE k + 1 # Len(s)
      BY <2>2, <3>1, <3>3
    <3>. QED
      BY <3>2, <3>3
  <2>. QED
    BY <2>2, <2>3 DEF t
<1>5. CASE ~(IsSameSource(e, value) /\ s # <<>>) /\ Len(s) < OpenInterestHistorySize
  <2>1. t = Append(s, e)
    BY <1>5 DEF OpenInterestRecorded
  <2>2. /\ t \in Seq(Context) /\ Len(t) = Len(s) + 1 /\ t # <<>> /\ t[Len(t)] = e
        /\ \A k \in 1..Len(s) : t[k] = s[k]
    BY <1>1, <2>1, Grown
  <2>. HIDE DEF t
  <2>3. \A k \in 1..Len(t) - 1 : t[k].ts <= t[k + 1].ts
    <3>. SUFFICES ASSUME NEW k \in 1..Len(t) - 1
                  PROVE  t[k].ts <= t[k + 1].ts
      OBVIOUS
    <3>1. Len(s) \in Nat /\ k \in 1..Len(s) /\ t[k] = s[k] /\ s # <<>>
      BY <1>1, <2>2
    <3>2. CASE k = Len(s)
      <4>1. t[k] = value /\ t[k + 1] = e /\ e.ts >= value.ts
        BY <1>1, <1>2, <2>2, <3>1, <3>2
      <4>. QED
        BY <1>3, <3>1, <4>1
    <3>3. CASE k # Len(s)
      <4>1. k \in 1..Len(s) - 1 /\ k + 1 \in 1..Len(s)
        BY <3>1, <3>3
      <4>. QED
        BY <1>1, <2>2, <3>1, <4>1
    <3>. QED
      BY <3>2, <3>3
  <2>. QED
    BY <2>2, <2>3 DEF t
<1>6. CASE ~(IsSameSource(e, value) /\ s # <<>>) /\ ~(Len(s) < OpenInterestHistorySize)
  <2>1. t = Append(Tail(s), e) /\ s # <<>>
    BY <1>6, MarketDataAssumption DEF OpenInterestRecorded
  <2>2. /\ t \in Seq(Context) /\ Len(t) = Len(s) /\ t # <<>> /\ t[Len(t)] = e
        /\ \A k \in 1..Len(s) - 1 : t[k] = s[k + 1]
    BY <1>1, <2>1, Slid
  <2>. HIDE DEF t
  <2>3. \A k \in 1..Len(t) - 1 : t[k].ts <= t[k + 1].ts
    <3>. SUFFICES ASSUME NEW k \in 1..Len(t) - 1
                  PROVE  t[k].ts <= t[k + 1].ts
      OBVIOUS
    <3>1. Len(s) \in Nat /\ k \in 1..Len(s) - 1 /\ t[k] = s[k + 1]
      BY <1>1, <2>2
    <3>2. CASE k + 1 = Len(s)
      BY <1>1, <1>2, <2>1, <2>2, <3>1, <3>2
    <3>3. CASE k + 1 # Len(s)
      <4>1. k + 1 \in 1..Len(s) - 1
        BY <3>1, <3>3
      <4>2. t[k + 1] = s[k + 1 + 1] /\ s[k + 1].ts <= s[k + 1 + 1].ts
        BY <1>1, <2>2, <4>1
      <4>. QED
        BY <3>1, <4>2
    <3>. QED
      BY <3>2, <3>3
  <2>. QED
    BY <2>2, <2>3 DEF t
<1>. QED
  BY <1>4, <1>5, <1>6

LEMMA ContextKeeps ==
  ASSUME CtxInv, NEW e \in ContextEvents, ApplyContext(e)
  PROVE  CtxInv'
<1>1. /\ clock' = clock + 1 /\ UNCHANGED <<feed, trades, tradeIds>>
      /\ feed \in ContextKinds \ {"trade"}
  BY DEF ApplyContext
<1>2. clock' \in Nat
  BY <1>1 DEF CtxInv, CtxTypeInv
<1>3. e \in Context
  BY DEF ContextEvents, Context, CtxInv, CtxTypeInv
<1>4. CASE ~Applies(e)
  <2>1. UNCHANGED <<value, oiHistory, mark>>
    BY <1>4 DEF ApplyContext
  <2>. QED
    BY <1>1, <1>2, <2>1
       DEF CtxInv, CtxTypeInv, ContextIsExact, FreshnessIsOfTheData, TradeIdsExact,
           InterestHistoryEndsNow
<1>5. CASE Applies(e)
  <2>1. /\ value' = Merged(value, e) /\ mark' = e.received_at
        /\ oiHistory' = IF feed = "open_interest" THEN OpenInterestRecorded(e) ELSE oiHistory
    BY <1>5 DEF ApplyContext
  <2>2. /\ value' \in Context /\ value'.received_at = e.received_at /\ value' # None
        /\ feed # "ticker" => value' = e
    BY <1>3, <2>1, MergedFields, NoneIsNoEvent DEF CtxInv, CtxTypeInv
  <2>3. CtxTypeInv'
    <3>1. oiHistory' \in Seq(Context)
      BY <1>3, <1>5, <2>1, RecordedHistory DEF CtxInv, CtxTypeInv
    <3>. QED
      BY <1>1, <1>2, <2>2, <3>1 DEF CtxInv, CtxTypeInv
  <2>4. FreshnessIsOfTheData'
    BY <1>1, <2>1, <2>2 DEF FreshnessIsOfTheData
  <2>5. TradeIdsExact'
    BY <1>1 DEF CtxInv, ContextIsExact, TradeIdsExact
  <2>6. InterestHistoryEndsNow'
    <3>1. feed = "open_interest" =>
            /\ oiHistory' # <<>> /\ oiHistory'[Len(oiHistory')] = e
            /\ \A k \in 1..Len(oiHistory') - 1 : oiHistory'[k].ts <= oiHistory'[k + 1].ts
      BY <1>3, <1>5, <2>1, RecordedHistory
    <3>. QED
      BY <1>1, <2>2, <3>1 DEF InterestHistoryEndsNow
  <2>. QED
    BY <2>3, <2>4, <2>5, <2>6 DEF CtxInv, ContextIsExact
<1>. QED
  BY <1>4, <1>5

Ids(s) == {s[k].id : k \in 1..Len(s)}
TradesOrdered(s) ==
  \A j, k \in 1..Len(s) : j < k => s[j].id # s[k].id /\ s[j].ts <= s[k].ts

LEMMA TradesKept ==
  ASSUME CtxInv, NEW e \in Trade, TradeApplies(e),
         trades' = Append(IF Len(trades) = RecentTradeLimit THEN Tail(trades) ELSE trades, e),
         tradeIds' = TradeIdsAfter(e)
  PROVE  /\ trades' \in Seq(Trade) /\ Len(trades') <= RecentTradeLimit
         /\ trades' # <<>> /\ trades'[Len(trades')] = e /\ TradeIdsExact'
<1>. DEFINE s == trades
            t == trades'
<1>1. /\ s \in Seq(Trade) /\ Len(s) <= RecentTradeLimit
      /\ tradeIds = Ids(s) /\ TradesOrdered(s)
  BY DEF CtxInv, CtxTypeInv, ContextIsExact, TradeIdsExact, Ids, TradesOrdered
<1>2. /\ \A k \in 1..Len(s) : s[k].id # e.id
      /\ s # <<>> => e.ts >= s[Len(s)].ts
  <2>1. \A k \in 1..Len(s) : s[k].id # e.id
    BY <1>1 DEF TradeApplies, Ids
  <2>2. s # <<>> => s[Len(s)] \in Trade
    BY <1>1
  <2>3. s # <<>> => ~IsOlder(e, s[Len(s)])
    BY DEF TradeApplies
  <2>. QED
    BY <2>1, <2>2, <2>3, NoneIsNoEvent DEF IsOlder
<1>3. \A k \in 1..Len(s) : s[k].ts \in Nat /\ s[k].ts <= e.ts
  <2>1. \A k \in 1..Len(s) : s[k].ts \in Nat
    BY <1>1, NoneIsNoEvent
  <2>2. e.ts \in Nat
    BY NoneIsNoEvent
  <2>3. \A k \in 1..Len(s) : k = Len(s) \/ s[k].ts <= s[Len(s)].ts
    BY <1>1 DEF TradesOrdered
  <2>. QED
    BY <1>1, <1>2, <2>1, <2>2, <2>3
<1>4. CASE Len(s) # RecentTradeLimit
  <2>1. /\ t \in Seq(Trade) /\ Len(t) = Len(s) + 1 /\ t # <<>> /\ t[Len(t)] = e
        /\ \A k \in 1..Len(s) : t[k] = s[k]
    <3>. DEFINE u == Append(s, e)
    <3>1. t = u
      BY <1>4
    <3>2. /\ u \in Seq(Trade) /\ Len(u) = Len(s) + 1 /\ u # <<>> /\ u[Len(u)] = e
          /\ \A k \in 1..Len(s) : u[k] = s[k]
      BY <1>1, Grown
    <3>. QED
      BY <3>1, <3>2
  <2>2. tradeIds' = Ids(s) \cup {e.id}
    BY <1>1, <1>4 DEF TradeIdsAfter
  <2>. HIDE DEF t
  <2>3. Ids(t) = Ids(s) \cup {e.id}
    <3>1. Len(s) \in Nat
      BY <1>1
    <3>. QED
      BY <2>1, <3>1 DEF Ids
  <2>4. TradesOrdered(t)
    <3>. SUFFICES ASSUME NEW j \in 1..Len(t), NEW k \in 1..Len(t), j < k
                  PROVE  t[j].id # t[k].id /\ t[j].ts <= t[k].ts
      BY DEF TradesOrdered
    <3>1. Len(s) \in Nat /\ j \in 1..Len(s) /\ t[j] = s[j]
      BY <1>1, <2>1
    <3>2. CASE k = Len(t)
      BY <1>2, <1>3, <2>1, <3>1, <3>2
    <3>3. CASE k # Len(t)
      <4>1. k \in 1..Len(s) /\ t[k] = s[k]
        BY <2>1, <3>1, <3>3
      <4>. QED
        BY <1>1, <3>1, <4>1 DEF TradesOrdered
    <3>. QED
      BY <3>2, <3>3
  <2>5. TradeIdsExact'
    BY <2>2, <2>3, <2>4 DEF TradeIdsExact, Ids, TradesOrdered, t
  <2>6. Len(t) <= RecentTradeLimit
    BY <1>1, <1>4, <2>1, MarketDataAssumption
  <2>. QED
    BY <2>1, <2>5, <2>6 DEF t
<1>5. CASE Len(s) = RecentTradeLimit
  <2>0. s # <<>> /\ Len(s) \in Nat \ {0}
    BY <1>1, <1>5, MarketDataAssumption
  <2>1. /\ t \in Seq(Trade) /\ Len(t) = Len(s) /\ t # <<>> /\ t[Len(t)] = e
        /\ \A k \in 1..Len(s) - 1 : t[k] = s[k + 1]
    <3>1. t = Append(Tail(s), e)
      BY <1>5
    <3>. QED
      BY <1>1, <2>0, <3>1, Slid
  <2>2. tradeIds' = (Ids(s) \ {s[1].id}) \cup {e.id}
    BY <1>1, <1>5, <2>0 DEF TradeIdsAfter
  <2>. HIDE DEF t
  <2>3. Ids(t) = (Ids(s) \ {s[1].id}) \cup {e.id}
    <3>1. \A k \in 1..Len(s) : k # 1 => s[k].id # s[1].id
      BY <1>1, <2>0 DEF TradesOrdered
    <3>2. \A k \in 1..Len(s) : k # 1 => k - 1 \in 1..Len(s) - 1 /\ t[k - 1] = s[k]
      BY <2>0, <2>1
    <3>3. ASSUME NEW x \in Ids(t)
          PROVE  x \in (Ids(s) \ {s[1].id}) \cup {e.id}
      BY <2>0, <2>1, <3>1 DEF Ids
    <3>4. ASSUME NEW x \in (Ids(s) \ {s[1].id}) \cup {e.id}
          PROVE  x \in Ids(t)
      <4>1. CASE x = e.id
        BY <2>0, <2>1, <4>1 DEF Ids
      <4>2. CASE x # e.id
        BY <2>0, <2>1, <3>2, <4>2 DEF Ids
      <4>. QED
        BY <4>1, <4>2
    <3>. QED
      BY <3>3, <3>4
  <2>4. TradesOrdered(t)
    <3>. SUFFICES ASSUME NEW j \in 1..Len(t), NEW k \in 1..Len(t), j < k
                  PROVE  t[j].id # t[k].id /\ t[j].ts <= t[k].ts
      BY DEF TradesOrdered
    <3>1. j \in 1..Len(s) - 1 /\ j + 1 \in 1..Len(s) /\ t[j] = s[j + 1]
      BY <2>0, <2>1
    <3>2. CASE k = Len(t)
      BY <1>2, <1>3, <2>1, <3>1, <3>2
    <3>3. CASE k # Len(t)
      <4>1. k + 1 \in 1..Len(s) /\ t[k] = s[k + 1] /\ j + 1 < k + 1
        BY <2>0, <2>1, <3>1, <3>3
      <4>. QED
        BY <1>1, <3>1, <4>1 DEF TradesOrdered
    <3>. QED
      BY <3>2, <3>3
  <2>5. TradeIdsExact'
    BY <2>2, <2>3, <2>4 DEF TradeIdsExact, Ids, TradesOrdered, t
  <2>. QED
    BY <1>5, <2>1, <2>5 DEF t
<1>. QED
  BY <1>4, <1>5

LEMMA TradeKeeps ==
  ASSUME CtxInv, NEW e \in Trades, ApplyTrade(e)
  PROVE  CtxInv'
<1>1. clock' = clock + 1 /\ UNCHANGED <<feed, value, oiHistory>> /\ feed = "trade"
  BY DEF ApplyTrade
<1>2. clock' \in Nat
  BY <1>1 DEF CtxInv, CtxTypeInv
<1>3. e \in Trade
  BY DEF Trades, Trade, CtxInv, CtxTypeInv
<1>4. CASE ~TradeApplies(e)
  <2>1. UNCHANGED <<trades, tradeIds, mark>>
    BY <1>4 DEF ApplyTrade
  <2>. QED
    BY <1>1, <1>2, <2>1
       DEF CtxInv, CtxTypeInv, ContextIsExact, FreshnessIsOfTheData, TradeIdsExact,
           InterestHistoryEndsNow
<1>5. CASE TradeApplies(e)
  <2>1. /\ trades' = Append(IF Len(trades) = RecentTradeLimit THEN Tail(trades) ELSE trades, e)
        /\ tradeIds' = TradeIdsAfter(e) /\ mark' = e.received_at
    BY <1>5 DEF ApplyTrade
  <2>2. /\ trades' \in Seq(Trade) /\ Len(trades') <= RecentTradeLimit
        /\ trades' # <<>> /\ trades'[Len(trades')] = e /\ TradeIdsExact'
    BY <1>3, <1>5, <2>1, TradesKept
  <2>3. CtxTypeInv'
    BY <1>1, <1>2, <2>2 DEF CtxInv, CtxTypeInv
  <2>4. FreshnessIsOfTheData' /\ InterestHistoryEndsNow'
    BY <1>1, <2>1, <2>2 DEF FreshnessIsOfTheData, InterestHistoryEndsNow
  <2>. QED
    BY <2>2, <2>3, <2>4 DEF CtxInv, ContextIsExact
<1>. QED
  BY <1>4, <1>5

LEMMA NextContext ==
  ASSUME CtxInv, [Next]_vars
  PROVE  CtxInv'
<1>1. CASE CandleStep
  BY <1>1, CandlesKeep, StutterKeeps
<1>2. CASE ContextStep
  BY <1>2, ContextKeeps, TradeKeeps, InvalidateKeeps DEF ContextStep
<1>3. CASE UNCHANGED vars
  BY <1>3, StutterKeeps DEF vars
<1>. QED
  BY <1>1, <1>2, <1>3 DEF Next

\* What MarketState derives from the events agrees with the data at hand: the
\* freshness mark is the receive time of the value held, the ids that recognise
\* a repeated trade are those of the trades held, and the open-interest history
\* ends with the present value and never goes back in time.
THEOREM ContextIsExactHolds == Spec => []ContextIsExact
<1>1. CtxInv => ContextIsExact
  BY DEF CtxInv
<1>. QED
  BY <1>1, InitContext, NextContext, PTL DEF Spec

\* A late answer or a repeated event never replaces newer data.
LEMMA NeverOlderHolds == Spec => NeverOlder
<1>1. CtxInv /\ [Next]_vars => [value # None /\ value' # None => value'.ts >= value.ts]_vars
  <2>. SUFFICES ASSUME CtxInv, [Next]_vars, value # None, value' # None
                PROVE  value'.ts >= value.ts
    OBVIOUS
  <2>1. value \in Context /\ value.ts \in Nat
    BY NoneIsNoEvent DEF CtxInv, CtxTypeInv
  <2>2. CASE UNCHANGED value
    BY <2>1, <2>2
  <2>3. ASSUME NEW e \in ContextEvents, ApplyContext(e)
        PROVE  value'.ts >= value.ts
    <3>1. e \in Context
      BY DEF ContextEvents, Context, CtxInv, CtxTypeInv
    <3>2. CASE Applies(e)
      <4>1. value' = Merged(value, e) /\ e.ts >= value.ts
        BY <2>1, <2>3, <3>1, <3>2, NoneIsNoEvent DEF ApplyContext, Applies, IsOlder
      <4>. QED
        BY <2>1, <3>1, <4>1, MergedFields
    <3>3. CASE ~Applies(e)
      BY <2>1, <2>3, <3>3 DEF ApplyContext
    <3>. QED
      BY <3>2, <3>3
  <2>4. CASE CandleStep
    BY <2>2, <2>4, CandlesKeep DEF contextVars
  <2>5. CASE \E e \in Trades : ApplyTrade(e)
    BY <2>2, <2>5 DEF ApplyTrade
  <2>6. CASE Invalidate
    BY <2>6 DEF Invalidate
  <2>7. CASE UNCHANGED vars
    BY <2>2, <2>7 DEF vars, contextVars
  <2>. QED
    BY <2>3, <2>4, <2>5, <2>6, <2>7 DEF Next, ContextStep
<1>. QED
  BY <1>1, InitContext, NextContext, PTL DEF Spec, NeverOlder
-----------------------------------------------------------------------------
(* Induction and recursion.  A property of the numbers is a set of them,   *)
(* and a recursive function is an iteration of functions, so that neither  *)
(* needs an operator as a parameter.                                       *)

LEMMA Least ==
  ASSUME NEW T \in SUBSET Nat, T # {}
  PROVE  \E x \in T : \A y \in T : x <= y
<1>. DEFINE S == {0..n : n \in T}
            R == StrictSubsetOrdering(Nat)
            F == FiniteSubsetsOf(Nat)
<1>1. IsWellFoundedOn(R, F)
  BY FS_StrictSubsetOrderingWellFounded
<1>2. S # {}
  OBVIOUS
<1>3. S \subseteq F
  <2>1. \A n \in Nat : IsFiniteSet(0..n)
    BY FS_Interval
  <2>. QED
    BY <2>1 DEF FiniteSubsetsOf
<1>4. \A i, j \in Nat : i < j => <<0..i, 0..j>> \in R
  BY DEF StrictSubsetOrdering
<1>. HIDE DEF R, F, S
<1>5. PICK s \in S : \A r \in S : ~ (<<r, s>> \in R)
  BY <1>1, <1>2, <1>3, WFMin
<1>6. PICK x \in T : s = 0..x
  BY DEF S
<1>7. ASSUME NEW y \in T
      PROVE  x <= y
  <2>1. 0..y \in S
    BY DEF S
  <2>2. ~(<<0..y, 0..x>> \in R)
    BY <1>5, <1>6, <2>1
  <2>. QED
    BY <1>4, <2>2
<1>. QED
  BY <1>7

LEMMA SetInduction ==
  ASSUME NEW T, 0 \in T, \A n \in Nat : n \in T => n + 1 \in T
  PROVE  Nat \subseteq T
<1>1. SUFFICES ASSUME Nat \ T # {}
               PROVE  FALSE
  OBVIOUS
<1>2. PICK x \in Nat \ T : \A y \in Nat \ T : x <= y
  BY <1>1, Least
<1>3. x # 0 /\ x - 1 \in Nat /\ x - 1 \in T
  BY <1>2
<1>. QED
  BY <1>2, <1>3

\* f is what N functions, applied one after the other, make of a.
Iterates(f, F, N, a) == f[0] = a /\ \A n \in 1..N : f[n] = F[n][f[n - 1]]

LEMMA Iteration ==
  ASSUME NEW S, NEW N \in Nat, NEW a \in S, NEW F \in [1..N -> [S -> S]]
  PROVE  \E f \in [0..N -> S] : Iterates(f, F, N, a)
<1>. DEFINE Good(f, m) == f[0] = a /\ \A n \in 1..m : f[n] = F[n][f[n - 1]]
            T == {m \in Nat : m <= N => \E f \in [0..m -> S] : Good(f, m)}
<1>1. 0 \in T
  <2>1. [k \in 0..0 |-> a] \in [0..0 -> S] /\ Good([k \in 0..0 |-> a], 0)
    OBVIOUS
  <2>. QED
    BY <2>1
<1>2. ASSUME NEW m \in Nat, m \in T
      PROVE  m + 1 \in T
  <2>. SUFFICES ASSUME m + 1 <= N
                PROVE  \E f \in [0..m + 1 -> S] : Good(f, m + 1)
    OBVIOUS
  <2>1. PICK f \in [0..m -> S] : Good(f, m)
    BY <1>2
  <2>. DEFINE y == F[m + 1][f[m]]
              g == [k \in 0..m + 1 |-> IF k = m + 1 THEN y ELSE f[k]]
  <2>2. y \in S
    BY <2>1
  <2>3. /\ g \in [0..m + 1 -> S] /\ g[m + 1] = y
        /\ \A k \in 0..m : g[k] = f[k]
    BY <2>2
  <2>4. g[0] = a
    BY <2>1
  <2>5. ASSUME NEW n \in 1..m + 1
        PROVE  g[n] = F[n][g[n - 1]]
    <3>. HIDE DEF g
    <3>1. CASE n = m + 1
      BY <2>3, <3>1
    <3>2. CASE n # m + 1
      BY <2>1, <2>3, <3>2
    <3>. QED
      BY <3>1, <3>2
  <2>. QED
    BY <2>3, <2>4, <2>5
<1>. HIDE DEF T
<1>3. Nat \subseteq T
  BY <1>1, <1>2, SetInduction
<1>4. N \in T
  BY <1>3
<1>. QED
  BY <1>4 DEF T, Iterates

-----------------------------------------------------------------------------
(* Applying one candle to a window                                         *)

\* Candles as the venue's stream and its REST answers have them: whatever has
\* its final values is closed.
Bar == {c \in Candle : c.final => c.closed}

Sorted(w) == \A j, k \in 1..Len(w) : j < k => w[j].open < w[k].open
Windows == {w \in Seq(Bar) : Len(w) <= WindowSize /\ Sorted(w)}

LEMMA BarType ==
  ASSUME NEW c \in Bar
  PROVE  /\ c.open \in 1..LastCandle /\ c.open \in Int /\ c.closed \in BOOLEAN
         /\ c.final \in BOOLEAN /\ (c.final => c.closed)
BY MarketDataAssumption DEF Bar, Candle

LEMMA WindowType ==
  ASSUME NEW w \in Windows
  PROVE  /\ w \in Seq(Bar) /\ Len(w) \in Nat /\ Len(w) <= WindowSize /\ Sorted(w)
         /\ \A k \in 1..Len(w) : w[k] \in Bar /\ w[k].open \in Int /\ w[k].open <= w[Len(w)].open
<1>1. w \in Seq(Bar) /\ Len(w) \in Nat /\ Len(w) <= WindowSize /\ Sorted(w)
  BY DEF Windows
<1>2. ASSUME NEW k \in 1..Len(w)
      PROVE  w[k] \in Bar /\ w[k].open \in Int /\ w[k].open <= w[Len(w)].open
  <2>1. w[k] \in Bar /\ w[Len(w)] \in Bar /\ Len(w) \in 1..Len(w)
    BY <1>1
  <2>2. w[k].open \in Int /\ w[Len(w)].open \in Int
    BY <2>1, BarType
  <2>3. k = Len(w) \/ w[k].open < w[Len(w)].open
    BY <1>1, <2>1 DEF Sorted
  <2>. QED
    BY <2>1, <2>2, <2>3
<1>. QED
  BY <1>1, <1>2

\* What upsert does: the window stays bounded and sorted and reaches at least
\* to the candle; it holds the candle, if that was accepted, and others it held;
\* and the next candle leaves no hole.
Upserts(w, c, t) ==
  /\ t \in Windows /\ t # <<>>
  /\ c.open <= t[Len(t)].open
  /\ w # <<>> => w[Len(w)].open <= t[Len(t)].open
  /\ \A k \in 1..Len(t) :
       (t[k] = c /\ Accepts(w, c)) \/ (\E j \in 1..Len(w) : t[k] = w[j])
  /\ Accepts(w, c) => \A k \in 1..Len(t) : t[k].open = c.open => t[k] = c
  /\ w # <<>> /\ c.open <= w[Len(w)].open + 1 /\ NoHoles(w) => NoHoles(t)

LEMMA RefusedKeeps ==
  ASSUME NEW w \in Windows, NEW c \in Bar, ~Accepts(w, c)
  PROVE  Upsert(w, c) = w /\ Upserts(w, c, w)
<1>1. Upsert(w, c) = w
  BY DEF Upsert
<1>2. w # <<>> /\ ~(c.open > w[Len(w)].open) /\ Len(w) \in 1..Len(w)
  BY WindowType DEF Accepts
<1>3. w[Len(w)].open \in Int /\ c.open \in Int
  BY <1>2, WindowType, BarType
<1>4. c.open <= w[Len(w)].open /\ w[Len(w)].open <= w[Len(w)].open
  BY <1>2, <1>3
<1>. QED
  BY <1>1, <1>2, <1>4 DEF Upserts

LEMMA ReplacedKeeps ==
  ASSUME NEW w \in Windows, NEW c \in Bar, Accepts(w, c), Places(w, c) # {}
  PROVE  Upserts(w, c, Upsert(w, c))
<1>. DEFINE t == [k \in DOMAIN w |-> IF w[k].open = c.open THEN c ELSE w[k]]
<1>1. Upsert(w, c) = t
  BY DEF Upsert
<1>2. w \in Seq(Bar) /\ Len(w) \in Nat /\ Len(w) <= WindowSize /\ DOMAIN w = 1..Len(w)
  BY WindowType
<1>3. \A k \in 1..Len(w) : t[k] = IF w[k].open = c.open THEN c ELSE w[k]
  BY <1>2
<1>4. t \in [1..Len(w) -> Bar]
  BY <1>2
<1>5. t \in Seq(Bar) /\ Len(t) = Len(w)
  BY <1>2, <1>4
<1>. HIDE DEF t
<1>6. \A k \in 1..Len(w) : t[k].open = w[k].open
  BY <1>3
<1>7. Sorted(t)
  BY <1>5, <1>6, WindowType DEF Sorted
<1>8. t \in Windows
  BY <1>2, <1>5, <1>7 DEF Windows
<1>9. PICK p \in 1..Len(w) : w[p].open = c.open
  BY DEF Places
<1>10. Len(w) \in 1..Len(w) /\ t # <<>> /\ w[p].open <= w[Len(w)].open
  BY <1>2, <1>5, <1>9, WindowType
<1>11. t[Len(t)].open = w[Len(w)].open /\ w[Len(w)].open \in Int
  BY <1>5, <1>6, <1>10, WindowType
<1>12. /\ c.open <= t[Len(t)].open /\ w[Len(w)].open <= t[Len(t)].open
  BY <1>9, <1>10, <1>11
<1>13. \A k \in 1..Len(t) : t[k] = c \/ t[k] = w[k]
  BY <1>3, <1>5
<1>14. \A k \in 1..Len(t) : t[k].open = c.open => t[k] = c
  BY <1>3, <1>5, <1>6
<1>15. NoHoles(w) => NoHoles(t)
  <2>. SUFFICES ASSUME NoHoles(w), NEW k \in 1..Len(t) - 1
                PROVE  t[k + 1].open = t[k].open + 1
    BY DEF NoHoles
  <2>1. k \in 1..Len(w) /\ k + 1 \in 1..Len(w) /\ k \in 1..Len(w) - 1
    BY <1>2, <1>5
  <2>. QED
    BY <1>6, <2>1 DEF NoHoles
<1>. QED
  BY <1>1, <1>5, <1>8, <1>10, <1>12, <1>13, <1>14, <1>15 DEF Upserts

LEMMA Shifted ==
  ASSUME NEW n \in Nat, NEW m \in Nat, NEW d \in Nat, m = n - d + 1, NEW k \in 1..m, k # m
  PROVE  k + d \in 1..n /\ k \in 1..n - d
OBVIOUS

\* The candle joins at the end of what is kept of the window.
LEMMA JoinedKeeps ==
  ASSUME NEW w \in Windows, NEW c \in Bar, Accepts(w, c), Places(w, c) = {}, NEW t \in Seq(Bar),
         NEW d \in Nat, Len(t) = Len(w) - d + 1, d <= Len(w), Len(t) <= WindowSize, t[Len(t)] = c,
         \A k \in 1..Len(w) - d : t[k] = w[k + d]
  PROVE  Upserts(w, c, t)
<1>1. w = <<>> \/ c.open > w[Len(w)].open
  BY DEF Accepts
<1>2. Len(w) \in Nat /\ Len(t) \in Nat /\ t # <<>> /\ Len(t) \in 1..Len(t)
  BY WindowType
<1>3. c.open \in Int
  BY BarType
<1>4. \A k \in 1..Len(w) : w[k].open \in Int /\ w[k].open < c.open
  <2>. TAKE k \in 1..Len(w)
  <2>1. w # <<>> /\ Len(w) \in 1..Len(w)
    BY <1>2
  <2>2. w[k].open \in Int /\ w[Len(w)].open \in Int /\ w[k].open <= w[Len(w)].open
    BY <2>1, WindowType
  <2>. QED
    BY <1>1, <1>3, <2>1, <2>2
<1>5. \A k \in 1..Len(t) : k # Len(t) => k + d \in 1..Len(w) /\ k \in 1..Len(w) - d
  <2>. SUFFICES ASSUME NEW k \in 1..Len(t), k # Len(t)
                PROVE  k + d \in 1..Len(w) /\ k \in 1..Len(w) - d
    OBVIOUS
  <2>. QED
    BY <1>2, Shifted
<1>6. \A k \in 1..Len(t) : k # Len(t) => t[k] = w[k + d]
  BY <1>5
<1>7. Sorted(t)
  <2>. SUFFICES ASSUME NEW j \in 1..Len(t), NEW k \in 1..Len(t), j < k
                PROVE  t[j].open < t[k].open
    BY DEF Sorted
  <2>1. j # Len(t) /\ j + d < k + d
    BY <1>2
  <2>2. CASE k = Len(t)
    BY <1>4, <1>5, <1>6, <2>1, <2>2
  <2>3. CASE k # Len(t)
    <3>1. t[j] = w[j + d] /\ t[k] = w[k + d] /\ j + d \in 1..Len(w) /\ k + d \in 1..Len(w)
      BY <1>5, <1>6, <2>1, <2>3
    <3>. QED
      BY <2>1, <3>1, WindowType DEF Sorted
  <2>. QED
    BY <2>2, <2>3
<1>8. t \in Windows
  BY <1>7 DEF Windows
<1>9. c.open <= t[Len(t)].open
  BY <1>3
<1>10. w # <<>> => w[Len(w)].open <= t[Len(t)].open
  <2>1. w # <<>> => Len(w) \in 1..Len(w)
    BY <1>2
  <2>. QED
    BY <1>3, <1>4, <2>1
<1>11. \A k \in 1..Len(t) : t[k] = c \/ (\E j \in 1..Len(w) : t[k] = w[j])
  BY <1>5, <1>6
<1>12. \A k \in 1..Len(t) : t[k].open = c.open => t[k] = c
  <2>. TAKE k \in 1..Len(t)
  <2>1. CASE k # Len(t)
    <3>1. t[k] = w[k + d] /\ w[k + d].open < c.open /\ w[k + d].open \in Int
      BY <1>4, <1>5, <1>6, <2>1
    <3>. QED
      BY <1>3, <3>1
  <2>. QED
    BY <2>1
<1>13. w # <<>> /\ c.open <= w[Len(w)].open + 1 /\ NoHoles(w) => NoHoles(t)
  <2>. SUFFICES ASSUME w # <<>>, c.open <= w[Len(w)].open + 1, NoHoles(w),
                       NEW k \in 1..Len(t) - 1
                PROVE  t[k + 1].open = t[k].open + 1
    BY DEF NoHoles
  <2>1. k \in 1..Len(t) /\ k # Len(t) /\ k + 1 \in 1..Len(t)
    BY <1>2
  <2>2. k + d \in 1..Len(w) /\ t[k] = w[k + d]
    BY <1>5, <1>6, <2>1
  <2>3. CASE k + 1 = Len(t)
    <3>1. k + d = Len(w) /\ t[k + 1] = c
      BY <1>2, <2>1, <2>3
    <3>2. t[k] = w[Len(w)] /\ Len(w) \in 1..Len(w)
      BY <2>2, <3>1
    <3>3. w[Len(w)].open \in Int /\ c.open > w[Len(w)].open
      BY <1>1, <1>4, <3>2
    <3>4. c.open = w[Len(w)].open + 1
      BY <1>3, <3>3
    <3>. QED
      BY <3>1, <3>2, <3>4
  <2>4. CASE k + 1 # Len(t)
    <3>1. t[k + 1] = w[(k + 1) + d] /\ (k + 1) + d \in 1..Len(w)
      BY <1>5, <1>6, <2>1, <2>4
    <3>2. (k + 1) + d = (k + d) + 1 /\ k + d \in 1..Len(w) - 1
      BY <1>2, <2>2, <3>1
    <3>. QED
      BY <2>2, <3>1, <3>2 DEF NoHoles
  <2>. QED
    BY <2>3, <2>4
<1>. QED
  BY <1>2, <1>8, <1>9, <1>10, <1>11, <1>12, <1>13 DEF Upserts

LEMMA UpsertFacts ==
  ASSUME NEW w \in Windows, NEW c \in Bar
  PROVE  Upserts(w, c, Upsert(w, c))
<1>. DEFINE t == Upsert(w, c)
<1>0. w \in Seq(Bar) /\ Len(w) \in Nat /\ Len(w) <= WindowSize /\ WindowSize \in Nat \ {0}
  BY WindowType, MarketDataAssumption
<1>1. CASE ~Accepts(w, c)
  BY <1>1, RefusedKeeps
<1>2. CASE Accepts(w, c) /\ Places(w, c) # {}
  BY <1>2, ReplacedKeeps
<1>3. CASE Accepts(w, c) /\ Places(w, c) = {} /\ Len(w) < WindowSize
  <2>1. t = Append(w, c)
    BY <1>3 DEF Upsert
  <2>2. /\ t \in Seq(Bar) /\ Len(t) = Len(w) + 1 /\ t[Len(t)] = c
        /\ \A k \in 1..Len(w) : t[k] = w[k]
    BY <1>0, <2>1, Grown
  <2>. HIDE DEF t
  <2>3. /\ 0 \in Nat /\ Len(t) = Len(w) - 0 + 1 /\ 0 <= Len(w) /\ Len(t) <= WindowSize
        /\ \A k \in 1..Len(w) - 0 : t[k] = w[k + 0]
    BY <1>0, <1>3, <2>2
  <2>4. Upserts(w, c, t)
    BY <1>3, <2>2, <2>3, JoinedKeeps
  <2>. QED
    BY <2>4 DEF t
<1>4. CASE Accepts(w, c) /\ Places(w, c) = {} /\ ~(Len(w) < WindowSize)
  <2>0. w # <<>>
    BY <1>0, <1>4
  <2>1. t = Append(Tail(w), c)
    BY <1>4 DEF Upsert
  <2>2. /\ t \in Seq(Bar) /\ Len(t) = Len(w) /\ t[Len(t)] = c
        /\ \A k \in 1..Len(w) - 1 : t[k] = w[k + 1]
    BY <1>0, <2>0, <2>1, Slid
  <2>. HIDE DEF t
  <2>3. /\ 1 \in Nat /\ Len(t) = Len(w) - 1 + 1 /\ 1 <= Len(w) /\ Len(t) <= WindowSize
    BY <1>0, <1>4, <2>2
  <2>4. Upserts(w, c, t)
    BY <1>4, <2>2, <2>3, JoinedKeeps
  <2>. QED
    BY <2>4 DEF t
<1>. QED
  BY <1>1, <1>2, <1>3, <1>4

-----------------------------------------------------------------------------
(* Applying the candles of an answer                                       *)

Counts == [1..LastCandle -> Nat]
Markets == [window : Windows, handled : Counts]

LEMMA AppliedType ==
  ASSUME NEW m \in Markets, NEW c \in Bar
  PROVE  Applied(m, c) \in Markets
<1>1. m.window \in Windows /\ m.handled \in Counts
  BY DEF Markets
<1>2. Upsert(m.window, c) \in Windows
  BY <1>1, UpsertFacts DEF Upserts
<1>3. ASSUME NEW h \in Counts, NEW i \in 1..LastCandle
      PROVE  [h EXCEPT ![i] = @ + 1] \in Counts
  BY DEF Counts
<1>4. c.open \in 1..LastCandle
  BY BarType
<1>. QED
  BY <1>1, <1>2, <1>3, <1>4 DEF Applied, Markets

\* G[n] holds what may be true of the market after n candles.
StepwiseKept(G, cs) ==
  \A n \in 1..Len(cs), m \in Markets : m \in G[n - 1] => Applied(m, cs[n]) \in G[n]

\* What holds at the start and is kept by each candle holds at the end.
LEMMA ApplyManyKeeps ==
  ASSUME NEW w \in Windows, NEW h \in Counts, NEW cs \in Seq(Bar), NEW G,
         [window |-> w, handled |-> h] \in G[0], StepwiseKept(G, cs)
  PROVE  ApplyMany(w, h, cs) \in Markets /\ ApplyMany(w, h, cs) \in G[Len(cs)]
<1>. DEFINE N == Len(cs)
            a == [window |-> w, handled |-> h]
            F == [n \in 1..N |-> [m \in Markets |-> Applied(m, cs[n])]]
            Eq(f) == f = [n \in 0..N |-> IF n = 0 THEN a ELSE Applied(f[n - 1], cs[n])]
            g == CHOOSE f : Eq(f)
<1>1. N \in Nat /\ \A n \in 1..N : cs[n] \in Bar
  OBVIOUS
<1>2. a \in Markets
  BY DEF Markets
<1>3. F \in [1..N -> [Markets -> Markets]]
  BY <1>1, AppliedType
<1>4. \A n \in 1..N, m \in Markets : F[n][m] = Applied(m, cs[n])
  OBVIOUS
<1>5. \E f : Eq(f)
  <2>. HIDE DEF F, a
  <2>1. PICK f \in [0..N -> Markets] : f[0] = a /\ \A n \in 1..N : f[n] = F[n][f[n - 1]]
    <3>. HIDE DEF N
    <3>1. N \in Nat
      BY <1>1
    <3>2. \E f \in [0..N -> Markets] : Iterates(f, F, N, a)
      BY <1>2, <1>3, <3>1, Iteration
    <3>. QED
      BY <3>2 DEF Iterates
  <2>2. \A n \in 1..N : f[n] = Applied(f[n - 1], cs[n])
    <3>. TAKE n \in 1..N
    <3>1. n - 1 \in 0..N
      BY <1>1
    <3>2. f[n - 1] \in Markets
      BY <2>1, <3>1
    <3>3. f[n] = F[n][f[n - 1]]
      BY <2>1
    <3>. QED
      BY <1>4, <3>2, <3>3
  <2>3. \A n \in 0..N : f[n] = IF n = 0 THEN a ELSE Applied(f[n - 1], cs[n])
    BY <1>1, <2>1, <2>2
  <2>4. Eq(f)
    BY <2>1, <2>3
  <2>. QED
    BY <2>4
<1>6. ApplyMany(w, h, cs) = g[N]
  BY DEF ApplyMany
<1>7. Eq(g)
  <2>. HIDE DEF Eq
  <2>. QED
    BY <1>5
<1>. HIDE DEF g, a, F
<1>8. g[0] = a /\ \A n \in 1..N : g[n] = Applied(g[n - 1], cs[n])
  BY <1>1, <1>7
<1>. HIDE DEF Eq
<1>. DEFINE T == {n \in Nat : n <= N => g[n] \in Markets /\ g[n] \in G[n]}
<1>9. 0 \in T
  BY <1>2, <1>8 DEF a
<1>10. ASSUME NEW n \in Nat, n \in T
       PROVE  n + 1 \in T
  <2>. SUFFICES ASSUME n + 1 <= N
                PROVE  g[n + 1] \in Markets /\ g[n + 1] \in G[n + 1]
    OBVIOUS
  <2>1. n + 1 \in 1..N /\ (n + 1) - 1 = n /\ g[n] \in Markets /\ g[n] \in G[n]
    BY <1>1, <1>10
  <2>2. g[n + 1] = Applied(g[n], cs[n + 1])
    BY <1>8, <2>1
  <2>3. Applied(g[n], cs[n + 1]) \in G[n + 1]
    BY <2>1 DEF StepwiseKept
  <2>. QED
    BY <1>1, <2>1, <2>2, <2>3, AppliedType
<1>. HIDE DEF T
<1>11. Nat \subseteq T
  BY <1>9, <1>10, SetInduction
<1>. QED
  BY <1>1, <1>6, <1>11 DEF T

\* What ClosedOf returns is closed and comes from the window.
LEMMA ClosedOfFacts ==
  ASSUME NEW w \in Seq(Bar)
  PROVE  /\ ClosedOf(w) \in Seq(Bar)
         /\ \A k \in 1..Len(ClosedOf(w)) :
              ClosedOf(w)[k].closed /\ \E j \in 1..Len(w) : ClosedOf(w)[k] = w[j]
<1>. DEFINE N == Len(w)
            S == Seq({w[j] : j \in {i \in 1..N : w[i].closed}})
            F == [n \in 1..N |-> [s \in S |-> IF w[n].closed THEN Append(s, w[n]) ELSE s]]
            Eq(f) == f = [n \in 0..N |->
              IF n = 0 THEN <<>>
              ELSE IF w[n].closed THEN Append(f[n - 1], w[n]) ELSE f[n - 1]]
            g == CHOOSE f : Eq(f)
<1>1. N \in Nat
  OBVIOUS
<1>2. <<>> \in S
  OBVIOUS
<1>3. \A n \in 1..N, s \in S : (IF w[n].closed THEN Append(s, w[n]) ELSE s) \in S
  <2>. DEFINE C == {w[j] : j \in {i \in 1..N : w[i].closed}}
  <2>1. \A n \in 1..N : w[n].closed => w[n] \in C
    OBVIOUS
  <2>2. S = Seq(C)
    OBVIOUS
  <2>. HIDE DEF C, S
  <2>3. \A s \in S, c \in C : Append(s, c) \in S
    BY <2>2
  <2>. QED
    BY <2>1, <2>3
<1>. HIDE DEF S
<1>4. F \in [1..N -> [S -> S]]
  BY <1>3
<1>5. \A n \in 1..N, s \in S : F[n][s] = IF w[n].closed THEN Append(s, w[n]) ELSE s
  OBVIOUS
<1>6. \E f : Eq(f)
  <2>. HIDE DEF F
  <2>1. PICK f \in [0..N -> S] : f[0] = <<>> /\ \A n \in 1..N : f[n] = F[n][f[n - 1]]
    <3>. HIDE DEF N
    <3>1. N \in Nat
      BY <1>1
    <3>2. \E f \in [0..N -> S] : Iterates(f, F, N, <<>>)
      BY <1>2, <1>4, <3>1, Iteration
    <3>. QED
      BY <3>2 DEF Iterates
  <2>2. \A n \in 1..N : f[n] = IF w[n].closed THEN Append(f[n - 1], w[n]) ELSE f[n - 1]
    <3>. TAKE n \in 1..N
    <3>1. n - 1 \in 0..N
      BY <1>1
    <3>2. f[n - 1] \in S
      BY <2>1, <3>1
    <3>3. f[n] = F[n][f[n - 1]]
      BY <2>1
    <3>. QED
      BY <1>5, <3>2, <3>3
  <2>3. \A n \in 0..N :
          f[n] = IF n = 0 THEN <<>>
                 ELSE IF w[n].closed THEN Append(f[n - 1], w[n]) ELSE f[n - 1]
    <3>1. \A n \in 0..N : n = 0 \/ n \in 1..N
      BY <1>1
    <3>2. f[0] = <<>> /\ \A n \in 1..N : n # 0
      BY <2>1
    <3>. QED
      BY <2>2, <3>1, <3>2
  <2>4. Eq(f)
    BY <2>1, <2>3
  <2>. QED
    BY <2>4
<1>7. ClosedOf(w) = g[N]
  BY DEF ClosedOf
<1>8. Eq(g)
  <2>. HIDE DEF Eq
  <2>. QED
    BY <1>6
<1>. HIDE DEF g, F
<1>9. /\ g[0] = <<>>
      /\ \A n \in 1..N : g[n] = IF w[n].closed THEN Append(g[n - 1], w[n]) ELSE g[n - 1]
  <2>1. \A n \in 0..N :
          g[n] = IF n = 0 THEN <<>>
                 ELSE IF w[n].closed THEN Append(g[n - 1], w[n]) ELSE g[n - 1]
    BY <1>8, Zenon
  <2>2. 0 \in 0..N /\ \A n \in 1..N : n \in 0..N /\ n # 0
    BY <1>1
  <2>. QED
    BY <2>1, <2>2
<1>. HIDE DEF Eq
<1>. DEFINE T == {n \in Nat : n <= N => g[n] \in S}
<1>10. 0 \in T
  BY <1>2, <1>9
<1>11. ASSUME NEW n \in Nat, n \in T
       PROVE  n + 1 \in T
  <2>. SUFFICES ASSUME n + 1 <= N
                PROVE  g[n + 1] \in S
    OBVIOUS
  <2>1. n + 1 \in 1..N /\ (n + 1) - 1 = n /\ g[n] \in S
    BY <1>1, <1>11
  <2>2. g[n + 1] = IF w[n + 1].closed THEN Append(g[n], w[n + 1]) ELSE g[n]
    BY <1>9, <2>1
  <2>. QED
    BY <1>3, <2>1, <2>2
<1>. HIDE DEF T
<1>12. Nat \subseteq T
  BY <1>10, <1>11, SetInduction
<1>13. ClosedOf(w) \in S
  BY <1>1, <1>7, <1>12 DEF T
<1>14. S \subseteq Seq(Bar)
  BY DEF S
<1>. QED
  BY <1>13, <1>14 DEF S

-----------------------------------------------------------------------------
(* What one candle keeps                                                   *)

\* The final values of candle i are in the window, or it can no longer enter.
Settled(i, w) ==
  /\ w # <<>> /\ i <= w[Len(w)].open
  /\ \A k \in 1..Len(w) : w[k].open = i => w[k].final

\* The same of a closed candle i, whatever its values.
Shut(i, w) ==
  /\ w # <<>> /\ i <= w[Len(w)].open
  /\ \A k \in 1..Len(w) : w[k].open = i => w[k].closed

FinalBelow(w, b) == \A k \in 1..Len(w) : w[k].final => w[k].open < b
ClosedFinal(w) == \A k \in 1..Len(w) : w[k].closed => w[k].final

\* Closed with preliminary values only where no final values can be overwritten.
Safe(w, c) == c.final \/ ~c.closed \/ FinalBelow(w, c.open)

Once(m) ==
  \A i \in 1..LastCandle :
    m.handled[i] = 0 \/ (m.handled[i] = 1 /\ Settled(i, m.window))

\* A candle that replaces one of the window was not refused by it.
LEMMA NotRefused ==
  ASSUME NEW w \in Windows, NEW c \in Bar, Accepts(w, c), w # <<>>, c.open <= w[Len(w)].open
  PROVE  \E j \in 1..Len(w) : w[j].open = c.open /\ ~Refuses(w[j], c)
<1>1. w[Len(w)].open \in Int /\ c.open \in Int
  <2>1. Len(w) \in 1..Len(w)
    BY WindowType
  <2>. QED
    BY <2>1, WindowType, BarType
<1>2. ~(c.open > w[Len(w)].open)
  BY <1>1
<1>. QED
  BY <1>2 DEF Accepts, Places

LEMMA UpsertSettled ==
  ASSUME NEW w \in Windows, NEW c \in Bar, Safe(w, c), NEW i \in Int, Settled(i, w)
  PROVE  Settled(i, Upsert(w, c))
<1>. DEFINE t == Upsert(w, c)
<1>1. Upserts(w, c, t)
  BY UpsertFacts
<1>. HIDE DEF t
<1>2. w # <<>> /\ t # <<>> /\ w[Len(w)].open <= t[Len(t)].open /\ i <= w[Len(w)].open
  BY <1>1 DEF Upserts, Settled
<1>3. w[Len(w)].open \in Int /\ t[Len(t)].open \in Int
  <2>1. Len(w) \in 1..Len(w) /\ Len(t) \in 1..Len(t) /\ t \in Windows
    BY <1>1, <1>2, WindowType DEF Upserts
  <2>. QED
    BY <2>1, WindowType
<1>4. ASSUME NEW k \in 1..Len(t), t[k].open = i
      PROVE  t[k].final
  <2>1. CASE \E j \in 1..Len(w) : t[k] = w[j]
    BY <1>4, <2>1 DEF Settled
  <2>2. CASE t[k] = c /\ Accepts(w, c)
    <3>1. PICK j \in 1..Len(w) : w[j].open = c.open /\ ~Refuses(w[j], c)
      BY <1>2, <1>4, <2>2, NotRefused
    <3>2. w[j].final /\ w[j].closed /\ w[j].final \in BOOLEAN
      BY <1>4, <2>2, <3>1, WindowType, BarType DEF Settled
    <3>3. c.closed \in BOOLEAN /\ c.final \in BOOLEAN /\ c.open \in Int
      BY BarType
    <3>4. c.closed /\ c.final # w[j].final
      BY <3>1, <3>2, <3>3 DEF Refuses, IsDuplicate
    <3>5. FinalBelow(w, c.open)
      BY <3>2, <3>3, <3>4 DEF Safe
    <3>6. w[j].open < c.open
      BY <3>2, <3>5 DEF FinalBelow
    <3>. QED
      BY <3>1, <3>3, <3>6
  <2>. QED
    BY <1>1, <2>1, <2>2 DEF Upserts
<1>5. i <= t[Len(t)].open
  BY <1>2, <1>3
<1>. QED
  BY <1>2, <1>4, <1>5 DEF Settled, t

LEMMA UpsertShut ==
  ASSUME NEW w \in Windows, NEW c \in Bar, NEW i \in Int, Shut(i, w)
  PROVE  Shut(i, Upsert(w, c))
<1>. DEFINE t == Upsert(w, c)
<1>1. Upserts(w, c, t)
  BY UpsertFacts
<1>. HIDE DEF t
<1>2. w # <<>> /\ t # <<>> /\ w[Len(w)].open <= t[Len(t)].open /\ i <= w[Len(w)].open
  BY <1>1 DEF Upserts, Shut
<1>3. w[Len(w)].open \in Int /\ t[Len(t)].open \in Int
  <2>1. Len(w) \in 1..Len(w) /\ Len(t) \in 1..Len(t) /\ t \in Windows
    BY <1>1, <1>2, WindowType DEF Upserts
  <2>. QED
    BY <2>1, WindowType
<1>4. ASSUME NEW k \in 1..Len(t), t[k].open = i
      PROVE  t[k].closed
  <2>1. CASE \E j \in 1..Len(w) : t[k] = w[j]
    BY <1>4, <2>1 DEF Shut
  <2>2. CASE t[k] = c /\ Accepts(w, c)
    <3>1. PICK j \in 1..Len(w) : w[j].open = c.open /\ ~Refuses(w[j], c)
      BY <1>2, <1>4, <2>2, NotRefused
    <3>2. w[j].closed
      BY <1>4, <2>2, <3>1 DEF Shut
    <3>. QED
      BY <2>2, <3>1, <3>2 DEF Refuses
  <2>. QED
    BY <1>1, <2>1, <2>2 DEF Upserts
<1>5. i <= t[Len(t)].open
  BY <1>2, <1>3
<1>. QED
  BY <1>2, <1>4, <1>5 DEF Shut, t

\* Final values are accepted once.
LEMMA UpsertSettles ==
  ASSUME NEW w \in Windows, NEW c \in Bar, Accepts(w, c), c.final
  PROVE  ~Settled(c.open, w) /\ Settled(c.open, Upsert(w, c))
<1>1. Upserts(w, c, Upsert(w, c))
  BY UpsertFacts
<1>2. Settled(c.open, Upsert(w, c))
  BY <1>1 DEF Upserts, Settled
<1>3. ASSUME Settled(c.open, w)
      PROVE  FALSE
  <2>1. PICK j \in 1..Len(w) : w[j].open = c.open /\ ~Refuses(w[j], c)
    BY <1>3, NotRefused DEF Settled
  <2>2. w[j].final /\ w[j].closed /\ w[j].final \in BOOLEAN
    BY <1>3, <2>1, WindowType, BarType DEF Settled
  <2>3. c.closed /\ c.final \in BOOLEAN
    BY BarType
  <2>. QED
    BY <2>1, <2>2, <2>3 DEF Refuses, IsDuplicate
<1>. QED
  BY <1>2, <1>3

\* What the candles of an answer keep of a window w, as long as none of them
\* has preliminary values below b and final values from b on.
Kept(w, b) ==
  {m \in Markets :
    /\ FinalBelow(m.window, b) /\ Once(m)
    /\ ~byClock => ClosedFinal(m.window)
    /\ \A i \in Int : (Settled(i, w) => Settled(i, m.window)) /\ (Shut(i, w) => Shut(i, m.window))}

LEMMA AppliedKeeps ==
  ASSUME NEW w, NEW b \in Int, NEW m \in Kept(w, b), NEW c \in Bar, Safe(m.window, c),
         c.final => c.open < b, ~byClock => (c.closed => c.final)
  PROVE  Applied(m, c) \in Kept(w, b)
<1>. DEFINE v == m.window
            t == Upsert(v, c)
            r == Applied(m, c)
<1>1. m \in Markets /\ v \in Windows /\ m.handled \in Counts
  BY DEF Kept, Markets
<1>2. r \in Markets
  BY <1>1, AppliedType
<1>3. /\ r.window = t
      /\ r.handled = IF Accepts(v, c) /\ c.closed /\ c.final
                     THEN [m.handled EXCEPT ![c.open] = @ + 1] ELSE m.handled
  BY DEF Applied
<1>4. Upserts(v, c, t)
  BY <1>1, UpsertFacts
<1>. HIDE DEF r, t, v
<1>5. \A k \in 1..Len(t) : t[k] = c \/ \E j \in 1..Len(v) : t[k] = v[j]
  BY <1>4 DEF Upserts
<1>6. FinalBelow(t, b)
  BY <1>5 DEF FinalBelow, Kept, v
<1>7. ~byClock => ClosedFinal(t)
  BY <1>5 DEF ClosedFinal, Kept, v
<1>8. ASSUME NEW i \in Int
      PROVE  (Settled(i, v) => Settled(i, t)) /\ (Shut(i, v) => Shut(i, t))
  BY <1>1, UpsertSettled, UpsertShut DEF t, v
<1>9. Once(r)
  <2>. SUFFICES ASSUME NEW i \in 1..LastCandle
                PROVE  r.handled[i] = 0 \/ (r.handled[i] = 1 /\ Settled(i, t))
    BY <1>3 DEF Once
  <2>1. m.handled[i] = 0 \/ (m.handled[i] = 1 /\ Settled(i, v) /\ Settled(i, t))
    <3>1. i \in Int
      BY MarketDataAssumption
    <3>. QED
      BY <1>8, <3>1 DEF Kept, Once, v
  <2>2. CASE Accepts(v, c) /\ c.final /\ i = c.open
    <3>1. c.closed
      BY <2>2, BarType
    <3>2. ~Settled(i, v) /\ Settled(i, t)
      BY <1>1, <2>2, UpsertSettles DEF t
    <3>3. m.handled[i] = 0
      BY <2>1, <3>2
    <3>4. r.handled[i] = m.handled[i] + 1
      BY <1>1, <1>3, <2>2, <3>1 DEF Counts
    <3>. QED
      BY <3>2, <3>3, <3>4
  <2>3. CASE ~(Accepts(v, c) /\ c.final /\ i = c.open)
    <3>1. r.handled[i] = m.handled[i]
      BY <1>1, <1>3, <2>3 DEF Counts
    <3>. QED
      BY <2>1, <3>1
  <2>. QED
    BY <2>2, <2>3
<1>10. \A i \in Int : (Settled(i, w) => Settled(i, t)) /\ (Shut(i, w) => Shut(i, t))
  BY <1>8 DEF Kept, v
<1>. QED
  BY <1>2, <1>3, <1>6, <1>7, <1>9, <1>10 DEF Kept, r

\* The rows of an answer: consecutive candles up to s, all final but the last.
LEMMA RowsFacts ==
  ASSUME newest \in 2..LastCandle, NEW s \in 2..newest, NEW limit \in Nat \ {0}
  PROVE  LET rows == Rows(s, limit)
             n == IF limit < s THEN limit ELSE s
         IN  /\ rows \in Seq(Bar) /\ Len(rows) = n /\ n \in Nat \ {0} /\ n <= s
             /\ \A k \in 1..n : /\ rows[k].open = s - n + k /\ rows[k].final = (k < n)
                                /\ ~byClock => rows[k].closed = rows[k].final
<1>. DEFINE n == IF limit < s THEN limit ELSE s
            rows == Rows(s, limit)
            row(k) == [open |-> s - n + k, final |-> k < n,
                       closed |-> IF byClock THEN s - n + k < newest ELSE k < n]
<1>1. s \in Nat /\ newest \in Nat /\ LastCandle \in Nat /\ s <= newest /\ newest <= LastCandle
  BY MarketDataAssumption
<1>2. n \in Nat \ {0} /\ n <= s
  BY <1>1
<1>3. rows = [k \in 1..n |-> row(k)]
  BY DEF Rows
<1>. HIDE DEF rows, n
<1>4. ASSUME NEW k \in 1..n
      PROVE  row(k) \in Bar
  <2>1. s - n + k \in 1..LastCandle /\ (k < n => s - n + k < newest)
    BY <1>1, <1>2
  <2>2. row(k) \in Candle
    <3>1. (k < n) \in BOOLEAN /\ (s - n + k < newest) \in BOOLEAN
      OBVIOUS
    <3>2. (IF byClock THEN s - n + k < newest ELSE k < n) \in BOOLEAN
      BY <3>1, Zenon
    <3>. HIDE DEF n
    <3>. QED
      BY <2>1, <3>1, <3>2 DEF Candle
  <2>3. row(k).final => row(k).closed
    BY <2>1
  <2>. QED
    BY <2>2, <2>3 DEF Bar
<1>5. rows \in [1..n -> Bar]
  BY <1>3, <1>4
<1>6. rows \in Seq(Bar) /\ Len(rows) = n
  BY <1>2, <1>5
<1>7. \A k \in 1..n : /\ rows[k].open = s - n + k /\ rows[k].final = (k < n)
                      /\ ~byClock => rows[k].closed = rows[k].final
  BY <1>3
<1>. QED
  BY <1>2, <1>6, <1>7 DEF rows, n

LEMMA AnswerKeeps ==
  ASSUME newest \in 2..LastCandle, NEW s \in 2..newest, NEW limit \in Nat \ {0},
         NEW w \in Windows, NEW h \in Counts, FinalBelow(w, s),
         Once([window |-> w, handled |-> h]), ~byClock => ClosedFinal(w)
  PROVE  ApplyMany(w, h, Rows(s, limit)) \in Kept(w, s)
<1>. DEFINE rows == Rows(s, limit)
            n == IF limit < s THEN limit ELSE s
            a == [window |-> w, handled |-> h]
            G == [k \in 0..n |-> Kept(w, s)]
<1>1. /\ rows \in Seq(Bar) /\ Len(rows) = n /\ n \in Nat \ {0} /\ n <= s
      /\ \A k \in 1..n : /\ rows[k].open = s - n + k /\ rows[k].final = (k < n)
                         /\ ~byClock => rows[k].closed = rows[k].final
  BY RowsFacts
<1>2. s \in Int
  BY MarketDataAssumption
<1>. HIDE DEF rows, n
<1>3. a \in Kept(w, s)
  BY DEF Kept, Markets
<1>4. a \in G[0]
  BY <1>1, <1>3
<1>5. ASSUME NEW k \in 1..n, NEW m \in Kept(w, s)
      PROVE  Applied(m, rows[k]) \in Kept(w, s)
  <2>1. rows[k] \in Bar
    BY <1>1
  <2>0. (rows[k].final <=> k < n) /\ rows[k].open = s - n + k /\ n \in Int /\ k \in Int
    <3>1. rows[k].final = (k < n)
      BY <1>1
    <3>2. rows[k].open = s - n + k /\ n \in Int /\ k \in Int
      BY <1>1
    <3>. QED
      BY <3>1, <3>2, Zenon
  <2>2. rows[k].final => rows[k].open < s
    BY <1>2, <2>0
  <2>3. Safe(m.window, rows[k])
    <3>1. rows[k].final \/ rows[k].open = s
      BY <1>2, <2>0
    <3>2. FinalBelow(m.window, s)
      BY DEF Kept
    <3>. QED
      BY <3>1, <3>2 DEF Safe
  <2>4. ~byClock => (rows[k].closed => rows[k].final)
    BY <1>1
  <2>. QED
    BY <1>2, <2>1, <2>2, <2>3, <2>4, AppliedKeeps
<1>6. StepwiseKept(G, rows)
  <2>. SUFFICES ASSUME NEW k \in 1..Len(rows), NEW m \in Markets, m \in G[k - 1]
                PROVE  Applied(m, rows[k]) \in G[k]
    BY DEF StepwiseKept
  <2>1. k \in 1..n /\ k - 1 \in 0..n /\ k \in 0..n
    BY <1>1
  <2>. QED
    BY <1>5, <2>1
<1>. HIDE DEF G
<1>7. ApplyMany(w, h, rows) \in G[Len(rows)]
  BY <1>1, <1>4, <1>6, ApplyManyKeeps DEF a
<1>. QED
  BY <1>1, <1>7 DEF G, rows

\* Applied to a window without holes that the answer reaches back to, the rows
\* leave none, and the window reaches up to s.
LEMMA AnswerLeavesNoHole ==
  ASSUME newest \in 2..LastCandle, NEW s \in 2..newest, NEW limit \in Nat \ {0},
         NEW w \in Windows, NEW h \in Counts, w # <<>>, NoHoles(w),
         newest - w[Len(w)].open <= limit
  PROVE  LET t == ApplyMany(w, h, Rows(s, limit)).window
         IN  t \in Windows /\ t # <<>> /\ NoHoles(t) /\ s <= t[Len(t)].open
<1>. DEFINE rows == Rows(s, limit)
            n == IF limit < s THEN limit ELSE s
            a == [window |-> w, handled |-> h]
            Reach(k) == {m \in Markets : /\ m.window # <<>> /\ NoHoles(m.window)
                                         /\ s - n + k <= m.window[Len(m.window)].open}
            G == [k \in 0..n |-> Reach(k)]
<1>1. /\ rows \in Seq(Bar) /\ Len(rows) = n /\ n \in Nat \ {0} /\ n <= s
      /\ \A k \in 1..n : rows[k].open = s - n + k
  BY RowsFacts
<1>2. s \in Nat /\ newest \in Nat /\ s <= newest /\ n = IF limit < s THEN limit ELSE s
  BY MarketDataAssumption
<1>. HIDE DEF rows, n
<1>3. w[Len(w)] \in Bar /\ w[Len(w)].open \in 1..LastCandle
  <2>1. Len(w) \in 1..Len(w)
    BY WindowType
  <2>. QED
    BY <2>1, WindowType, BarType
<1>4. s - n + 0 <= w[Len(w)].open
  BY <1>1, <1>2, <1>3, MarketDataAssumption
<1>5. a \in Reach(0)
  BY <1>4 DEF Markets
<1>6. ASSUME NEW k \in 1..n, NEW m \in Reach(k - 1)
      PROVE  Applied(m, rows[k]) \in Reach(k)
  <2>. DEFINE v == m.window
              c == rows[k]
              t == Upsert(v, c)
  <2>1. v \in Windows /\ c \in Bar /\ m \in Markets
    BY <1>1 DEF Markets
  <2>2. Applied(m, c) \in Markets /\ Applied(m, c).window = t
    BY <2>1, AppliedType DEF Applied
  <2>3. Upserts(v, c, t)
    BY <2>1, UpsertFacts
  <2>4. v # <<>> /\ NoHoles(v) /\ s - n + (k - 1) <= v[Len(v)].open /\ c.open = s - n + k
    BY <1>1
  <2>. HIDE DEF v, c, t
  <2>5. v[Len(v)].open \in Int
    <3>1. Len(v) \in 1..Len(v)
      BY <2>1, <2>4, WindowType
    <3>. QED
      BY <2>1, <3>1, WindowType
  <2>6. c.open <= v[Len(v)].open + 1
    <3>1. n \in Int /\ k \in Int /\ s \in Int
      BY <1>1, <1>2
    <3>. QED
      BY <2>4, <2>5, <3>1
  <2>7. t # <<>> /\ NoHoles(t) /\ c.open <= t[Len(t)].open
    BY <2>3, <2>4, <2>6 DEF Upserts
  <2>. QED
    BY <2>2, <2>4, <2>7 DEF c
<1>. HIDE DEF Reach
<1>7. StepwiseKept(G, rows)
  <2>. SUFFICES ASSUME NEW k \in 1..Len(rows), NEW m \in Markets, m \in G[k - 1]
                PROVE  Applied(m, rows[k]) \in G[k]
    BY DEF StepwiseKept
  <2>1. k \in 1..n /\ k - 1 \in 0..n /\ k \in 0..n
    BY <1>1
  <2>. QED
    BY <1>6, <2>1
<1>8. a \in G[0]
  BY <1>1, <1>5
<1>. HIDE DEF G
<1>9. ApplyMany(w, h, rows) \in G[Len(rows)] /\ ApplyMany(w, h, rows) \in Markets
  BY <1>1, <1>7, <1>8, ApplyManyKeeps DEF a
<1>10. ApplyMany(w, h, rows) \in Reach(n)
  BY <1>1, <1>9 DEF G
<1>11. s - n + n = s
  BY <1>1, <1>2
<1>. QED
  BY <1>9, <1>10, <1>11 DEF Reach, rows, Markets

-----------------------------------------------------------------------------
(* The inductive invariant of the candles                                  *)

\* A candle as the venue's stream announces it while top is its open candle.
FromVenue(c, top) ==
  \/ c = OpenCandle(c.open) /\ c.open <= top
  \/ c = ClosedCandle(c.open) /\ c.open < top

LinkInv ==
  /\ feed \in Feeds /\ phase \in Phases
  /\ newest \in 2..LastCandle /\ asked \in 2..newest /\ since \in 0..newest
  /\ stream \in Seq(Bar) /\ Len(stream) <= MaxInFlight /\ pending \in Bar
  /\ faults \in 0..MaxFaults
  /\ \A k \in 1..Len(stream) : FromVenue(stream[k], newest)
  /\ phase = "gap" => FromVenue(pending, asked)
  /\ phase = "recover" => since <= asked

\* While a request is under way the window has no final values of the candle
\* that was open when it was sent, nor of later ones: an answer that calls it
\* closed too early cannot overwrite them.
WindowInv ==
  /\ window \in Windows /\ handled \in Counts
  /\ FinalBelow(window, newest)
  /\ phase \in {"init", "gap", "recover"} => FinalBelow(window, asked)
  /\ Once([window |-> window, handled |-> handled])
  /\ ~byClock => ClosedFinal(window)

CandleInv == LinkInv /\ WindowInv

LEMMA LinkTypes ==
  ASSUME LinkInv
  PROVE  /\ newest \in Int /\ asked \in Int /\ since \in Int /\ LastCandle \in Int
         /\ 2 <= asked /\ asked <= newest /\ newest <= LastCandle /\ 0 <= since /\ since <= newest
         /\ faults \in Int /\ Len(stream) \in Nat
BY MarketDataAssumption DEF LinkInv

LEMMA VenueBars ==
  ASSUME NEW i \in 1..LastCandle
  PROVE  /\ OpenCandle(i) \in Bar /\ OpenCandle(i).open = i
         /\ ClosedCandle(i) \in Bar /\ ClosedCandle(i).open = i
BY DEF OpenCandle, ClosedCandle, Bar, Candle

LEMMA NoCandleBar == NoCandle \in Bar
BY MarketDataAssumption DEF NoCandle, Bar, Candle

LEMMA FromVenueFacts ==
  ASSUME NEW c \in Bar, NEW top \in Int, FromVenue(c, top)
  PROVE  /\ c.open <= top /\ (c.final => c.open < top) /\ (c.closed => c.final)
         /\ \A w : Safe(w, c)
         /\ \A b \in Int : top <= b => FromVenue(c, b)
<1>1. c.open \in Int
  BY BarType
<1>2. CASE c = OpenCandle(c.open) /\ c.open <= top
  <2>1. ~c.final /\ ~c.closed
    BY <1>2 DEF OpenCandle
  <2>. QED
    BY <1>1, <1>2, <2>1 DEF Safe, FromVenue
<1>3. CASE c = ClosedCandle(c.open) /\ c.open < top
  <2>1. c.final /\ c.closed
    BY <1>3 DEF ClosedCandle
  <2>. QED
    BY <1>1, <1>3, <2>1 DEF Safe, FromVenue
<1>. QED
  BY <1>2, <1>3 DEF FromVenue

LEMMA BelowMore ==
  ASSUME NEW w \in Windows, NEW a \in Int, NEW b \in Int, a <= b, FinalBelow(w, a)
  PROVE  FinalBelow(w, b)
<1>. SUFFICES ASSUME NEW k \in 1..Len(w), w[k].final
              PROVE  w[k].open < b
  BY DEF FinalBelow
<1>1. w[k].open \in Int /\ w[k].open < a
  BY WindowType DEF FinalBelow
<1>. QED
  BY <1>1

\* A step that leaves the window alone and asks for nothing new.
LEMMA WindowStays ==
  ASSUME CandleInv, UNCHANGED <<byClock, candleVars>>, newest' \in Int, newest <= newest',
         phase' \in {"init", "gap", "recover"} =>
           asked' = newest \/ (phase' = phase /\ asked' = asked)
  PROVE  WindowInv'
<1>1. UNCHANGED <<byClock, window, handled>>
  BY DEF candleVars
<1>2. window \in Windows /\ newest \in Int /\ FinalBelow(window, newest)
  BY LinkTypes DEF CandleInv, WindowInv
<1>3. FinalBelow(window, newest')
  BY <1>2, BelowMore
<1>4. phase' \in {"init", "gap", "recover"} => FinalBelow(window, asked')
  BY <1>2 DEF CandleInv, WindowInv
<1>5. (FinalBelow(window, newest))' <=> FinalBelow(window, newest')
  BY <1>1 DEF FinalBelow
<1>6. (FinalBelow(window, asked))' <=> FinalBelow(window, asked')
  BY <1>1 DEF FinalBelow
<1>7. (Once([window |-> window, handled |-> handled]) /\ (~byClock => ClosedFinal(window)))'
  BY <1>1 DEF CandleInv, WindowInv, Once, ClosedFinal, Settled
<1>8. (window \in Windows /\ handled \in Counts)'
  BY <1>1 DEF CandleInv, WindowInv, Windows, Sorted, Counts
<1>. QED
  BY <1>3, <1>4, <1>5, <1>6, <1>7, <1>8 DEF WindowInv

LEMMA InitCandles == Init => CandleInv
<1>. SUFFICES ASSUME Init
              PROVE  CandleInv
  OBVIOUS
<1>1. /\ feed \in Feeds /\ newest = 2 /\ stream = <<>> /\ pending = NoCandle /\ asked = 2
      /\ since = 0 /\ window = <<>> /\ handled = [i \in 1..LastCandle |-> 0] /\ faults = 0
      /\ phase \in {"init", "none"}
  BY DEF Init
<1>2. LinkInv
  BY <1>1, NoCandleBar, MarketDataAssumption DEF LinkInv, Phases
<1>3. window \in Windows /\ handled \in Counts
  BY <1>1, MarketDataAssumption DEF Windows, Sorted, Counts
<1>4. WindowInv
  BY <1>1, <1>3 DEF WindowInv, FinalBelow, ClosedFinal, Once
<1>. QED
  BY <1>2, <1>4 DEF CandleInv

LEMMA LinkStays ==
  ASSUME LinkInv, UNCHANGED <<feed, linkVars>>, faults' \in 0..MaxFaults
  PROVE  LinkInv'
BY DEF LinkInv, linkVars, FromVenue, OpenCandle, ClosedCandle

\* The venue and the network.
LEMMA VenueKeeps ==
  ASSUME CandleInv, VenueUpdates \/ VenueCloses \/ ConnectionLost
  PROVE  CandleInv'
<1>. USE LinkTypes DEF CandleInv
<1>1. CASE VenueUpdates
  <2>1. /\ stream' = Append(stream, OpenCandle(newest)) /\ Len(stream) < MaxInFlight
        /\ UNCHANGED <<feed, byClock, newest, phase, pending, asked, since, candleVars, faults>>
    BY <1>1 DEF VenueUpdates, Deliver
  <2>2. newest \in 1..LastCandle
    OBVIOUS
  <2>3. OpenCandle(newest) \in Bar /\ FromVenue(OpenCandle(newest), newest)
    BY <2>2, VenueBars DEF FromVenue
  <2>4. /\ stream' \in Seq(Bar) /\ Len(stream') <= MaxInFlight
        /\ \A k \in 1..Len(stream') : FromVenue(stream'[k], newest)
    <3>. DEFINE t == Append(stream, OpenCandle(newest))
    <3>1. /\ t \in Seq(Bar) /\ Len(t) = Len(stream) + 1 /\ t[Len(t)] = OpenCandle(newest)
          /\ \A k \in 1..Len(stream) : t[k] = stream[k]
      BY <2>3, Grown DEF LinkInv
    <3>. HIDE DEF t
    <3>2. \A k \in 1..Len(t) : k = Len(t) \/ k \in 1..Len(stream)
      BY <3>1
    <3>3. \A k \in 1..Len(t) : FromVenue(t[k], newest)
      BY <2>3, <3>1, <3>2 DEF LinkInv
    <3>4. Len(t) <= MaxInFlight
      BY <2>1, <3>1, MarketDataAssumption
    <3>. QED
      BY <2>1, <3>1, <3>3, <3>4 DEF t
  <2>5. LinkInv'
    BY <2>1, <2>4 DEF LinkInv, FromVenue, OpenCandle, ClosedCandle
  <2>6. WindowInv'
    BY <2>1, WindowStays
  <2>. QED
    BY <2>5, <2>6
<1>2. CASE VenueCloses
  <2>1. /\ stream' = IF connected THEN Append(stream, ClosedCandle(newest)) ELSE stream
        /\ Len(stream) < MaxInFlight /\ newest' = newest + 1 /\ newest < LastCandle
        /\ UNCHANGED <<feed, byClock, phase, pending, asked, since, candleVars, faults>>
    BY <1>2 DEF VenueCloses, Deliver
  <2>2. newest \in 1..LastCandle /\ newest' \in 2..LastCandle /\ newest <= newest'
    BY <2>1
  <2>3. ClosedCandle(newest) \in Bar /\ FromVenue(ClosedCandle(newest), newest')
    BY <2>1, <2>2, VenueBars DEF FromVenue
  <2>4. \A k \in 1..Len(stream) : FromVenue(stream[k], newest')
    BY <2>2, FromVenueFacts DEF LinkInv
  <2>5. /\ stream' \in Seq(Bar) /\ Len(stream') <= MaxInFlight
        /\ \A k \in 1..Len(stream') : FromVenue(stream'[k], newest')
    <3>. DEFINE t == Append(stream, ClosedCandle(newest))
    <3>1. /\ t \in Seq(Bar) /\ Len(t) = Len(stream) + 1 /\ t[Len(t)] = ClosedCandle(newest)
          /\ \A k \in 1..Len(stream) : t[k] = stream[k]
      BY <2>3, Grown DEF LinkInv
    <3>. HIDE DEF t
    <3>2. \A k \in 1..Len(t) : k = Len(t) \/ k \in 1..Len(stream)
      BY <3>1
    <3>3. \A k \in 1..Len(t) : FromVenue(t[k], newest')
      BY <2>3, <2>4, <3>1, <3>2
    <3>4. Len(t) <= MaxInFlight
      BY <2>1, <3>1, MarketDataAssumption
    <3>5. CASE connected
      BY <2>1, <3>1, <3>3, <3>4, <3>5 DEF t
    <3>6. CASE ~connected
      BY <2>1, <2>4, <3>6 DEF LinkInv
    <3>. QED
      BY <3>5, <3>6
  <2>6. asked' \in 2..newest' /\ since' \in 0..newest'
    BY <2>1, <2>2
  <2>7. LinkInv'
    BY <2>1, <2>2, <2>5, <2>6 DEF LinkInv, FromVenue, OpenCandle, ClosedCandle
  <2>8. WindowInv'
    BY <2>1, <2>2, WindowStays
  <2>. QED
    BY <2>7, <2>8
<1>3. CASE ConnectionLost
  <2>1. /\ stream' = <<>> /\ faults' = faults + 1 /\ faults < MaxFaults
        /\ UNCHANGED <<feed, byClock, newest, phase, pending, asked, since, candleVars>>
    BY <1>3 DEF ConnectionLost
  <2>2. faults' \in 0..MaxFaults /\ <<>> \in Seq(Bar) /\ Len(<<>>) = 0 /\ 0 <= MaxInFlight
    BY <2>1, MarketDataAssumption DEF LinkInv
  <2>3. LinkInv'
    BY <2>1, <2>2 DEF LinkInv, FromVenue, OpenCandle, ClosedCandle
  <2>4. WindowInv'
    BY <2>1, WindowStays
  <2>. QED
    BY <2>3, <2>4
<1>. QED
  BY <1>1, <1>2, <1>3

StreamOK(q) ==
  q \in Seq(Bar) /\ Len(q) <= MaxInFlight /\ \A k \in 1..Len(q) : FromVenue(q[k], newest)

LEMMA StreamRest ==
  ASSUME LinkInv
  PROVE  /\ StreamOK(stream) /\ StreamOK(<<>>)
         /\ stream # <<>> => /\ StreamOK(Tail(stream)) /\ Head(stream) \in Bar
                             /\ FromVenue(Head(stream), newest)
<1>1. StreamOK(stream)
  BY DEF LinkInv, StreamOK
<1>2. StreamOK(<<>>)
  BY MarketDataAssumption DEF StreamOK
<1>3. ASSUME stream # <<>>
      PROVE  StreamOK(Tail(stream)) /\ Head(stream) \in Bar /\ FromVenue(Head(stream), newest)
  <2>1. stream \in Seq(Bar) /\ Len(stream) \in Nat \ {0} /\ Len(stream) <= MaxInFlight
    BY <1>3 DEF LinkInv
  <2>2. /\ Tail(stream) \in Seq(Bar) /\ Len(Tail(stream)) = Len(stream) - 1
        /\ \A k \in 1..Len(stream) - 1 : Tail(stream)[k] = stream[k + 1]
    BY <1>3, <2>1
  <2>3. Head(stream) = stream[1] /\ stream[1] \in Bar
    BY <1>3, <2>1
  <2>4. \A k \in 1..Len(stream) - 1 : k + 1 \in 1..Len(stream)
    BY <2>1
  <2>5. Len(Tail(stream)) <= MaxInFlight
    BY <2>1, <2>2, MarketDataAssumption
  <2>. QED
    BY <2>1, <2>2, <2>3, <2>4, <2>5 DEF LinkInv, StreamOK
<1>. QED
  BY <1>1, <1>2, <1>3

\* The link after a step within one candle of the venue.
LEMMA LinkMoves ==
  ASSUME LinkInv, UNCHANGED <<feed, newest>>, phase' \in Phases, StreamOK(stream'),
         asked' \in 2..newest, since' \in 0..newest, pending' \in Bar, faults' \in 0..MaxFaults,
         phase' = "gap" => FromVenue(pending', asked'),
         phase' = "recover" => since' <= asked'
  PROVE  LinkInv'
BY DEF LinkInv, StreamOK, FromVenue, OpenCandle, ClosedCandle

LEMMA OneMoreFault ==
  ASSUME LinkInv, faults < MaxFaults, faults' = faults + 1
  PROVE  faults' \in 0..MaxFaults
BY MarketDataAssumption DEF LinkInv

\* The consuming task, as far as it leaves the window alone.
LEMMA TaskKeeps ==
  ASSUME CandleInv,
         \/ Connect \/ RejectCandle \/ DetectGap \/ RecoverBook \/ RecoveryFails
         \/ \E stable \in BOOLEAN : BackfillFails(stable) \/ NoticeLoss(stable) \/ BookGap(stable)
         \/ \E m \in {"short", "full", "order_book"} : BeginRecovery(m)
  PROVE  CandleInv'
<1>. USE LinkTypes DEF CandleInv
<1>0. /\ asked \in 2..newest /\ since \in 0..newest /\ pending \in Bar /\ newest \in 2..newest
      /\ newest \in 0..newest /\ faults \in 0..MaxFaults /\ phase \in Phases /\ newest <= newest
  BY DEF LinkInv
<1>1. CASE Connect
  <2>1. /\ phase' = "stream" /\ stream' = <<>>
        /\ UNCHANGED <<feed, byClock, newest, pending, asked, since, candleVars, faults>>
    BY <1>1 DEF Connect
  <2>2. LinkInv'
    BY <1>0, <2>1, StreamRest, LinkMoves DEF Phases
  <2>. QED
    BY <1>0, <2>1, <2>2, WindowStays
<1>2. CASE RejectCandle
  <2>1. /\ phase = "stream" /\ stream # <<>> /\ stream' = Tail(stream) /\ faults < MaxFaults
        /\ faults' = faults + 1
        /\ UNCHANGED <<feed, byClock, newest, phase, pending, asked, since, candleVars>>
    BY <1>2 DEF RejectCandle
  <2>2. LinkInv'
    BY <1>0, <2>1, StreamRest, LinkMoves, OneMoreFault
  <2>. QED
    BY <1>0, <2>1, <2>2, WindowStays
<1>3. CASE DetectGap
  <2>1. /\ stream # <<>> /\ stream' = Tail(stream) /\ phase' = "gap" /\ pending' = Head(stream)
        /\ asked' = newest /\ UNCHANGED <<feed, byClock, newest, since, candleVars, faults>>
    BY <1>3 DEF DetectGap
  <2>2. LinkInv'
    BY <1>0, <2>1, StreamRest, LinkMoves DEF Phases
  <2>. QED
    BY <1>0, <2>1, <2>2, WindowStays
<1>4. CASE RecoverBook
  <2>1. /\ phase' = "connect"
        /\ UNCHANGED <<feed, byClock, newest, stream, pending, asked, since, candleVars, faults>>
    BY <1>4 DEF RecoverBook
  <2>2. LinkInv'
    BY <1>0, <2>1, StreamRest, LinkMoves DEF Phases
  <2>. QED
    BY <1>0, <2>1, <2>2, WindowStays
<1>5. CASE RecoveryFails
  <2>1. /\ phase' \in {"connect", "down"} /\ faults < MaxFaults /\ faults' = faults + 1
        /\ UNCHANGED <<feed, byClock, newest, stream, pending, asked, since, candleVars>>
    BY <1>5 DEF RecoveryFails
  <2>2. LinkInv'
    BY <1>0, <2>1, StreamRest, LinkMoves, OneMoreFault DEF Phases
  <2>. QED
    BY <1>0, <2>1, <2>2, WindowStays
<1>6. ASSUME NEW stable \in BOOLEAN, BackfillFails(stable) \/ NoticeLoss(stable) \/ BookGap(stable)
      PROVE  CandleInv'
  <2>1. /\ phase' = "down" /\ stream' = <<>> /\ since' \in {newest, since}
        /\ pending' \in {pending, NoCandle}
        /\ faults' = faults \/ (faults < MaxFaults /\ faults' = faults + 1)
        /\ UNCHANGED <<feed, byClock, newest, asked, candleVars>>
    BY <1>6 DEF BackfillFails, NoticeLoss, BookGap, Fails
  <2>2. faults' \in 0..MaxFaults /\ pending' \in Bar /\ since' \in 0..newest /\ asked' \in 2..newest
    BY <1>0, <2>1, OneMoreFault, NoCandleBar
  <2>3. LinkInv'
    BY <2>1, <2>2, StreamRest, LinkMoves DEF Phases
  <2>. QED
    BY <1>0, <2>1, <2>3, WindowStays
<1>7. ASSUME NEW m, BeginRecovery(m)
      PROVE  CandleInv'
  <2>1. /\ phase' = "recover" /\ asked' = newest
        /\ UNCHANGED <<feed, byClock, newest, stream, pending, since, candleVars, faults>>
    BY <1>7 DEF BeginRecovery
  <2>2. LinkInv'
    BY <1>0, <2>1, StreamRest, LinkMoves DEF Phases
  <2>. QED
    BY <1>0, <2>1, <2>2, WindowStays
<1>. QED
  BY <1>1, <1>2, <1>3, <1>4, <1>5, <1>6, <1>7

-----------------------------------------------------------------------------
(* The steps that change the window                                        *)

Market == [window |-> window, handled |-> handled]

\* Windows only grow: a candle that was closed is closed or gone.
KeepsClosed(w, t) ==
  \A j \in 1..Len(w), k \in 1..Len(t) : w[j].closed /\ t[k].open = w[j].open => t[k].closed

LEMMA MarketKept ==
  ASSUME CandleInv
  PROVE  /\ Market \in Markets /\ \A b \in Int : FinalBelow(window, b) => Market \in Kept(window, b)
         /\ Market.window = window /\ Market.handled = handled
BY DEF CandleInv, WindowInv, Market, Markets, Kept

\* A closed candle of a sorted window is shut.
LEMMA ShutKeepsClosed ==
  ASSUME NEW w \in Windows, NEW b, NEW m \in Kept(w, b)
  PROVE  KeepsClosed(w, m.window)
<1>. SUFFICES ASSUME NEW j \in 1..Len(w), NEW k \in 1..Len(m.window), w[j].closed,
                     m.window[k].open = w[j].open
              PROVE  m.window[k].closed
  BY DEF KeepsClosed
<1>1. w[j].open \in Int /\ w[j].open <= w[Len(w)].open /\ w # <<>>
  BY WindowType
<1>2. \A i \in 1..Len(w) : w[i].open = w[j].open => i = j
  <2>. SUFFICES ASSUME NEW i \in 1..Len(w), w[i].open = w[j].open, i # j
                PROVE  FALSE
    OBVIOUS
  <2>1. i < j \/ j < i
    BY WindowType
  <2>2. w[i].open < w[j].open \/ w[j].open < w[i].open
    BY <2>1, WindowType DEF Sorted
  <2>. QED
    BY <1>1, <2>2
<1>3. Shut(w[j].open, w)
  BY <1>1, <1>2 DEF Shut
<1>4. Shut(w[j].open, m.window)
  BY <1>1, <1>3 DEF Kept
<1>. QED
  BY <1>4 DEF Shut

\* Candles applied without evaluation.
LEMMA Unevaluated ==
  ASSUME CandleInv, NEW b, NEW m \in Kept(window, b)
  PROVE  [window |-> m.window, handled |-> handled] \in Kept(window, b)
<1>. DEFINE u == [window |-> m.window, handled |-> handled]
<1>1. u \in Markets
  BY DEF Kept, Markets, CandleInv, WindowInv
<1>2. Once(u)
  <2>. SUFFICES ASSUME NEW i \in 1..LastCandle
                PROVE  handled[i] = 0 \/ (handled[i] = 1 /\ Settled(i, m.window))
    BY DEF Once
  <2>1. i \in Int
    BY MarketDataAssumption
  <2>2. handled[i] = 0 \/ (handled[i] = 1 /\ Settled(i, window))
    BY DEF CandleInv, WindowInv, Once
  <2>. QED
    BY <2>1, <2>2 DEF Kept
<1>. QED
  BY <1>1, <1>2 DEF Kept

\* The window after candles that were applied with or without evaluation.
LEMMA WindowMoves ==
  ASSUME CandleInv, UNCHANGED <<byClock, newest>>, phase' \notin {"init", "gap", "recover"},
         NEW b \in Int, b <= newest, NEW m \in Kept(window, b), window' = m.window,
         handled' \in {handled, m.handled}
  PROVE  WindowInv' /\ KeepsClosed(window, window')
<1>1. window \in Windows /\ handled \in Counts /\ newest \in Int
  BY LinkTypes DEF CandleInv, WindowInv
<1>2. m.window \in Windows /\ m.handled \in Counts
  BY DEF Kept, Markets
<1>3. FinalBelow(m.window, newest)
  BY <1>1, <1>2, BelowMore DEF Kept
<1>4. Once([window |-> m.window, handled |-> handled'])
  <2>1. CASE handled' = m.handled
    BY <2>1 DEF Kept, Once
  <2>2. CASE handled' = handled
    BY <2>2, Unevaluated DEF Kept
  <2>. QED
    BY <2>1, <2>2
<1>5. ~byClock' => ClosedFinal(m.window)
  BY DEF Kept
<1>6. handled' \in Counts
  BY <1>1, <1>2
<1>7. WindowInv'
  BY <1>2, <1>3, <1>4, <1>5, <1>6
     DEF WindowInv, Windows, Sorted, Counts, FinalBelow, ClosedFinal, Once, Settled
<1>. QED
  BY <1>1, <1>7, ShutKeepsClosed

LEMMA RecoveryLimitType ==
  ASSUME LinkInv, phase = "recover"
  PROVE  RecoveryLimit \in Nat \ {0}
BY LinkTypes, MarketDataAssumption DEF RecoveryLimit, LinkInv

\* An answer as of candle s, requested while asked was open.
LEMMA AnswerKept ==
  ASSUME CandleInv, NEW s \in asked..newest, NEW limit \in Nat \ {0},
         phase \in {"init", "gap", "recover"} \/ s = newest
  PROVE  /\ s \in Int /\ s \in 2..newest /\ s <= newest
         /\ ApplyMany(window, handled, Rows(s, limit)) \in Kept(window, s)
<1>1. s \in Int /\ s \in 2..newest /\ s <= newest /\ asked <= s /\ asked \in Int
  BY LinkTypes DEF CandleInv
<1>2. FinalBelow(window, s)
  BY <1>1, BelowMore DEF CandleInv, WindowInv
<1>3. /\ newest \in 2..LastCandle /\ window \in Windows /\ handled \in Counts
      /\ Once([window |-> window, handled |-> handled]) /\ (~byClock => ClosedFinal(window))
  BY DEF CandleInv, LinkInv, WindowInv
<1>4. ApplyMany(window, handled, Rows(s, limit)) \in Kept(window, s)
  BY <1>1, <1>2, <1>3, AnswerKeeps
<1>. QED
  BY <1>1, <1>4

LEMMA ProcessKeeps ==
  ASSUME CandleInv, ProcessCandle
  PROVE  CandleInv' /\ KeepsClosed(window, window')
<1>. DEFINE c == Head(stream)
            r == Applied(Market, c)
<1>1. /\ phase = "stream" /\ stream # <<>> /\ window' = r.window /\ handled' = r.handled
      /\ stream' = Tail(stream)
      /\ UNCHANGED <<feed, byClock, newest, phase, pending, asked, since, faults>>
  BY DEF ProcessCandle, Market
<1>2. newest \in Int /\ newest <= newest /\ LinkInv
  BY LinkTypes DEF CandleInv
<1>3. c \in Bar /\ FromVenue(c, newest) /\ StreamOK(Tail(stream))
  BY <1>1, <1>2, StreamRest
<1>4. Market \in Kept(window, newest)
  BY <1>2, MarketKept DEF CandleInv, WindowInv
<1>5. (c.final => c.open < newest) /\ (c.closed => c.final) /\ Safe(Market.window, c)
  BY <1>2, <1>3, FromVenueFacts
<1>6. r \in Kept(window, newest)
  BY <1>2, <1>3, <1>4, <1>5, AppliedKeeps
<1>7. WindowInv' /\ KeepsClosed(window, window')
  BY <1>1, <1>2, <1>6, WindowMoves
<1>8. LinkInv'
  BY <1>1, <1>2, <1>3, LinkMoves DEF LinkInv
<1>. QED
  BY <1>7, <1>8 DEF CandleInv

LEMMA WarmUpKeeps ==
  ASSUME CandleInv, NEW s \in 1..LastCandle, WarmUp(s)
  PROVE  CandleInv' /\ KeepsClosed(window, window')
<1>. DEFINE r == ApplyMany(window, handled, Rows(s, WarmupSize))
<1>1. /\ phase = "init" /\ s \in asked..newest /\ window' = r.window /\ handled' = handled
      /\ phase' \in {"none", "connect"}
      /\ UNCHANGED <<feed, byClock, newest, stream, pending, asked, since, faults>>
  BY DEF WarmUp
<1>2. WarmupSize \in Nat \ {0}
  BY MarketDataAssumption
<1>3. s \in Int /\ s <= newest /\ r \in Kept(window, s)
  BY <1>1, <1>2, AnswerKept
<1>4. WindowInv' /\ KeepsClosed(window, window')
  BY <1>1, <1>3, WindowMoves
<1>5. LinkInv'
  BY <1>1, StreamRest, LinkMoves DEF CandleInv, LinkInv, Phases
<1>. QED
  BY <1>4, <1>5 DEF CandleInv

LEMMA BackfillKeeps ==
  ASSUME CandleInv, NEW s \in 1..LastCandle, BackfillGap(s)
  PROVE  CandleInv' /\ KeepsClosed(window, window')
<1>. DEFINE a == ApplyMany(window, handled, Rows(s, WarmupSize))
            u == [window |-> a.window, handled |-> handled]
            r == Applied(u, pending)
<1>1. /\ phase = "gap" /\ s \in asked..newest /\ window' = r.window /\ handled' = r.handled
      /\ phase' = "stream" /\ pending' = NoCandle
      /\ UNCHANGED <<feed, byClock, newest, stream, asked, since, faults>>
  BY DEF BackfillGap
<1>2. WarmupSize \in Nat \ {0}
  BY MarketDataAssumption
<1>3. s \in Int /\ s <= newest /\ a \in Kept(window, s)
  BY <1>1, <1>2, AnswerKept
<1>. HIDE DEF a
<1>4. u \in Kept(window, s)
  BY <1>3, Unevaluated
<1>5. asked \in Int /\ asked <= s /\ LinkInv /\ pending \in Bar /\ FromVenue(pending, asked)
  BY <1>1, LinkTypes DEF CandleInv, LinkInv
<1>6. /\ FromVenue(pending, s) /\ Safe(u.window, pending)
      /\ pending.closed => pending.final
  BY <1>3, <1>5, FromVenueFacts
<1>7. pending.final => pending.open < s
  BY <1>3, <1>5, <1>6, FromVenueFacts
<1>8. r \in Kept(window, s)
  BY <1>3, <1>4, <1>5, <1>6, <1>7, AppliedKeeps
<1>. HIDE DEF r
<1>9. WindowInv' /\ KeepsClosed(window, window')
  BY <1>1, <1>3, <1>8, WindowMoves
<1>10. LinkInv'
  BY <1>1, <1>5, StreamRest, NoCandleBar, LinkMoves DEF LinkInv, Phases
<1>. QED
  BY <1>9, <1>10 DEF CandleInv

LEMMA RecoverKeeps ==
  ASSUME CandleInv, NEW s \in 1..LastCandle, Recover(s)
  PROVE  CandleInv' /\ KeepsClosed(window, window')
<1>. DEFINE r == ApplyMany(window, handled, Rows(s, RecoveryLimit))
<1>1. /\ phase = "recover" /\ s \in asked..newest /\ window' = r.window
      /\ handled' \in {handled, r.handled} /\ phase' = "connect"
      /\ UNCHANGED <<feed, byClock, newest, stream, pending, asked, since, faults>>
  BY DEF Recover
<1>2. RecoveryLimit \in Nat \ {0}
  BY <1>1, RecoveryLimitType DEF CandleInv
<1>3. s \in Int /\ s <= newest /\ r \in Kept(window, s)
  BY <1>1, <1>2, AnswerKept
<1>. HIDE DEF r
<1>4. WindowInv' /\ KeepsClosed(window, window')
  BY <1>1, <1>3, WindowMoves
<1>5. LinkInv'
  BY <1>1, StreamRest, LinkMoves DEF CandleInv, LinkInv, Phases
<1>. QED
  BY <1>4, <1>5 DEF CandleInv

LEMMA BaselineKeeps ==
  ASSUME CandleInv, RefreshBaseline
  PROVE  CandleInv' /\ KeepsClosed(window, window')
<1>. DEFINE r == ApplyMany(window, handled, Rows(newest, 2))
<1>1. /\ phase = "none" /\ window' = r.window /\ handled' = handled
      /\ UNCHANGED <<feed, byClock, linkVars, faults>>
  BY DEF RefreshBaseline
<1>2. newest \in asked..newest /\ newest \in Int /\ 2 \in Nat \ {0} /\ newest <= newest
  BY LinkTypes DEF CandleInv
<1>3. r \in Kept(window, newest)
  BY <1>2, AnswerKept
<1>. HIDE DEF r
<1>4. newest' = newest /\ byClock' = byClock /\ phase' = "none"
  BY <1>1 DEF linkVars
<1>5. WindowInv' /\ KeepsClosed(window, window')
  BY <1>1, <1>2, <1>3, <1>4, WindowMoves
<1>6. LinkInv'
  BY <1>1, LinkStays DEF CandleInv, LinkInv
<1>. QED
  BY <1>5, <1>6 DEF CandleInv

LEMMA ContextLeavesCandles ==
  ASSUME CandleInv, ContextStep
  PROVE  CandleInv' /\ UNCHANGED window
<1>1. /\ UNCHANGED <<feed, byClock, linkVars, candleVars>>
      /\ faults' = faults \/ (faults < MaxFaults /\ faults' = faults + 1)
  BY DEF ContextStep, ApplyContext, ApplyTrade, Invalidate
<1>2. faults' \in 0..MaxFaults
  BY <1>1, OneMoreFault DEF CandleInv, LinkInv
<1>3. LinkInv'
  BY <1>1, <1>2, LinkStays DEF CandleInv
<1>4. UNCHANGED <<newest, phase, asked>> /\ newest \in Int /\ newest <= newest
  BY <1>1, LinkTypes DEF CandleInv, linkVars
<1>5. WindowInv'
  BY <1>1, <1>4, WindowStays
<1>. QED
  BY <1>1, <1>3, <1>5 DEF CandleInv, candleVars

-----------------------------------------------------------------------------
(* The theorems about candles                                              *)

LEMMA NextCandles ==
  ASSUME CandleInv, [Next]_vars
  PROVE  CandleInv' /\ KeepsClosed(window, window')
<1>1. ASSUME UNCHANGED window
      PROVE  KeepsClosed(window, window')
  <2>1. window \in Windows /\ newest \in Int /\ Market \in Kept(window, newest)
    BY MarketKept, LinkTypes DEF CandleInv, WindowInv
  <2>2. KeepsClosed(window, Market.window)
    BY <2>1, ShutKeepsClosed
  <2>. QED
    BY <1>1, <2>2, MarketKept
<1>2. CASE VenueUpdates \/ VenueCloses \/ ConnectionLost
  <2>1. UNCHANGED window
    BY <1>2 DEF VenueUpdates, VenueCloses, ConnectionLost, candleVars
  <2>. QED
    BY <1>1, <1>2, <2>1, VenueKeeps
<1>3. CASE \/ Connect \/ RejectCandle \/ DetectGap \/ RecoverBook \/ RecoveryFails
           \/ \E stable \in BOOLEAN : BackfillFails(stable) \/ NoticeLoss(stable) \/ BookGap(stable)
           \/ \E m \in {"short", "full", "order_book"} : BeginRecovery(m)
  <2>1. UNCHANGED window
    BY <1>3
       DEF Connect, RejectCandle, DetectGap, RecoverBook, RecoveryFails, BackfillFails,
           NoticeLoss, BookGap, BeginRecovery, candleVars
  <2>2. CandleInv'
    BY <1>3, TaskKeeps
  <2>. QED
    BY <1>1, <2>1, <2>2
<1>4. CASE ProcessCandle
  BY <1>4, ProcessKeeps
<1>5. CASE RefreshBaseline
  BY <1>5, BaselineKeeps
<1>6. CASE \E s \in 1..LastCandle : WarmUp(s) \/ BackfillGap(s) \/ Recover(s)
  BY <1>6, WarmUpKeeps, BackfillKeeps, RecoverKeeps
<1>7. CASE ContextStep
  BY <1>1, <1>7, ContextLeavesCandles
<1>8. CASE UNCHANGED vars
  <2>1. UNCHANGED <<feed, byClock, linkVars, candleVars, faults>>
    BY <1>8 DEF vars
  <2>2. UNCHANGED <<newest, phase, asked, window>> /\ newest \in Int /\ newest <= newest
    BY <2>1, LinkTypes DEF CandleInv, linkVars, candleVars
  <2>3. LinkInv'
    BY <2>1, LinkStays DEF CandleInv, LinkInv
  <2>4. WindowInv'
    BY <2>1, <2>2, WindowStays
  <2>. QED
    BY <1>1, <2>2, <2>3, <2>4 DEF CandleInv
<1>9. CASE CandleStep
  BY <1>2, <1>3, <1>4, <1>5, <1>6, <1>9 DEF CandleStep
<1>. QED
  BY <1>7, <1>8, <1>9 DEF Next

\* The bounds that TypeOK states of context data.
BoundsInv ==
  /\ oiHistory \in Seq(Context) /\ Len(oiHistory) <= OpenInterestHistorySize
  /\ mark \in -1..MaxEvents + 1

LEMMA InitBounds == Init => BoundsInv
BY MarketDataAssumption DEF Init, BoundsInv

LEMMA RecordedBound ==
  ASSUME CtxInv, BoundsInv, NEW e \in Context
  PROVE  Len(OpenInterestRecorded(e)) <= OpenInterestHistorySize
<1>. DEFINE s == oiHistory
            t == OpenInterestRecorded(e)
<1>1. /\ s \in Seq(Context) /\ Len(s) \in Nat /\ Len(s) <= OpenInterestHistorySize
      /\ OpenInterestHistorySize \in Nat \ {0}
  BY MarketDataAssumption DEF BoundsInv
<1>2. CASE IsSameSource(e, value) /\ s # <<>>
  <2>1. t = [s EXCEPT ![Len(s)] = e]
    BY <1>2 DEF OpenInterestRecorded
  <2>2. Len(t) = Len(s)
    BY <1>1, <1>2, <2>1, Replaced
  <2>. QED
    BY <1>1, <2>2
<1>3. CASE ~(IsSameSource(e, value) /\ s # <<>>) /\ Len(s) < OpenInterestHistorySize
  <2>1. t = Append(s, e)
    BY <1>3 DEF OpenInterestRecorded
  <2>2. Len(t) = Len(s) + 1
    BY <1>1, <2>1, Grown
  <2>. QED
    BY <1>1, <1>3, <2>2
<1>4. CASE ~(IsSameSource(e, value) /\ s # <<>>) /\ ~(Len(s) < OpenInterestHistorySize)
  <2>1. t = Append(Tail(s), e) /\ s # <<>>
    BY <1>1, <1>4 DEF OpenInterestRecorded
  <2>2. Len(t) = Len(s)
    BY <1>1, <2>1, Slid
  <2>. QED
    BY <1>1, <2>2
<1>. QED
  BY <1>2, <1>3, <1>4

LEMMA NextBounds ==
  ASSUME CtxInv, BoundsInv, [Next]_vars
  PROVE  BoundsInv'
<1>0. /\ clock \in Nat /\ MaxEvents \in Nat /\ OpenInterestHistorySize \in Nat
      /\ oiHistory' \in Seq(Context)
  BY NextContext, MarketDataAssumption DEF CtxInv, CtxTypeInv
<1>1. CASE UNCHANGED <<oiHistory, mark>>
  BY <1>1 DEF BoundsInv
<1>2. CASE CandleStep \/ UNCHANGED vars
  BY <1>1, <1>2, CandlesKeep DEF vars, contextVars
<1>3. ASSUME NEW e \in ContextEvents, ApplyContext(e)
      PROVE  BoundsInv'
  <2>1. e \in Context /\ e.received_at \in {clock, clock + 1} /\ clock < MaxEvents
    BY <1>0, <1>3 DEF ContextEvents, Context, ApplyContext
  <2>2. CASE Applies(e)
    <3>1. /\ mark' = e.received_at
          /\ oiHistory' = IF feed = "open_interest" THEN OpenInterestRecorded(e) ELSE oiHistory
      BY <1>3, <2>2 DEF ApplyContext
    <3>2. mark' \in -1..MaxEvents + 1
      BY <1>0, <2>1, <3>1
    <3>3. Len(oiHistory') <= OpenInterestHistorySize
      BY <2>1, <3>1, RecordedBound DEF BoundsInv
    <3>. QED
      BY <1>0, <3>2, <3>3 DEF BoundsInv
  <2>3. CASE ~Applies(e)
    BY <1>1, <1>3, <2>3 DEF ApplyContext
  <2>. QED
    BY <2>2, <2>3
<1>4. ASSUME NEW e \in Trades, ApplyTrade(e)
      PROVE  BoundsInv'
  <2>1. /\ e.received_at \in {clock, clock + 1} /\ clock < MaxEvents /\ oiHistory' = oiHistory
        /\ mark' \in {mark, e.received_at}
    BY <1>4 DEF Trades, ApplyTrade
  <2>2. mark' \in -1..MaxEvents + 1
    BY <1>0, <2>1 DEF BoundsInv
  <2>. QED
    BY <2>1, <2>2 DEF BoundsInv
<1>5. CASE Invalidate
  BY <1>0, <1>5 DEF Invalidate, BoundsInv
<1>. QED
  BY <1>2, <1>3, <1>4, <1>5 DEF Next, ContextStep

LEMMA TypesHold ==
  ASSUME CandleInv, CtxInv, BoundsInv
  PROVE  TypeOK
<1>1. Bar \subseteq Candle
  BY DEF Bar
<1>2. stream \in Seq(Candle) /\ window \in Seq(Candle) /\ Len(window) <= WindowSize
  BY <1>1, WindowType DEF CandleInv, LinkInv, WindowInv
<1>3. \A k \in 1..Len(window) - 1 : window[k].open < window[k + 1].open
  <2>. TAKE k \in 1..Len(window) - 1
  <2>1. window \in Windows /\ Len(window) \in Nat
    BY WindowType DEF CandleInv, WindowInv
  <2>2. k \in 1..Len(window) /\ k + 1 \in 1..Len(window) /\ k < k + 1
    BY <2>1
  <2>. QED
    BY <2>1, <2>2, WindowType DEF Sorted
<1>. QED
  BY <1>2, <1>3 DEF TypeOK, CandleInv, LinkInv, CtxInv, CtxTypeInv, BoundsInv

\* A run of consecutive numbers is known from its first.
LEMMA Consecutive ==
  ASSUME NEW n \in Nat, NEW f, f[1] \in Int, \A k \in 1..n - 1 : f[k + 1] = f[k] + 1
  PROVE  \A k \in 1..n : f[k] = f[1] + k - 1
<1>. DEFINE T == {j \in Nat : j + 1 <= n => f[j + 1] = f[1] + j}
<1>1. 0 \in T
  OBVIOUS
<1>2. ASSUME NEW j \in Nat, j \in T
      PROVE  j + 1 \in T
  <2>. SUFFICES ASSUME (j + 1) + 1 <= n
                PROVE  f[(j + 1) + 1] = f[1] + (j + 1)
    OBVIOUS
  <2>1. j + 1 \in 1..n - 1 /\ f[j + 1] = f[1] + j
    BY <1>2
  <2>. QED
    BY <2>1
<1>. HIDE DEF T
<1>3. Nat \subseteq T
  BY <1>1, <1>2, SetInduction
<1>. SUFFICES ASSUME NEW k \in 1..n
              PROVE  f[k] = f[1] + k - 1
  OBVIOUS
<1>4. k - 1 \in Nat /\ k - 1 \in T /\ (k - 1) + 1 = k
  BY <1>3
<1>5. f[k] = f[1] + (k - 1)
  BY <1>4 DEF T
<1>. QED
  BY <1>5

LEMMA HistoryHolds ==
  ASSUME CandleInv
  PROVE  ClosedIsFinal /\ HistoryIsExact
<1>1. window \in Windows /\ (~byClock => ClosedFinal(window))
  BY DEF CandleInv, WindowInv
<1>2. ClosedIsFinal
  BY <1>1 DEF ClosedIsFinal, ClosedFinal
<1>. DEFINE closed == ClosedOf(window)
<1>3. /\ closed \in Seq(Bar)
      /\ \A k \in 1..Len(closed) : closed[k].closed /\ \E j \in 1..Len(window) : closed[k] = window[j]
  BY <1>1, WindowType, ClosedOfFacts
<1>. HIDE DEF closed
<1>4. ASSUME ~byClock, NEW k \in 1..Len(closed)
      PROVE  closed[k] = ClosedCandle(closed[k].open) /\ closed[k].open \in Int
  <2>1. closed[k] \in Bar /\ closed[k].closed /\ closed[k].final
    BY <1>1, <1>3, <1>4 DEF ClosedFinal
  <2>2. closed[k].closed = TRUE /\ closed[k].final = TRUE
    BY <2>1, BarType
  <2>. QED
    BY <2>1, <2>2, BarType DEF Bar, Candle, ClosedCandle
<1>5. ASSUME ~byClock, NEW n \in 1..WindowSize, ContiguousClosed(window, n) # <<>>
      PROVE  LET h == ContiguousClosed(window, n)
             IN  \A k \in 1..n : h[k] = ClosedCandle(h[1].open + k - 1)
  <2>. DEFINE d == Len(closed) - n
              h == SubSeq(closed, Len(closed) - n + 1, Len(closed))
  <2>1. /\ ~(Len(closed) < n) /\ ContiguousClosed(window, n) = h
        /\ \A k \in 1..n - 1 : h[k + 1].open = h[k].open + 1
    BY <1>5 DEF ContiguousClosed, closed
  <2>2. n \in Nat \ {0} /\ d \in Nat /\ Len(closed) \in Nat /\ 1 \in 1..n
    BY <1>3, <2>1, MarketDataAssumption
  <2>3. \A k \in 1..n : h[k] = closed[d + k] /\ d + k \in 1..Len(closed)
    BY <1>3, <2>2
  <2>. HIDE DEF h, d
  <2>4. \A k \in 1..n : h[k] = ClosedCandle(h[k].open) /\ h[k].open \in Int
    BY <1>4, <1>5, <2>3
  <2>. DEFINE f == [k \in 1..n |-> h[k].open]
  <2>5. f[1] \in Int /\ \A k \in 1..n - 1 : f[k + 1] = f[k] + 1
    BY <2>1, <2>2, <2>4
  <2>6. \A k \in 1..n : f[k] = h[k].open
    OBVIOUS
  <2>. HIDE DEF f
  <2>7. \A k \in 1..n : f[k] = f[1] + k - 1
    BY <2>2, <2>5, Consecutive
  <2>8. \A k \in 1..n : h[k] = ClosedCandle(h[1].open + k - 1)
    BY <2>2, <2>4, <2>6, <2>7
  <2>. QED
    BY <2>1, <2>8
<1>6. HistoryIsExact
  BY <1>5 DEF HistoryIsExact
<1>. QED
  BY <1>2, <1>6

\* What strategies read and are woken by, for any limits and any number of lost,
\* refused and repeated candles, failed requests and reconnections: the window is
\* bounded and sorted, the event handler gets the final values of a candle at
\* most once, and where the venue says which rows are closed, what is closed is
\* final and contiguous_closed_window returns a gapless run of final candles.
THEOREM CandlesAreExactHolds == Spec => []CandlesAreExact
<1>. DEFINE Inv == CandleInv /\ CtxInv /\ BoundsInv
<1>1. Init => Inv
  BY InitCandles, InitContext, InitBounds
<1>2. Inv /\ [Next]_vars => Inv'
  BY NextCandles, NextContext, NextBounds
<1>3. Inv => CandlesAreExact
  <2>. SUFFICES ASSUME Inv
                PROVE  CandlesAreExact
    OBVIOUS
  <2>1. TypeOK /\ ClosedIsFinal /\ HistoryIsExact
    BY TypesHold, HistoryHolds
  <2>2. HandledOnce
    BY DEF CandleInv, WindowInv, Once, HandledOnce
  <2>. QED
    BY <2>1, <2>2 DEF CandlesAreExact
<1>. HIDE DEF Inv
<1>. QED
  BY <1>1, <1>2, <1>3, PTL DEF Spec

LEMMA StreamStep ==
  ASSUME CandleInv, [Next]_vars, phase \in {"stream", "gap"}, window # <<>>, NoHoles(window),
         newest - window[Len(window)].open <= WarmupSize
  PROVE  NoHoles(window')
<1>0. /\ window \in Windows /\ handled \in Counts /\ LinkInv
      /\ newest \in 2..LastCandle /\ newest \in Int
  BY LinkTypes DEF CandleInv, WindowInv, LinkInv
<1>1. CASE UNCHANGED window
  BY <1>1 DEF NoHoles
<1>2. CASE ProcessCandle
  <2>. DEFINE c == Head(stream)
  <2>1. stream # <<>> /\ ~RevealsGap(c) /\ window' = Upsert(window, c)
    BY <1>2 DEF ProcessCandle, Applied
  <2>2. c \in Bar /\ c.open \in Int
    BY <1>0, <2>1, StreamRest, BarType
  <2>3. window[Len(window)].open \in Int
    <3>1. Len(window) \in 1..Len(window)
      BY <1>0, WindowType
    <3>. QED
      BY <1>0, <3>1, WindowType
  <2>4. c.open <= window[Len(window)].open + 1
    BY <2>1, <2>2, <2>3 DEF RevealsGap
  <2>5. Upserts(window, c, Upsert(window, c))
    BY <1>0, <2>2, UpsertFacts
  <2>. QED
    BY <2>1, <2>4, <2>5 DEF Upserts
<1>3. ASSUME NEW s \in 1..LastCandle, BackfillGap(s)
      PROVE  NoHoles(window')
  <2>. DEFINE t == ApplyMany(window, handled, Rows(s, WarmupSize)).window
  <2>1. phase = "gap" /\ s \in asked..newest /\ window' = Upsert(t, pending)
    BY <1>3 DEF BackfillGap, Applied
  <2>2. s \in 2..newest /\ s \in Int /\ asked \in Int /\ asked <= s /\ WarmupSize \in Nat \ {0}
    BY <1>0, <2>1, LinkTypes, MarketDataAssumption
  <2>3. t \in Windows /\ t # <<>> /\ NoHoles(t) /\ s <= t[Len(t)].open
    BY <1>0, <2>2, AnswerLeavesNoHole
  <2>. HIDE DEF t
  <2>4. pending \in Bar /\ pending.open \in Int /\ pending.open <= asked
    BY <1>0, <2>1, <2>2, BarType, FromVenueFacts DEF LinkInv
  <2>5. t[Len(t)].open \in Int
    <3>1. Len(t) \in 1..Len(t)
      BY <2>3, WindowType
    <3>. QED
      BY <2>3, <3>1, WindowType
  <2>6. pending.open <= t[Len(t)].open + 1
    BY <2>2, <2>3, <2>4, <2>5
  <2>7. Upserts(t, pending, Upsert(t, pending))
    BY <2>3, <2>4, UpsertFacts
  <2>. QED
    BY <2>1, <2>3, <2>6, <2>7 DEF Upserts
<1>4. CASE \/ RefreshBaseline
           \/ \E s \in 1..LastCandle : WarmUp(s) \/ Recover(s)
  BY <1>4 DEF RefreshBaseline, WarmUp, Recover
<1>5. CASE \/ VenueUpdates \/ VenueCloses \/ ConnectionLost
           \/ Connect \/ RejectCandle \/ DetectGap \/ RecoverBook \/ RecoveryFails
           \/ \E stable \in BOOLEAN : BackfillFails(stable) \/ NoticeLoss(stable) \/ BookGap(stable)
           \/ \E m \in {"short", "full", "order_book"} : BeginRecovery(m)
  <2>1. UNCHANGED window
    BY <1>5
       DEF VenueUpdates, VenueCloses, ConnectionLost, Connect, RejectCandle, DetectGap,
           RecoverBook, RecoveryFails, BackfillFails, NoticeLoss, BookGap, BeginRecovery,
           candleVars
  <2>. QED
    BY <1>1, <2>1
<1>6. CASE ContextStep
  BY <1>1, <1>6, ContextLeavesCandles
<1>7. CASE UNCHANGED vars
  BY <1>1, <1>7 DEF vars, candleVars
<1>8. CASE CandleStep
  BY <1>2, <1>3, <1>4, <1>5, <1>8 DEF CandleStep
<1>. QED
  BY <1>6, <1>7, <1>8 DEF Next

\* No step takes back what was known.  A closed candle is never opened again, by
\* whichever source; a late or repeated event never replaces newer context data;
\* and a live stream leaves no hole in a window without holes, as long as a
\* backfill of candle_warmup_size rows reaches back to its last candle.
THEOREM NothingTakenBackHolds == Spec => NothingTakenBack
<1>. DEFINE Closed == \A j \in 1..Len(window), k \in 1..Len(window') :
              window[j].closed /\ window'[k].open = window[j].open => window'[k].closed
            Whole == /\ phase \in {"stream", "gap"} /\ window # <<>> /\ NoHoles(window)
                     /\ newest - window[Len(window)].open <= WarmupSize
                     => NoHoles(window')
<1>1. CandleInv /\ [Next]_vars => CandleInv' /\ [Closed]_vars
  BY NextCandles DEF KeepsClosed
<1>2. CandleInv /\ [Next]_vars => [Whole]_vars
  BY StreamStep
<1>3. Spec => ClosedStaysClosed
  BY <1>1, InitCandles, PTL DEF Spec, ClosedStaysClosed
<1>4. Spec => StreamLeavesNoHole
  BY <1>1, <1>2, InitCandles, PTL DEF Spec, StreamLeavesNoHole
<1>. QED
  BY <1>3, <1>4, NeverOlderHolds, PTL DEF NothingTakenBack

=============================================================================
