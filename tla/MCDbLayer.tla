----------------------------- MODULE MCDbLayer -----------------------------
(* Scenarios of DbLayer for TLC: the operations two programs call, on a row *)
(* or two of the tables they are about.                                     *)
EXTENDS DbLayer

CONSTANTS o1, o2

Is(c, v) == c :> v

a1 == [BrokerID |-> "b", InvestorID |-> "i"]
a2 == [BrokerID |-> "b", InvestorID |-> "j"]
d == "20181120"
x == "cu"

(* Each table's key, as far as the operations show it.                      *)
AccountKey == {"BrokerID", "InvestorID"}
SchemaKeys ==
  [t \in {INVESTOR_TABLE, DSF_TABLE, INFO_TABLE} |-> {"ID"}]
  @@ [t \in {CLOUDORDER_TABLE, HISCLOUDORDER_TABLE} |-> {"CloudOrderID"}]
  @@ [t \in {CASHFLOW_TABLE, HISCASHFLOW_TABLE} |-> {"CashFlowID"}]
  @@ [t \in {ORDER_TABLE, HISORDER_TABLE, EXECORDER_TABLE, HISEXECORDER_TABLE} |->
        {"TradingDay", "OrderSysID"}]
  @@ [t \in {TRADE_TABLE, HISTRADE_TABLE} |-> {"TradingDay", "TradeID"}]
  @@ [t \in {POSITION_TABLE, HISPOSITION_TABLE} |->
        AccountKey \cup {"InstrumentID", "PosiDirection"}]
  @@ [t \in {TRADINGACCOUNT_TABLE, SETTLEMENTCONFIRMINFO_TABLE, AUTOSTOPLOSS_TABLE,
             TRADERISKTMPL_TABLE} |-> AccountKey]
  @@ [t \in {INVESTORSETTLEMENTCASH_TABLE, INVESTORSETTLEMENTSHEET_TABLE} |->
        AccountKey \cup {"TradingDay"}]
  @@ [t \in {INSTRUMENT_TABLE, MARGINRATE_TABLE, COMMISSIONRATE_TABLE, LASTTICK_TABLE} |->
        {"InstrumentID"}]
  @@ TRADECOUNTER_TABLE :> {"TradeCounterID"}
  @@ POSITIONDETAIL_TABLE :> AccountKey \cup {"TradeID"}
  @@ PRODUCT_TABLE :> {"ProductID"}
  @@ USERLOGINLOG_TABLE :> {"UserID"}

(* Rows that no operation writes.                                           *)
GivenRows ==
  {[table |-> EXCHANGE_TABLE, field |-> Is("ExchangeID", "SHFE")],
   [table |-> BROKER_TABLE, field |-> Is("BrokerID", "b")],
   [table |-> MARGINRATEMODEL_TABLE, field |-> Is("MarginRateModelID", 1)],
   [table |-> COMMISSIONRATEMODEL_TABLE, field |-> Is("CommissionRateModelID", 1)],
   [table |-> INVEDTORSERVERPORTCONF_TABLE,
    field |-> [ServerID |-> "s", From |-> 1, To |-> 1]],
   [table |-> MEMBER_TABLE, field |-> [InvestorID |-> "i", MatchID |-> 1]],
   [table |-> MEMBER_TABLE, field |-> [InvestorID |-> "j", MatchID |-> 2]],
   [table |-> INFO_TABLE, field |-> [ID |-> 1, IsCash |-> 1]],
   [table |-> INFO_TABLE, field |-> [ID |-> 2, IsCash |-> 0]]}

Order(a, n) == a @@ [TradingDay |-> d, InstrumentID |-> x, OrderSysID |-> n]
Trade(a, n) == a @@ [TradingDay |-> d, TradeID |-> n]
Position(a, n) ==
  a @@ [TradingDay |-> d, InstrumentID |-> x, PosiDirection |-> "long", HedgeFlag |-> "1",
        Position |-> n]
Detail(a, n) ==
  a @@ [InstrumentID |-> x, Direction |-> "buy", HedgeFlag |-> "1", OpenDate |-> d,
        TradeID |-> "t", Volume |-> n]
CloudOrder(a, n, s) == a @@ [CloudOrderID |-> n, InstrumentID |-> x, Status |-> s]
CashFlow(a, n) == a @@ [CashFlowID |-> n, IsHandled |-> n % 2]
Money(a, n) == a @@ [TradingDay |-> d, Balance |-> n]

Solo(C) == o1 :> C @@ o2 :> {}
Pair(C, D) == o1 :> C @@ o2 :> D

(* Programs that use transactions.                                          *)
Transactions ==
  <<Solo({UpdCloudOrder(CloudOrder(a1, 0, 0)), UpdCloudOrder(CloudOrder(a2, 2, 1)),
         DelInvestorCloudOrder(a1)}),
   Solo({UpdOrder(Order(a1, 1)), CleanOrder, GetAllOrder}),
   Solo({InsertLoginLog_Prepare([UserID |-> "u"]), CreateLoginLogTable}),
   Pair({UpdCloudOrder(CloudOrder(a1, 0, 0))},
        {UpdCloudOrder(CloudOrder(a2, 0, 1)), GetAllCloudOrder})>>

(* Programs that do not.                                                    *)
Operations ==
  <<\* an order service
   Solo({UpdOrder(Order(a1, 1)), UpdOrder(Order(a2, 2)), CleanOrder, GetOrder(a1, d),
         GetAllOrderOn(d), GetAllOrderOf(d, x), GetAllOrder, GetMaxOrderSysID,
         GetInvestorsOfOrder, DelInvestorOrder(a1)}),
   Solo({UpdHisOrder(Order(a1, 1)), GetHisOrder(a1, d), GetAllHisOrder(d),
         DelInvestorHisOrder(a1), UpdExecOrder(Order(a1, 1)), CleanExecOrder,
         GetExecOrder(a1, d), GetAllExecOrderOn(d), GetAllExecOrder}),
   Solo({UpdHisExecOrder(Order(a1, 1)), GetHisExecOrder(a1, d), GetAllHisExecOrder(d)}),
   Solo({UpdTrade(Trade(a1, 1)), UpdTrade(Trade(a2, 2)), CleanTrade, GetTrade(a1),
         GetTradeOn(a1, d), GetAllTradeOn(d), GetAllTrade, GetMaxTradeID,
         GetInvestorsOfTrade, DelInvestorTrade(a1)}),
   Solo({UpdHisTrade(Trade(a1, 1)), GetHisTrade(a1, d), GetHisTradeBetween(a1, "", ""),
         GetHisTradeBetween(a1, d, d), GetAllHisTrade(d), DelInvestorHisTrade(a1)}),
   \* positions
   Solo({UpdPosition(Position(a1, 0)), UpdPosition(Position(a2, 1)), DelZeroPositions,
         DelPosition(Position(a2, 1)), GetPositions(a1), GetAllPositions,
         GetPosition(a1, x, "long"), GetPositionFor(x), DelInvestorPosition(a1)}),
   Solo({UpdHisPosition(Position(a1, 1)), UpdHisPosition(Position(a2, 1)),
         GetHisPositions(a1), GetAllHisPositions, DelInvestorHisPosition(a1)}),
   Solo({UpdPositionDetail(Detail(a1, 0)), UpdPositionDetail(Detail(a2, 1)),
         DelZeroPositionDetails, DelPositionDetail(Detail(a2, 1)), GetPositionDetails(a1),
         GetPositionDetailsOf(a1, x), GetPositionDetailsOn(a1, x, "buy"),
         GetPositionDetailsFor(x), DelInvestorPositionDetails(a1)}),
   \* accounts and settlement
   Solo({UpdTradingAccount(Money(a1, 1)), UpdTradingAccount(Money(a2, 1)),
         GetTradingAccount(a1), DelInvestorTradingAccount(a1),
         UpdSettlementCash(Money(a1, 1)), GetSettlementCash(a1, d),
         DelInvestorSettlementCash(a1)}),
   Solo({UpdSettlementSheet(Money(a1, 1)), GetSettlementSheet(a1, d),
         DelInvestorSettlementSheet(a1), UpdSettlementConfirmInfo(Money(a1, 1)),
         UpdSettlementConfirmInfo(Money(a2, 1)), GetSettlementConfirmInfo(a1),
         DelInvestorSettlementConfirmInfo(a1)}),
   Solo({UpdDailySettlementFlag([ID |-> 1]), UpdDailySettlementFlag([ID |-> 2]),
         GetLastDailySettlementFlag,
         UpdLastTick([TradingDay |-> d, ExchangeID |-> "SHFE", InstrumentID |-> x]),
         GetLastTick(d, "SHFE", x), GetLastTickOn(d)}),
   \* cash flows
   Solo({UpdCashFlow(CashFlow(a1, 0)), UpdCashFlow(CashFlow(a2, 1)), GetUnHandleCashFlow,
         GetCashFlow(a1), GetAllCashFlow, DelCashFlow(CashFlow(a1, 0)),
         DelInvestorCashFlow(a1)}),
   Solo({UpdHisCashFlow(CashFlow(a1, 0)), UpdHisCashFlow(CashFlow(a2, 1)),
         GetUnHandleHisCashFlow, GetHisCashFlow(a1), DelInvestorHisCashFlow(a1)}),
   \* reference data
   Solo({UpdInvestorInfo(a1 @@ Is("ID", 1)), UpdInvestorInfo(a2 @@ Is("ID", 2)),
         GetInvestorInfo(a1), GetInvestorInfoById(1), GetAllInvestorInfo,
         GetInvestorInfoOfServer("s"), DelInvestorInfo(a1), GetServerInvestorRange("s"),
         IsHasDepositAuth("i"), IsHasDepositAuth("j")}),
   Solo({GetExchangeInfo("SHFE"), GetAllExchangeInfo, GetBrokerInfo("b"), GetAllBrokerInfo,
         UpdProductInfo(Is("ProductID", "p")), GetProductInfo("p"), GetAllProductInfo,
         UpdInstrumentInfo(Is("InstrumentID", x)), GetInstrumentInfo(x),
         GetAllInstrumentInfo, DelInstrumentInfo(x)}),
   Solo({GetMarginRateModelInfo(1), GetAllMarginRateModelInfo,
         UpdMarginRateInfo(Is("InstrumentID", x)), GetMarginRateInfo(2, x),
         GetMarginRateInfoOfModel(1), GetAllMarginRateInfo}),
   Solo({GetCommissionRateModelInfo(1), GetAllCommissionRateModelInfo,
         UpdCommissionRateInfo(Is("InstrumentID", x)), GetCommissionRateInfo(1, x),
         GetCommissionRateInfoOfModel(2), GetAllCommissionRateInfo}),
   \* risk control and the login log
   Solo({UpdAutoStopLoss(a1 @@ Is("InstrumentID", x)), DelAutoStopLoss(a1, ""),
         DelAutoStopLoss(a1, x), GetAutoStopLoss(a1, ""), GetAutoStopLoss(a1, x),
         CreateLoginLogTable, InsertLoginLog([UserID |-> "u"]),
         InsertLoginLog_Prepare([UserID |-> "v"])}),
   Solo({UpdTradeRiskTmpl_Prepare(a1 @@ [ClientType |-> 1, TradeRiskTmplTxt |-> "txt"]),
         UpdTradeRiskTmpl(a1 @@ [ClientType |-> 1, TradeRiskTmplTxt |-> "txt"]),
         GetTradeRiskTmpl(a1, 1), DelInvestorTradeRiskTmpl(a1)}),
   \* cloud orders
   Solo({UpdCloudOrder(CloudOrder(a1, 0, 0)), UpdCloudOrder(CloudOrder(a2, 2, 1)),
         GetCloudOrder(a1), GetAllCloudOrder, GetInvalidCloudOrder, DelCloudOrder(x, 0),
         DelInvestorCloudOrder(a1), DelAllInvalidCloudOrder}),
   Solo({UpdHisCloudOrder(CloudOrder(a1, 0, 0)), GetHisCloudOrder(a1),
         UpdTradeCounter(Is("TradeCounterID", 0)), GetTradeCounter}),
   \* the login log of a database without the table
   Solo({CreateLoginLogTable, InsertLoginLog([UserID |-> "u"]),
         InsertLoginLog_Prepare([UserID |-> "v"])})>>

SceneCalls == Transactions \o Operations
Scenes == DOMAIN SceneCalls
TransactionScenes == DOMAIN Transactions
NoLoginLog == [n \in Scenes |-> IF n = Len(SceneCalls) THEN {USERLOGINLOG_TABLE} ELSE {}]
FirstScene == {1}
=============================================================================
