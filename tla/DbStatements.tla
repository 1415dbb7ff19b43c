---------------------------- MODULE DbStatements ----------------------------
(***************************************************************************)
(* The operations of CDBOperation (src/dblayer/src/mysql/DBOperation.cpp): *)
(* which statement each one sends and how it answers.                      *)
(*                                                                         *)
(* A row is [table, field]; a field record holds the columns that some     *)
(* WHERE clause, key or second statement looks at, the others are one      *)
(* payload column.  An account is the pair of columns BrokerID and         *)
(* InvestorID.  DbLayer.tla says how an operation is carried out.          *)
(***************************************************************************)
EXTENDS DbTables, Integers, TLC

(* Statements.  "where" and "unless" give, for the columns the clause       *)
(* names, the values it admits and those it excludes.                       *)
All == <<>>
ReplaceInto(t, f) == [op |-> "replace", table |-> t, field |-> f]
InsertInto(t, f) == [op |-> "insert", table |-> t, field |-> f]
DeleteFrom(t, w, u) == [op |-> "delete", table |-> t, where |-> w, unless |-> u]
Truncate(t) == [op |-> "truncate", table |-> t]
CreateTable(t) == [op |-> "create", table |-> t]
SelectFrom(t, w, u) == [op |-> "select", table |-> t, where |-> w, unless |-> u]
SelectMax(t, c) == [op |-> "max", table |-> t, column |-> c]
SelectLast(t, c) == [op |-> "last", table |-> t, column |-> c]
Malformed(t) == [op |-> "malformed", table |-> t]

(* How an operation ends.  The outcome of its last statement is "failed",   *)
(* "none" (no row) or "some"; "return -1", "0" and "1" are spelt as such.   *)
Answer ==
  [done    |-> [failed |-> "false", none |-> "true",  some |-> "true"],
   safe    |-> [failed |-> "false", none |-> "true",  some |-> "true"],
   blind   |-> [failed |-> "true",  none |-> "true",  some |-> "true"],
   create  |-> [failed |-> "throw", none |-> "true",  some |-> "true"],
   rows    |-> [failed |-> "false", none |-> "true",  some |-> "true"],
   some    |-> [failed |-> "false", none |-> "false", some |-> "true"],
   coded   |-> [failed |-> "-1",    none |-> "0",     some |-> "1"],
   account |-> [failed |-> "0",     none |-> "0",     some |-> "1"]]

(* What it answers when ConnectDB throws: the exception leaves the          *)
(* operations that have no try block.                                       *)
Unconnected ==
  [done |-> "throw", safe |-> "false", blind |-> "false", create |-> "throw",
   rows |-> "false", some |-> "false", coded |-> "-1", account |-> "-1"]

(* An operation: its statement, its way of answering and what follows when  *)
(* the statement gave a row or changed some.                                *)
Operation(s, a) == [stmt |-> s, answer |-> a, then |-> "none"]
Followed(s, a, d, n) == [stmt |-> s, answer |-> a, then |-> d, next |-> n]

Upd(t, f) == Operation(ReplaceInto(t, f), "done")
Del(t, w) == Operation(DeleteFrom(t, w, All), "done")
DelUnless(t, u) == Operation(DeleteFrom(t, All, u), "done")
Clean(t) == Operation(Truncate(t), "done")
Rows(t, w) == Operation(SelectFrom(t, w, All), "rows")
Some(t, w) == Operation(SelectFrom(t, w, All), "some")
SomeUnless(t, u) == Operation(SelectFrom(t, All, u), "some")
Coded(t, w) == Operation(SelectFrom(t, w, All), "coded")
MaxOf(t, c) == Operation(SelectMax(t, c), "coded")

(* The statement that follows, f being the first row: the largest number    *)
(* ("max"), the row just written ("again"), the model of a rate, the        *)
(* investors of a server ("range"), a member's authorisation ("info").      *)
Second(c, f) ==
  CASE c.then \in {"max", "again", "model"} -> c.next
    [] c.then = "range" -> SelectFrom(INVESTOR_TABLE, [ID |-> f.From .. f.To], All)
    [] c.then = "info" -> SelectFrom(INFO_TABLE, [ID |-> {f.MatchID}], [IsCash |-> {0}])

SecondAnswer ==
  [max   |-> [failed |-> "false", none |-> "true",  some |-> "true"],
   again |-> [failed |-> "true",  none |-> "true",  some |-> "true"],
   model |-> [failed |-> "true",  none |-> "true",  some |-> "true"],
   range |-> [failed |-> "false", none |-> "false", some |-> "true"],
   info  |-> [failed |-> "false", none |-> "false", some |-> "true"]]

(* A row with no number yet is stored under a new one, and the operation    *)
(* reads the largest number back.                                           *)
Numbered(f, c) == [f EXCEPT ![c] = IF @ <= 0 THEN 0 ELSE @]
UpdNumbered(t, f, c) ==
  IF f[c] = 0 THEN Followed(ReplaceInto(t, Numbered(f, c)), "done", "max", SelectMax(t, c))
              ELSE Upd(t, Numbered(f, c))

(* WHERE clauses.                                                           *)
Of(a) == [BrokerID |-> {a.BrokerID}, InvestorID |-> {a.InvestorID}]
OfDay(a, day) ==
  [BrokerID |-> {a.BrokerID}, InvestorID |-> {a.InvestorID}, TradingDay |-> {day}]
OfInstrument(a, i) ==
  [BrokerID |-> {a.BrokerID}, InvestorID |-> {a.InvestorID}, InstrumentID |-> {i}]
On(day) == [TradingDay |-> {day}]
For(i) == [InstrumentID |-> {i}]
Key(c, v) == [x \in {c} |-> {v}]

(* Login log.  DbLayer.Absent says when the table cannot be created.        *)
CreateLoginLogTable == Operation(CreateTable(USERLOGINLOG_TABLE), "create")
InsertLoginLog_Prepare(log) == Operation(InsertInto(USERLOGINLOG_TABLE, log), "blind")
InsertLoginLog(log) == Operation(InsertInto(USERLOGINLOG_TABLE, log), "done")

(* Investors.                                                               *)
GetInvestorInfo(a) == Some(INVESTOR_TABLE, Of(a))
UpdInvestorInfo(f) ==
  Followed(ReplaceInto(INVESTOR_TABLE, f), "done", "again", GetInvestorInfo(f).stmt)
GetInvestorInfoById(id) == Some(INVESTOR_TABLE, Key("ID", id))
GetAllInvestorInfo == Some(INVESTOR_TABLE, All)
GetInvestorInfoOfServer(server) ==
  [stmt |-> SelectFrom(INVEDTORSERVERPORTCONF_TABLE, Key("ServerID", server), All),
   answer |-> "some", then |-> "range"]
DelInvestorInfo(a) == Del(INVESTOR_TABLE, Of(a))
GetServerInvestorRange(server) == Some(INVEDTORSERVERPORTCONF_TABLE, Key("ServerID", server))
IsHasDepositAuth(investor) ==
  [stmt |-> SelectFrom(MEMBER_TABLE, Key("InvestorID", investor), All),
   answer |-> "some", then |-> "info"]

(* Exchanges, brokers, products and instruments.                            *)
GetExchangeInfo(x) == Some(EXCHANGE_TABLE, Key("ExchangeID", x))
GetAllExchangeInfo == Some(EXCHANGE_TABLE, All)
GetBrokerInfo(b) == Some(BROKER_TABLE, Key("BrokerID", b))
GetAllBrokerInfo == Some(BROKER_TABLE, All)
UpdProductInfo(f) == Upd(PRODUCT_TABLE, f)
GetProductInfo(p) == Some(PRODUCT_TABLE, Key("ProductID", p))
GetAllProductInfo == Some(PRODUCT_TABLE, All)
UpdInstrumentInfo(f) == Upd(INSTRUMENT_TABLE, f)
GetInstrumentInfo(i) == Some(INSTRUMENT_TABLE, For(i))
GetAllInstrumentInfo == Some(INSTRUMENT_TABLE, All)
DelInstrumentInfo(i) == Del(INSTRUMENT_TABLE, For(i))

(* Margin and commission rates.                                             *)
GetMarginRateModelInfo(m) == Some(MARGINRATEMODEL_TABLE, Key("MarginRateModelID", m))
GetAllMarginRateModelInfo == Some(MARGINRATEMODEL_TABLE, All)
UpdMarginRateInfo(f) == Upd(MARGINRATE_TABLE, f)
(* The rates are scaled by the model if it is found, and answered as they    *)
(* are if it is not.                                                        *)
GetMarginRateInfo(m, i) ==
  Followed(SelectFrom(MARGINRATE_TABLE, For(i), All), "some", "model", GetMarginRateModelInfo(m).stmt)
GetMarginRateInfoOfModel(m) ==
  Followed(SelectFrom(MARGINRATE_TABLE, All, All), "some", "model", GetMarginRateModelInfo(m).stmt)
GetAllMarginRateInfo == Some(MARGINRATE_TABLE, All)
GetCommissionRateModelInfo(m) == Some(COMMISSIONRATEMODEL_TABLE, Key("CommissionRateModelID", m))
GetAllCommissionRateModelInfo == Some(COMMISSIONRATEMODEL_TABLE, All)
UpdCommissionRateInfo(f) == Upd(COMMISSIONRATE_TABLE, f)
(* The rates are scaled by the model if it is found, and answered as they    *)
(* are if it is not.                                                        *)
GetCommissionRateInfo(m, i) ==
  Followed(SelectFrom(COMMISSIONRATE_TABLE, For(i), All), "some", "model", GetCommissionRateModelInfo(m).stmt)
GetCommissionRateInfoOfModel(m) ==
  Followed(SelectFrom(COMMISSIONRATE_TABLE, All, All), "some", "model", GetCommissionRateModelInfo(m).stmt)
GetAllCommissionRateInfo == Some(COMMISSIONRATE_TABLE, All)

(* Orders and their history.                                                *)
UpdOrder(f) == Upd(ORDER_TABLE, f)
CleanOrder == Clean(ORDER_TABLE)
GetOrder(a, day) == Rows(ORDER_TABLE, OfDay(a, day))
GetAllOrderOn(day) == Rows(ORDER_TABLE, On(day))
GetAllOrderOf(day, i) == Rows(ORDER_TABLE, On(day) @@ For(i))
GetAllOrder == Rows(ORDER_TABLE, All)
GetMaxOrderSysID == MaxOf(ORDER_TABLE, "OrderSysID")
(* The program keeps the distinct investors of the rows.                     *)
GetInvestorsOfOrder == Rows(ORDER_TABLE, All)
DelInvestorOrder(a) == Del(ORDER_TABLE, Of(a))
UpdHisOrder(f) == Upd(HISORDER_TABLE, f)
GetHisOrder(a, day) == Rows(HISORDER_TABLE, OfDay(a, day))
GetAllHisOrder(day) == Rows(HISORDER_TABLE, On(day))
DelInvestorHisOrder(a) == Del(HISORDER_TABLE, Of(a))

(* Trades and their history.                                                *)
UpdTrade(f) == Upd(TRADE_TABLE, f)
CleanTrade == Clean(TRADE_TABLE)
GetTrade(a) == Rows(TRADE_TABLE, Of(a))
GetTradeOn(a, day) == Rows(TRADE_TABLE, OfDay(a, day))
GetAllTradeOn(day) == Rows(TRADE_TABLE, On(day))
GetAllTrade == Rows(TRADE_TABLE, All)
GetMaxTradeID == MaxOf(TRADE_TABLE, "TradeID")
GetInvestorsOfTrade == Rows(TRADE_TABLE, All)
DelInvestorTrade(a) == Del(TRADE_TABLE, Of(a))
UpdHisTrade(f) == Upd(HISTRADE_TABLE, f)
GetHisTrade(a, day) == Rows(HISTRADE_TABLE, OfDay(a, day))
(* With a date the quote after the investor has no partner.                  *)
GetHisTradeBetween(a, begin, end) ==
  IF begin = "" /\ end = "" THEN Rows(HISTRADE_TABLE, Of(a))
  ELSE Operation(Malformed(HISTRADE_TABLE), "rows")
GetAllHisTrade(day) == Rows(HISTRADE_TABLE, On(day))
DelInvestorHisTrade(a) == Del(HISTRADE_TABLE, Of(a))

(* Trading accounts and settlement.                                         *)
UpdTradingAccount(f) == Operation(ReplaceInto(TRADINGACCOUNT_TABLE, f), "safe")
GetTradingAccount(a) == Operation(SelectFrom(TRADINGACCOUNT_TABLE, Of(a), All), "account")
DelInvestorTradingAccount(a) == Del(TRADINGACCOUNT_TABLE, Of(a))
UpdSettlementCash(f) == Upd(INVESTORSETTLEMENTCASH_TABLE, f)
GetSettlementCash(a, day) == Coded(INVESTORSETTLEMENTCASH_TABLE, OfDay(a, day))
DelInvestorSettlementCash(a) == Del(INVESTORSETTLEMENTCASH_TABLE, Of(a))
UpdSettlementSheet(f) == Upd(INVESTORSETTLEMENTSHEET_TABLE, f)
GetSettlementSheet(a, day) == Coded(INVESTORSETTLEMENTSHEET_TABLE, OfDay(a, day))
DelInvestorSettlementSheet(a) == Del(INVESTORSETTLEMENTSHEET_TABLE, Of(a))
UpdSettlementConfirmInfo(f) == Upd(SETTLEMENTCONFIRMINFO_TABLE, f)
GetSettlementConfirmInfo(a) == Coded(SETTLEMENTCONFIRMINFO_TABLE, Of(a))
DelInvestorSettlementConfirmInfo(a) == Del(SETTLEMENTCONFIRMINFO_TABLE, Of(a))
UpdDailySettlementFlag(f) == Upd(DSF_TABLE, f)
GetLastDailySettlementFlag == Operation(SelectLast(DSF_TABLE, "ID"), "coded")

(* Positions, their history and their details.                              *)
UpdPosition(f) == Upd(POSITION_TABLE, f)
DelPosition(f) ==
  Del(POSITION_TABLE, OfInstrument(f, f.InstrumentID) @@ On(f.TradingDay)
      @@ Key("PosiDirection", f.PosiDirection) @@ Key("HedgeFlag", f.HedgeFlag))
DelZeroPositions == Del(POSITION_TABLE, Key("Position", 0))
GetPositions(a) == Some(POSITION_TABLE, Of(a))
GetAllPositions == Some(POSITION_TABLE, All)
GetPosition(a, i, d) == Some(POSITION_TABLE, OfInstrument(a, i) @@ Key("PosiDirection", d))
GetPositionFor(i) == Some(POSITION_TABLE, For(i))
DelInvestorPosition(a) == Del(POSITION_TABLE, Of(a))
UpdHisPosition(f) == Upd(HISPOSITION_TABLE, f)
GetHisPositions(a) == Some(HISPOSITION_TABLE, Of(a))
GetAllHisPositions == Some(HISPOSITION_TABLE, All)
DelInvestorHisPosition(a) == Del(HISPOSITION_TABLE, Of(a))
UpdPositionDetail(f) == Upd(POSITIONDETAIL_TABLE, f)
DelPositionDetail(f) ==
  Del(POSITIONDETAIL_TABLE, OfInstrument(f, f.InstrumentID) @@ Key("Direction", f.Direction)
      @@ Key("HedgeFlag", f.HedgeFlag) @@ Key("OpenDate", f.OpenDate) @@ Key("TradeID", f.TradeID))
DelZeroPositionDetails == Del(POSITIONDETAIL_TABLE, Key("Volume", 0))
GetPositionDetails(a) == Some(POSITIONDETAIL_TABLE, Of(a))
GetPositionDetailsOf(a, i) == Some(POSITIONDETAIL_TABLE, OfInstrument(a, i))
GetPositionDetailsOn(a, i, d) == Some(POSITIONDETAIL_TABLE, OfInstrument(a, i) @@ Key("Direction", d))
GetPositionDetailsFor(i) == Some(POSITIONDETAIL_TABLE, For(i))
DelInvestorPositionDetails(a) == Del(POSITIONDETAIL_TABLE, Of(a))

(* Cloud orders and their history.                                          *)
UpdCloudOrder(f) == UpdNumbered(CLOUDORDER_TABLE, f, "CloudOrderID")
GetCloudOrder(a) == Some(CLOUDORDER_TABLE, Of(a))
GetAllCloudOrder == Some(CLOUDORDER_TABLE, All)
GetInvalidCloudOrder == SomeUnless(CLOUDORDER_TABLE, Key("Status", 0))
DelCloudOrder(i, s) == Del(CLOUDORDER_TABLE, For(i) @@ Key("Status", s))
DelInvestorCloudOrder(a) == Del(CLOUDORDER_TABLE, Of(a))
DelAllInvalidCloudOrder == DelUnless(CLOUDORDER_TABLE, Key("Status", 0))
(* Mutant: the number is read back from the other table.                    *)
UpdHisCloudOrderSlip(f) ==
  IF f["CloudOrderID"] = 0
  THEN Followed(ReplaceInto(HISCLOUDORDER_TABLE, f), "done", "max",
                SelectMax(CLOUDORDER_TABLE, "CloudOrderID"))
  ELSE Upd(HISCLOUDORDER_TABLE, f)
UpdHisCloudOrder(f) == UpdNumbered(HISCLOUDORDER_TABLE, f, "CloudOrderID")
GetHisCloudOrder(a) == Some(HISCLOUDORDER_TABLE, Of(a))

(* Cash flows and their history.                                            *)
UpdCashFlow(f) == Upd(CASHFLOW_TABLE, f)
GetUnHandleCashFlow == Rows(CASHFLOW_TABLE, Key("IsHandled", 0))
GetCashFlow(a) == Rows(CASHFLOW_TABLE, Of(a))
GetAllCashFlow == Rows(CASHFLOW_TABLE, All)
DelCashFlow(f) == Del(CASHFLOW_TABLE, Key("CashFlowID", f.CashFlowID))
DelInvestorCashFlow(a) == Del(CASHFLOW_TABLE, Of(a))
UpdHisCashFlow(f) == Upd(HISCASHFLOW_TABLE, f)
GetUnHandleHisCashFlow == Rows(HISCASHFLOW_TABLE, Key("IsHandled", 0))
GetHisCashFlow(a) == Rows(HISCASHFLOW_TABLE, Of(a))
DelInvestorHisCashFlow(a) == Del(HISCASHFLOW_TABLE, Of(a))

(* Ticks.                                                                   *)
UpdLastTick(f) == Upd(LASTTICK_TABLE, f)
GetLastTick(day, x, i) == Coded(LASTTICK_TABLE, On(day) @@ Key("ExchangeID", x) @@ For(i))
GetLastTickOn(day) == Coded(LASTTICK_TABLE, On(day))

(* Risk control: stop loss, templates, trade counters.                      *)
UpdAutoStopLoss(f) == Upd(AUTOSTOPLOSS_TABLE, f)
OfMaybe(a, i) == IF i = "" THEN Of(a) ELSE OfInstrument(a, i)
DelAutoStopLoss(a, i) == Del(AUTOSTOPLOSS_TABLE, OfMaybe(a, i))
GetAutoStopLoss(a, i) == Some(AUTOSTOPLOSS_TABLE, OfMaybe(a, i))
UpdTradeRiskTmpl_Prepare(f) == Operation(InsertInto(TRADERISKTMPL_TABLE, f), "blind")
(* The text is left out of the values: the row gets an empty one.            *)
UpdTradeRiskTmpl(f) == Upd(TRADERISKTMPL_TABLE, [f EXCEPT !.TradeRiskTmplTxt = ""])
GetTradeRiskTmpl(a, c) == Some(TRADERISKTMPL_TABLE, Of(a) @@ Key("ClientType", c))
DelInvestorTradeRiskTmpl(a) == Del(TRADERISKTMPL_TABLE, Of(a))
UpdTradeCounter(f) == UpdNumbered(TRADECOUNTER_TABLE, f, "TradeCounterID")
GetTradeCounter == Some(TRADECOUNTER_TABLE, All)

(* Exercise orders and their history.                                       *)
UpdExecOrder(f) == Upd(EXECORDER_TABLE, f)
CleanExecOrder == Clean(EXECORDER_TABLE)
GetExecOrder(a, day) == Rows(EXECORDER_TABLE, OfDay(a, day))
GetAllExecOrderOn(day) == Rows(EXECORDER_TABLE, On(day))
GetAllExecOrder == Rows(EXECORDER_TABLE, All)
UpdHisExecOrder(f) == Upd(HISEXECORDER_TABLE, f)
GetHisExecOrder(a, day) == Rows(HISEXECORDER_TABLE, OfDay(a, day))
GetAllHisExecOrder(day) == Rows(HISEXECORDER_TABLE, On(day))
=============================================================================
