------------------------------ MODULE DbTables ------------------------------
(***************************************************************************)
(* The tables of the trading database, named as in                         *)
(* src/dblayer/src/mysql/Tables.h.                                         *)
(***************************************************************************)

INVESTOR_TABLE == "t_etp_investor"
USERLOGINLOG_TABLE == "t_etp_userloginlog"
EXCHANGE_TABLE == "t_etp_exchange"
BROKER_TABLE == "t_etp_broker"
PRODUCT_TABLE == "t_etp_product"
INSTRUMENT_TABLE == "t_etp_instrument"
MARGINRATEMODEL_TABLE == "t_etp_marginratemodel"
MARGINRATE_TABLE == "t_etp_marginrate"
COMMISSIONRATEMODEL_TABLE == "t_etp_commissionratemodel"
COMMISSIONRATE_TABLE == "t_etp_commissionrate"
ORDER_TABLE == "t_etp_order"
TRADE_TABLE == "t_etp_trade"
POSITION_TABLE == "t_etp_position"
POSITIONDETAIL_TABLE == "t_etp_positiondetail"
TRADINGACCOUNT_TABLE == "t_etp_tradingaccount"
CLOUDORDER_TABLE == "t_etp_cloudorder"
HISCLOUDORDER_TABLE == "t_etp_hiscloudorder"
CASHFLOW_TABLE == "t_etp_cashflow"
HISCASHFLOW_TABLE == "t_etp_hiscashflow"
INVESTORSETTLEMENTCASH_TABLE == "t_etp_investorsettlementcash"
INVESTORSETTLEMENTSHEET_TABLE == "t_etp_investorsettlementsheet"
SETTLEMENTCONFIRMINFO_TABLE == "t_etp_settlementconfirminfo"
HISPOSITION_TABLE == "t_etp_hisposition"
LASTTICK_TABLE == "t_etp_lasttick"
HISORDER_TABLE == "t_etp_hisorder"
HISTRADE_TABLE == "t_etp_histrade"
DSF_TABLE == "t_etp_dailysettlementflag"
INFO_TABLE == "t_m_info"
MEMBER_TABLE == "t_m_member"
INVEDTORSERVERPORTCONF_TABLE == "t_m_investorserverportconf"
AUTOSTOPLOSS_TABLE == "t_m_AutoStopLoss"
TRADERISKTMPL_TABLE == "t_etp_traderisktmpl"
TRADECOUNTER_TABLE == "t_etp_tradecounter"
EXECORDER_TABLE == "t_etp_execorder"
HISEXECORDER_TABLE == "t_etp_hisexecorder"
=============================================================================
