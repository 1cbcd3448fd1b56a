------------------------------- MODULE MCApp -------------------------------
(* Settings for PgwServerApp: common and separate log files, either         *)
(* component the more talkative, a level nobody knows, and a shutdown rate  *)
(* of none.                                                                *)
EXTENDS PgwServerApp

Setting == [file : Files, level : {"DEBUG", "WARN", "loud"}]
MCConfigs == [udp : Setting, http : Setting, rate : {0, 1}]
=============================================================================
