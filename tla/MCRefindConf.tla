---------------------------- MODULE MCRefindConf ----------------------------
(* Small instances of RefindConf for TLC.                                   *)
EXTENDS RefindConf

StockTexts == {<<>>, <<"timeout">>, <<"timeout", "menuentry">>}
=============================================================================
