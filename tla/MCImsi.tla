------------------------------- MODULE MCImsi -------------------------------
(* Inputs for the run of Imsi: every IMSI over three digits up to the limit, *)
(* and byte strings, up to one byte too long, over bytes of each kind: two   *)
(* digits, a filler in the high or the low nibble or in both, a nibble that  *)
(* is neither digit nor filler.                                             *)
EXTENDS Imsi

Strings(S, n) == UNION {[1 .. m -> S] : m \in 0 .. n}

MCMaxDigits == 7
MCSources == Strings({0, 1, 9}, MCMaxDigits) \ {<<>>}
MCDatagrams == Strings({0, 33, 153, 245, 255, 95, 161, 26}, 4)
=============================================================================
