--------------------------- MODULE MCEncodeFamilies ---------------------------
(***************************************************************************)
(* Small inputs of EncodeFamilies for TLC: a family of up to two metrics,  *)
(* or two families of one metric each, of every type, with and without a   *)
(* timestamp, with no bounds, finite ones or +Inf, and a clock on either   *)
(* side of the epoch.                                                      *)
(***************************************************************************)
EXTENDS EncodeFamilies, SequencesExt

MCMetrics(types) ==
  [labels : {{}, {<<"zone", "a">>}},
   time   : {NoTime, 0, 5},
   bounds : IF types \subseteq {"HISTOGRAM", "SUMMARY"}
              THEN {<<>>, <<"0.5">>, <<"0.5", Inf>>} ELSE {<<>>}]

MCClocks == {-1, 9}

MCTypes == {"COUNTER", "GAUGE", "UNTYPED", "HISTOGRAM", "SUMMARY", "GAUGE_HISTOGRAM"}

MCNames == {<<"h">>, <<"h", "_count">>}

MCFamilies(n) ==
  UNION {[name : MCNames, type : {type}, metrics : SeqOf(MCMetrics({type}), n)] : type \in MCTypes}

MCInputs ==
  {families \in {<<f>> : f \in MCFamilies(2)} \cup {<<f, g>> : f, g \in MCFamilies(1)} :
     Registered(families)}

=============================================================================
