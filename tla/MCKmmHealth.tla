---------------------------- MODULE MCKmmHealth ----------------------------
(***************************************************************************)
(* Three Mirror Maker nodes. PROMETHEUS_URLS is unset, lists them in the   *)
(* documented form (all three, or two), lists them without quotes, is an   *)
(* empty list, or ends with a stray comma.                                 *)
(***************************************************************************)
EXTENDS KmmHealth

MCUrls == {"u1", "u2", "u3"}

MCInputs ==
    { Unset,
      Repr(<<"u1", "u2", "u3">>),
      Repr(<<"u3", "u1">>),
      <<"[", "u1", ",", "u2", ",", "u3", "]">>,
      <<"[", "]">>,
      <<"[", "'", "u1", "'", ",", " ", "'", "u2", "'", ",", "]">> }
=============================================================================
