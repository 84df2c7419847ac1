----------------------------- MODULE MCNodeLabels -----------------------------
(* Listings and strings for NodeLabels: 0 is "", 8 is "N/A", 3 and 4 differ  *)
(* only in a character that a label value cannot have.                      *)
EXTENDS NodeLabels

CONSTANTS w1, w2, na

MCForeign == {<<"other">>}

MCPlain == (1 :> 1) @@ (2 :> 2) @@ (3 :> 3) @@ (4 :> 3) @@ (5 :> 5) @@ (6 :> 6)

MCListings ==
  { {<<8, 5>>, <<8, 6>>},              \* H100: no chassis serial
    {<<1, 5>>, <<1, 6>>},              \* one chassis
    {<<1, 0>>, <<1, 5>>},              \* a GPU without serial
    {<<1, 5>>, <<2, 6>>},              \* two chassis
    {<<3, 5>>, <<4, 5>>, <<4, 8>>},    \* two that look alike once sanitized
    {<<8, 1>>, <<2, 5>>, <<1, 6>>} }   \* two with and one without a serial

MCFewListings == { {<<1, 5>>, <<1, 6>>}, {<<1, 2>>} }
==============================================================================
