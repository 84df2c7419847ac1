----------------------------- MODULE MCExporters -----------------------------
(* Listings for Exporters: 0 is the empty serial number. *)
EXTENDS Exporters

MCListings ==
  { {<<1, 3>>, <<1, 4>>},              \* one chassis, two GPUs
    {<<0, 3>>},                        \* no chassis: nothing to write
    {<<0, 3>>, <<2, 0>>, <<2, 4>>} }   \* one valid record of three
==============================================================================
