---------------------------- MODULE MCQuoteFilters ----------------------------
(* QuoteFilters for TLC: three subscriptions that share papers and filters. *)
EXTENDS QuoteFilters

MCKeys == {"filter_f", "filter_q"}
MCPapers == 1 .. 2
MCSubs == 1 .. 3
MCWant ==
    <<{<<"filter_f", 1>>, <<"filter_q", 1>>},
      {<<"filter_f", 1>>, <<"filter_f", 2>>},
      {<<"filter_f", 2>>, <<"filter_q", 1>>}>>
=============================================================================
