--------------------------- MODULE MCPublicBroker ---------------------------
EXTENDS PublicBroker, TLC

MCTopics == {<<"public", "p">>, <<"users", "u1", "p">>}
MCFilters == {<<"#">>, <<"public", "#">>, <<"users", "u1", "#">>, <<"users", "+", "#">>,
              <<"+", "u1", "p">>}
MCClientIds == Permutations(ClientIds)
=============================================================================
