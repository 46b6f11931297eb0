------------------------------ MODULE MCActors ------------------------------
\* Both drivers with the actors of three modules, of which two share a storage id.
EXTENDS ActorCf

CONSTANTS a, b

MCStorageId == [x \in Classes |-> IF x = "bar.pinger" THEN <<"q">> ELSE <<"p">>]
MCLabels == {<<"m">>, <<"n">>}
=============================================================================
