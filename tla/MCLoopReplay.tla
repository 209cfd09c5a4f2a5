---------------------------- MODULE MCLoopReplay ----------------------------
EXTENDS LoopReplay

OneKey == [env |-> <<"dev", "test", "stage", "prod">>]

TwoKeys == [env |-> <<"dev", "prod">>, region |-> <<"eu", "us">>]

OneOrTwoKeys == {OneKey, TwoKeys}
=============================================================================
