----------------------------- MODULE MCXrayCore -----------------------------
EXTENDS XrayCore

\* Processes that come and go without a word, and ones that talk.
MCScenarios ==
    {[lines |-> 0, mishaps |-> 2, left |-> "node1", beside |-> 0],
     [lines |-> 0, mishaps |-> 1, left |-> "init", beside |-> 1],
     [lines |-> 1, mishaps |-> 1, left |-> "none", beside |-> 0],
     [lines |-> 2, mishaps |-> 0, left |-> "none", beside |-> 1]}
=============================================================================
