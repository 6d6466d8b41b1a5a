------------------------------ MODULE MCWordCount ------------------------------
\* Instance of WordCount for TLC: the garbage a read may leave is a record of
\* zeros or one that no file of the instance counts to.
EXTENDS WordCount

MCGarbage == {ZeroCount, [lines |-> 40, words |-> -40, chars |-> 40]}
==============================================================================
