------------------------------- MODULE MCVoting -------------------------------
\* One event whose window ends before the clock does, for TLC.
EXTENDS Voting

OpensAtOne == [e \in Events |-> 1]
EndsAtTwo == [e \in Events |-> 2]
=============================================================================
