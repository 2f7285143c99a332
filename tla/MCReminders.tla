------------------------------ MODULE MCReminders ------------------------------
\* Two members, the first of whom linked a chat before, for TLC.
EXTENDS Reminders

CONSTANTS m1, m2, chat1, chat2, code1, code2, l1, l2, s1, s2

MCLinkedAtStart == [m \in Members |-> IF m = m1 THEN chat1 ELSE NoChat]
MCOwnerOf == [c \in Codes |-> IF c = code1 THEN m1 ELSE m2]
MCWorkloads ==
    {[targets |-> <<m1, m2>>, requests |-> {s1}],                  \* two targets
     [targets |-> <<m2>>, requests |-> {s1, l1, code2}],           \* a link during the send
     [targets |-> <<m1>>, requests |-> {s1, s2}],                  \* the campaign is sent twice
     [targets |-> << >>, requests |-> {l1, l2, code1, code2}]}     \* two links race
=============================================================================
