------------------------------ MODULE BallotBox ------------------------------
(***************************************************************************)
(* What the voting service promises: a vote that has been opened collects  *)
(* at most one ballot from each of the people entitled to vote, and a      *)
(* ballot in the box is never changed or taken out.                        *)
(***************************************************************************)
CONSTANTS Events, Voters, Options

VARIABLES
    opened,     \* the events that have been opened
    box         \* box[e]: the ballots cast for e

Ballot == [member: Voters, option: Options]

Init == opened = {} /\ box = [e \in Events |-> {}]

Open(e) == opened' = opened \cup {e} /\ UNCHANGED box

Cast(e, b) ==
    /\ e \in opened
    /\ \A c \in box[e] : c.member # b.member
    /\ box' = [box EXCEPT ![e] = @ \cup {b}]
    /\ UNCHANGED opened

Next == \E e \in Events : Open(e) \/ \E b \in Ballot : Cast(e, b)

Spec == Init /\ [][Next]_<<opened, box>>
=============================================================================
