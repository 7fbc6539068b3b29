--------------------------- MODULE MCSendMessage ---------------------------
(* Instances of SendMessage for TLC: one step with one channel.  The         *)
(* theorems of SendMessageProofs are about any number of both.              *)
EXTENDS SendMessage, TLC
CONSTANTS m1, s1
OneChannel == {m1}
OneStep == {s1}
StepOfEach == [m \in Messages |-> s1]
Interchangeable == Permutations(Workers)
=============================================================================
