------------------------------ MODULE OneSend ------------------------------
(***************************************************************************)
(* What DripDesk promises about provider calls, without its queue, its     *)
(* workers or its database: Decision 027 of DECISIONS.md, read from what   *)
(* sendProviderMessage does.  Each message is claimed, handed to its       *)
(* provider once per claim, and then closed, reopened, or left claimed for *)
(* an operator.  SendMessage implements this specification.                *)
(***************************************************************************)
EXTENDS Naturals

CONSTANT Messages

VARIABLES
  phase,   \* phase[m]: where the sending of m stands
  copies,  \* copies[m]: how many times a provider took m in
  doubts   \* doubts[m]: how many of those times it looked like a failure

vars == <<phase, copies, doubts>>

Phase == {"open", "claimed", "accepted", "refused", "closed"}

Init ==
  /\ phase = [m \in Messages |-> "open"]
  /\ copies = [m \in Messages |-> 0]
  /\ doubts = [m \in Messages |-> 0]

Move(m, from, to) ==
  /\ phase[m] = from
  /\ phase' = [phase EXCEPT ![m] = to]

Claim(m) == Move(m, "open", "claimed") /\ UNCHANGED <<copies, doubts>>

\* The provider takes the message in and says so.
Accept(m) ==
  /\ Move(m, "claimed", "accepted")
  /\ copies' = [copies EXCEPT ![m] = @ + 1]
  /\ UNCHANGED doubts

Refuse(m) == Move(m, "claimed", "refused") /\ UNCHANGED <<copies, doubts>>

\* The provider takes the message in and the caller sees an error.
Doubt(m) ==
  /\ Move(m, "claimed", "refused")
  /\ copies' = [copies EXCEPT ![m] = @ + 1]
  /\ doubts' = [doubts EXCEPT ![m] = @ + 1]

Reopen(m) == Move(m, "refused", "open") /\ UNCHANGED <<copies, doubts>>

Close(m) == Move(m, "accepted", "closed") /\ UNCHANGED <<copies, doubts>>

Next == \E m \in Messages :
  Claim(m) \/ Accept(m) \/ Refuse(m) \/ Doubt(m) \/ Reopen(m) \/ Close(m)

Spec == Init /\ [][Next]_vars

=============================================================================
