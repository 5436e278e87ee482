------------------------------- MODULE Channel -------------------------------
(***************************************************************************)
(* What SendProtobufMessage and ReadProtobufMessage promise of a           *)
(* connection: whole messages, in the order in which they were sent, up to *)
(* the point where the connection breaks.                                  *)
(***************************************************************************)
EXTENDS Naturals, Sequences

CONSTANT Messages

VARIABLES sent, received

cvars == <<sent, received>>

CInit == sent = << >> /\ received = << >>

Put(m) == sent' = Append(sent, m) /\ UNCHANGED received

Get ==
  /\ Len(received) < Len(sent)
  /\ received' = Append(received, sent[Len(received) + 1])
  /\ UNCHANGED sent

CNext == (\E m \in Messages : Put(m)) \/ Get

CSpec == CInit /\ [][CNext]_cvars
==============================================================================
