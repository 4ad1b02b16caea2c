----------------------------- MODULE ByteStream -----------------------------
(***************************************************************************)
(* What a relay promises of one direction of a connection, whatever is in  *)
(* between: the receiver gets what the sender sent, in order, each byte    *)
(* once; a clean end of stream comes after all of it; and once the stream  *)
(* has ended or was cut nothing more arrives.                              *)
(***************************************************************************)
EXTENDS Integers, Sequences

CONSTANT Data  \* what the sender has to say

VARIABLES
  sent,  \* how much of Data the sender has sent
  got,   \* what the receiver has got
  end    \* how the stream ended: "open", "fin" or "cut"

streamVars == <<sent, got, end>>

StreamInit == sent = 0 /\ got = <<>> /\ end = "open"

Send ==
  /\ sent' \in sent + 1 .. Len(Data)
  /\ UNCHANGED <<got, end>>

Deliver ==
  /\ end = "open"
  /\ \E n \in Len(got) + 1 .. sent : got' = SubSeq(Data, 1, n)
  /\ UNCHANGED <<sent, end>>

(* The clean end; the last bytes may come with it. *)
Finish ==
  /\ end = "open"
  /\ end' = "fin" /\ got' = SubSeq(Data, 1, sent)
  /\ UNCHANGED sent

Cut ==
  /\ end = "open"
  /\ end' = "cut"
  /\ UNCHANGED <<sent, got>>

(* A clean end ahead of bytes that were sent: no step of a stream, but the *)
(* one an implementation has to except where it passes on a failure as an  *)
(* orderly end.                                                            *)
Truncate ==
  /\ end = "open"
  /\ end' = "fin"
  /\ UNCHANGED <<sent, got>>

StreamNext == Send \/ Deliver \/ Finish \/ Cut

StreamSpec == StreamInit /\ [][StreamNext]_streamVars
=============================================================================
