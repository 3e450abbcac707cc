---------------------------- MODULE MCController ----------------------------
(***************************************************************************)
(* Small instances of Controller for TLC.  The word is four bits, so that  *)
(* setpoints wrap; the other scales keep the order of the build's: a       *)
(* minimum target above zero and below the largest, a largest fan speed of *)
(* several steps, sensor counts finer than a pascal.                       *)
(***************************************************************************)
EXTENDS Controller

CONSTANTS Setpoints  \* the setpoints of well-formed settings payloads

NoNet == NoText
OneCharNet == [s \in Stages |-> 1]

\* Well-formed commands alone.
PlainPayloads ==
  [spaced : {TRUE}, auto : {"true", "false"}, setpoint : Setpoints]

\* Well-formed commands for both modes, one without blanks and one whose mode
\* is no boolean.
SomePayloads ==
  PlainPayloads \union
  {[spaced |-> FALSE, auto |-> "junk", setpoint |-> 0],
   [spaced |-> TRUE, auto |-> "junk", setpoint |-> 0]}

NoPayloads == {}

NegativePressures == {-3, 7}
SomeSetpoints == {2, 9}
=============================================================================
