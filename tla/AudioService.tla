----------------------------- MODULE AudioService -----------------------------
(***************************************************************************)
(* What the configuration of the audio port promises the host stack,       *)
(* without the HCI commands it takes: each request is answered at most     *)
(* once, and only in the session it was made in; nothing but a request in  *)
(* progress changes what the port serves; and to a host that waits for its *)
(* answers, success means that the port serves the codec asked for.        *)
(***************************************************************************)
EXTENDS Naturals

\* CVSD is what the port runs after power on.
Codec == {"CVSD", "MSBC"}

VARIABLES
  waits,     \* the host waits for an answer before it acts again
  attached,  \* the library holds the stack's callbacks
  pending,   \* requests not yet answered
  asked,     \* the codec last asked for
  serves,    \* the codec the port is set for throughout, or "none"
  answer     \* the last answer, "none" since the last request

vars == <<waits, attached, pending, asked, serves, answer>>

Serves == Codec \cup {"none"}

Init == /\ waits \in BOOLEAN /\ attached = FALSE /\ pending = 0
        /\ asked = "CVSD" /\ serves = "none" /\ answer = "none"

HostMayAct == waits => pending = 0

\* A session starts with a controller that was just powered on.
Attach == /\ HostMayAct /\ ~attached /\ attached' = TRUE /\ pending' = 0
          /\ asked' = "CVSD" /\ serves' = "none" /\ answer' = "none"
          /\ UNCHANGED waits

Detach == /\ HostMayAct /\ attached /\ attached' = FALSE
          /\ UNCHANGED <<waits, pending, asked, serves, answer>>

\* A request is taken up, or fails on the spot.
Request(codec) ==
  /\ HostMayAct /\ attached
  /\ pending' = pending + 1 /\ asked' = codec /\ answer' = "none"
  /\ UNCHANGED <<waits, attached, serves>>

Refuse ==
  /\ HostMayAct /\ attached /\ answer' = "FAIL"
  /\ UNCHANGED <<waits, attached, pending, asked, serves>>

\* A request in progress, also one that was left behind by its host.
Work ==
  /\ pending > 0 /\ serves' \in Serves
  /\ UNCHANGED <<waits, attached, pending, asked, answer>>

Answer ==
  /\ attached /\ pending > 0 /\ pending' = pending - 1
  /\ serves' \in Serves /\ answer' \in {"SUCCESS", "FAIL"}
  /\ waits /\ answer' = "SUCCESS" => serves' = asked
  /\ UNCHANGED <<waits, attached, asked>>

Next == \/ Attach \/ Detach \/ (\E codec \in Codec : Request(codec)) \/ Refuse
        \/ Work \/ Answer

Spec == Init /\ [][Next]_vars
=============================================================================
