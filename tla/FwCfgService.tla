----------------------------- MODULE FwCfgService -----------------------------
(***************************************************************************)
(* What firmware configuration promises the host stack, without the HCI    *)
(* commands it takes: a request made on an open port is answered at most   *)
(* once; only while the library holds the stack's callbacks; and not once  *)
(* the port it was made on is closed.  Success means that the controller   *)
(* serves at the target speed, and it does until the port is closed.       *)
(***************************************************************************)
EXTENDS Naturals

VARIABLES
  attached,  \* the library holds the stack's callbacks
  port,      \* the serial port is open
  busy,      \* a request is being served
  serves,    \* both ends run at the target speed, with no download going on
  starts,    \* requests made
  answers,   \* answers given
  result     \* the last answer, "none" since the port was opened

counts == <<starts, answers>>
vars   == <<attached, port, busy, serves, result, counts>>

Init == /\ attached = FALSE /\ port = FALSE /\ busy = FALSE /\ serves = FALSE
        /\ starts = 0 /\ answers = 0 /\ result = "none"

Attach == /\ ~attached /\ attached' = TRUE
          /\ UNCHANGED <<port, busy, serves, result, counts>>

Detach == /\ attached /\ attached' = FALSE
          /\ UNCHANGED <<port, busy, serves, result, counts>>

\* Without power, and when it has just been switched on, nothing is served.
Power == /\ ~port /\ serves' = FALSE
         /\ UNCHANGED <<attached, port, busy, result, counts>>

Open == /\ attached /\ ~port /\ port' = TRUE /\ serves' = FALSE
        /\ UNCHANGED <<attached, busy, result, counts>>

Close == /\ port /\ port' = FALSE /\ busy' = FALSE /\ result' = "none"
         /\ UNCHANGED <<attached, serves, counts>>

\* A request is taken up, fails on the spot, or is lost.
Request ==
  /\ port /\ ~busy /\ starts' = starts + 1
  /\ \/ attached /\ busy' = TRUE /\ UNCHANGED <<answers, result>>
     \/ /\ attached /\ answers' = answers + 1 /\ result' = "FAIL"
        /\ UNCHANGED busy
     \/ UNCHANGED <<busy, answers, result>>
  /\ UNCHANGED <<attached, port, serves>>

\* Only a request in progress makes the controller serve.
Work == /\ busy /\ serves' \in BOOLEAN
        /\ UNCHANGED <<attached, port, busy, result, counts>>

Answer == /\ busy /\ attached /\ serves' \in BOOLEAN
          /\ busy' = FALSE /\ answers' = answers + 1
          /\ result' = "FAIL" \/ (result' = "SUCCESS" /\ serves')
          /\ UNCHANGED <<attached, port, starts>>

\* With no callbacks there is nobody to answer.
Drop == /\ busy /\ ~attached /\ busy' = FALSE /\ serves' \in BOOLEAN
        /\ UNCHANGED <<attached, port, result, counts>>

Next == Attach \/ Detach \/ Power \/ Open \/ Close \/ Request \/ Work \/ Answer
        \/ Drop

Spec == Init /\ [][Next]_vars

\* No request is answered twice, and the one in progress not yet.
AtMostOnce == answers + (IF busy THEN 1 ELSE 0) <= starts
=============================================================================
