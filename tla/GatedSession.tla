---------------------------- MODULE GatedSession ----------------------------
(***************************************************************************)
(* What the tier 2 client promises the APRS-IS network, without sockets,   *)
(* buffers or timers: a session asks for admission with one login message, *)
(* ahead of anything else; reports are sent only by a session that was     *)
(* admitted, a session that was refused keeps itself alive and no more;    *)
(* messages arrive in the order they were sent, none twice; and when a     *)
(* connection is lost everything that was still under way goes with it.    *)
(***************************************************************************)
EXTENDS Sequences

CONSTANT Reports

VARIABLES
  admission, \* "none", "asked", "granted" or "refused"
  queue      \* messages sent and not yet received, oldest first

vars == << admission, queue >>

Admissions == {"none", "asked", "granted", "refused"}
Messages   == {"login", "keepalive"} \cup Reports

TypeOK ==
  /\ admission \in Admissions
  /\ queue \in Seq(Messages)

Init == admission = "none" /\ queue = << >>

\* The login may be lost at once, when the connection is already broken.
Ask ==
  /\ admission = "none" /\ queue = << >>
  /\ admission' = "asked"
  /\ queue' \in {<< >>, << "login" >>}

\* Admission follows the receipt of the login; a refusal needs no reason.
Granted ==
  /\ admission = "asked" /\ queue = << >>
  /\ admission' = "granted"
  /\ UNCHANGED queue

Refused ==
  /\ admission = "asked"
  /\ admission' = "refused"
  /\ UNCHANGED queue

SendReport(m) ==
  /\ admission = "granted"
  /\ queue' = Append(queue, m)
  /\ UNCHANGED admission

KeepAlive ==
  /\ admission \in {"granted", "refused"}
  /\ queue' = Append(queue, "keepalive")
  /\ UNCHANGED admission

Receive ==
  /\ queue # << >>
  /\ queue' = Tail(queue)
  /\ UNCHANGED admission

Lose == admission' = "none" /\ queue' = << >>

Next ==
  \/ Ask \/ Granted \/ Refused \/ KeepAlive \/ Receive \/ Lose
  \/ \E m \in Reports : SendReport(m)

Spec == Init /\ [][Next]_vars
=============================================================================
