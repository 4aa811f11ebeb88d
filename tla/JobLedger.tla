------------------------------ MODULE JobLedger ------------------------------
(***************************************************************************)
(* What the scheduler of crates/continuous_daemon promises its clients, as *)
(* one durable ledger: no process, no thread, no crash.  A job that was    *)
(* acknowledged is in the ledger for good, a job that ended stays ended    *)
(* the same way, and a notification repeats what the ledger already says.  *)
(***************************************************************************)
EXTENDS Integers, Sequences

VARIABLES
  ledger,   \* what a restart after a power loss is certain to find
  acked,    \* requests whose submission was acknowledged
  posted    \* completion notifications that were sent

ledgerVars == <<ledger, acked, posted>>

Ended(row) == row.state \in {"complete", "failed"}

(* `new` continues `old`: no row is lost, moved or rewritten, new rows come *)
(* at the end, and a row that ended keeps its result.                      *)
Continues(old, new) ==
  /\ Len(old) <= Len(new)
  /\ \A i \in 1..Len(old) :
       /\ new[i].request = old[i].request
       /\ Ended(old[i]) => new[i] = old[i]

Recorded(rows) == {rows[i].request : i \in 1..Len(rows)}

Init == ledger = <<>> /\ acked = {} /\ posted = {}

(* The ledger grows or moves on; at most one recorded request is           *)
(* acknowledged with it.                                                   *)
Commit ==
  /\ Continues(ledger, ledger')
  /\ \/ acked' = acked
     \/ \E request \in Recorded(ledger') :
          /\ \A other \in acked : other.job_id # request.job_id
          /\ acked' = acked \union {request}
  /\ posted' = posted

(* Tell the client how a job ended, after the ledger says so.              *)
Announce ==
  /\ \E i \in 1..Len(ledger) :
       /\ Ended(ledger[i])
       /\ posted' = posted \union {[job_id |-> ledger[i].request.job_id,
                                    state |-> ledger[i].state]}
  /\ UNCHANGED <<ledger, acked>>

Next == Commit \/ Announce

Spec == Init /\ [][Next]_ledgerVars
=============================================================================
