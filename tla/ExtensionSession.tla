-------------------------- MODULE ExtensionSession --------------------------
(***************************************************************************)
(* SessionDriver of crates/extension_host (session.rs) over the extension  *)
(* client: for one case after the other it sets the extension up, pulls    *)
(* the messages of a scenario, relays each to the target, and lets the     *)
(* oracle judge the case.  A capability that was not negotiated is         *)
(* skipped; with oracle.evaluate alone the driver is the loop of           *)
(* `bhf extension evaluate`.                                               *)
(***************************************************************************)
EXTENDS ExtensionClient

CONSTANTS
  MaxSteps,  \* SessionOptions::max_steps
  Mutate,    \* is SessionOptions::mutate_seed given?
  Repair     \* SessionOptions::repair

ASSUME SessionAssumption ==
  /\ Cases \subseteq Nat /\ 1 \in Cases
  /\ MaxSteps \in Nat /\ Steps = 0..MaxSteps
  /\ Mutate \in BOOLEAN /\ Repair \in BOOLEAN

VARIABLES
  pc,              \* the driver's next move: see Moves
  case,            \* the case it drives
  step,            \* drive_scenario's step
  infrastructure,  \* SessionOutcome::infrastructure
  finding,         \* SessionOutcome::finding
  reset_by,        \* history: who last acknowledged lifecycle.reset, for which case
  late             \* history: was infrastructure recorded by teardown?

driver == <<pc, case, step, infrastructure, finding>>
notes == <<reset_by, late>>
vars == <<client, driver, notes>>

Moves == {"setup", "reset", "next", "mutate", "repair", "exchange", "observe",
          "evaluate", "teardown", "done"}

-----------------------------------------------------------------------------
(* The typed methods: what an outcome of call means for a capability.      *)

ValueBearing == {"next", "mutate", "repair"}
Acks == {"setup", "reset", "observe", "teardown"}

Typed(cap, o) ==
  CASE o \in TransportFaults \union {"reported"}          -> "infrastructure"
    [] o = "finding" /\ cap # "evaluate"                  -> "infrastructure"
    [] o = "hollow"  /\ cap \in ValueBearing              -> "infrastructure"
    [] o = "done"    /\ cap \in ValueBearing \ {"next"}   -> "infrastructure"
    [] o \in {"hollow", "done"} /\ cap \notin ValueBearing -> "ok"
    [] o = "reject"  /\ cap \in Acks                      -> "unsupported"
    [] OTHER                                              -> o

(* Is the move made by calling the extension?                              *)
Calls(move) ==
  /\ move \in caps
  /\ move = "mutate" => Mutate
  /\ move = "repair" => Repair

-----------------------------------------------------------------------------
(* SessionDriver::run.                                                     *)

(* Where a step of the scenario that ends well leads to.                   *)
NextStep ==
  IF step + 1 < MaxSteps THEN step' = step + 1 /\ pc' = "next"
                         ELSE pc' = "evaluate" /\ UNCHANGED step

(* The move after one that is skipped or succeeds.                         *)
Follow(move) ==
  CASE move = "setup"  -> pc' = "reset" /\ UNCHANGED step
    [] move = "reset"  -> pc' = (IF "next" \in caps /\ MaxSteps > 0
                                 THEN "next" ELSE "evaluate") /\ UNCHANGED step
    [] move = "next"     -> pc' = "mutate" /\ UNCHANGED step
    [] move = "mutate"   -> pc' = "repair" /\ UNCHANGED step
    [] move = "repair"   -> pc' = "exchange" /\ UNCHANGED step
    [] move = "observe"  -> NextStep
    [] move = "evaluate" -> pc' = "teardown" /\ UNCHANGED step
    [] move = "teardown" -> pc' = "done" /\ UNCHANGED step

(* The first fault stays; setup and reset end the run, a scenario call     *)
(* ends the scenario, the oracle and teardown go on.                       *)
Fail(move) ==
  /\ infrastructure' = TRUE
  /\ late' = IF infrastructure THEN late ELSE move = "teardown"
  /\ pc' = CASE move \in {"setup", "reset"} -> "done"
             [] move \in {"evaluate"}       -> "teardown"
             [] move \in {"teardown"}       -> "done"
             [] OTHER                       -> "evaluate"
  /\ UNCHANGED step

Pass(move) == Follow(move) /\ UNCHANGED <<infrastructure, late>>

(* Mutant: the oracle judges a case whose session faulted.                 *)
Judges_anyway == TRUE

(* "only if nothing faulted".                                              *)
Judges == ~infrastructure

Skips(move) == ~Calls(move) \/ (move = "evaluate" /\ ~Judges)

Skip ==
  /\ stage = "idle" /\ pc \notin {"exchange", "done", "next"}
  /\ Skips(pc)
  /\ Pass(pc)
  /\ UNCHANGED <<client, case, finding, reset_by>>

StartCall ==
  /\ stage = "idle" /\ pc \notin {"exchange", "done"}
  /\ ~Skips(pc)
  /\ \E large \in BOOLEAN : Call(pc, case, step, large)
  /\ UNCHANGED <<driver, notes>>

(* What the driver does with an answer.                                    *)
Handle(move, t) ==
  CASE t = "infrastructure" -> Fail(move)
    [] t = "unsupported" ->
         IF move \in {"setup", "reset", "next"} THEN Fail(move) ELSE Pass(move)
    [] move = "next" /\ t \in {"done", "reject"} ->
         pc' = "evaluate" /\ UNCHANGED <<step, infrastructure, late>>
    [] OTHER -> Pass(move)

TakeOutcome ==
  LET t == Typed(pc, outcome) IN
  /\ Consume
  /\ Handle(pc, t)
  /\ finding' = (finding \/ (pc = "evaluate" /\ t = "finding"))
  /\ reset_by' = IF pc = "reset" /\ t = "ok" THEN <<child, case>> ELSE reset_by
  /\ UNCHANGED case

(* target.exchange, which answers or fails.                                *)
Exchange ==
  /\ stage = "idle" /\ pc = "exchange"
  /\ \/ pc' = "observe" /\ UNCHANGED <<step, infrastructure, late>>
     \/ Fail("exchange")
  /\ UNCHANGED <<client, case, finding, reset_by>>

(* The caller drives the next case, or drops the client.                   *)
NextCase ==
  /\ stage = "idle" /\ pc = "done"
  /\ case + 1 \in Cases
  /\ case' = case + 1
  /\ pc' = "setup" /\ step' = 0 /\ infrastructure' = FALSE /\ finding' = FALSE
  /\ late' = FALSE
  /\ UNCHANGED <<client, reset_by>>

Close ==
  /\ stage = "idle" /\ pc = "done"
  /\ DropClient
  /\ UNCHANGED <<driver, notes>>

-----------------------------------------------------------------------------
Init ==
  /\ ClientInit
  /\ pc = "setup" /\ case = 1 /\ step = 0
  /\ infrastructure = FALSE /\ finding = FALSE
  /\ reset_by = <<0, 0>> /\ late = FALSE

DriverStep == Skip \/ StartCall \/ TakeOutcome \/ Exchange \/ NextCase \/ Close

(* The client is gone.                                                     *)
Finished == stage \in {"closed", "unusable"}

Next ==
  \/ DriverStep
  \/ HostStep /\ UNCHANGED <<driver, notes>>
  \/ ExtensionStep /\ UNCHANGED <<driver, notes>>
  \/ Finished /\ UNCHANGED vars

Spec == Init /\ [][Next]_vars

(* The host and its reader thread run; the extension promises nothing.     *)
FairSpec ==
  /\ Spec
  /\ WF_vars(DriverStep)
  /\ WF_vars(HostStep /\ UNCHANGED <<driver, notes>>)
  /\ WF_vars(reader_loop /\ UNCHANGED <<driver, notes>>)

(* An extension whose stdin is read, and that exits when it has closed its *)
(* stdin or its stdout.                                                    *)
CooperativeSpec ==
  /\ FairSpec
  /\ WF_vars(DrainFrame /\ UNCHANGED <<driver, notes>>)
  /\ WF_vars("closed" \in {stdin, stdout} /\ Exit /\ UNCHANGED <<driver, notes>>)

-----------------------------------------------------------------------------
(* Properties.                                                             *)

(* Types; the restarts stay within their limit, and one loss is recorded   *)
(* exactly when the session is lost.                                       *)
TypeOK ==
  /\ stage \in Stages /\ request \in Requests \union {NoRequest}
  /\ outcome \in Outcomes /\ caps \subseteq Capabilities
  /\ child \in Children \union {0} /\ greeted \in BOOLEAN
  /\ restarts \in 0..MaxRestarts /\ lost \in BOOLEAN
  /\ losses = IF lost THEN 1 ELSE 0
  /\ inflight \in 0..1
  /\ process \in [Children -> {"unborn", "running", "exited", "reaped", "stray"}]
  /\ inbox \in Requests \union {NoRequest, Hello}
  /\ stdin \in {"open", "closed"} /\ stdout \in {"open", "closed"} /\ held \in BOOLEAN
  /\ reader \in {"reading", "done"} /\ rx \in Seq(Events)
  /\ babbled \in BOOLEAN /\ answer \in Frames \union {NoAnswer}
  /\ pc \in Moves /\ case \in Cases /\ step \in 0..MaxSteps
  /\ infrastructure \in BOOLEAN /\ finding \in BOOLEAN
  /\ reset_by \in (Children \union {0}) \X (Cases \union {0}) /\ late \in BOOLEAN

(* An answer that call returns carries the case of its request, and is the *)
(* answer to that very call unless the extension sends frames nobody asked *)
(* for: a timeout, a crash or a restart never lets a late answer through.  *)
AnswersBelongToTheCall ==
  stage = "returned" /\ outcome \in Classes =>
    /\ answer # NoAnswer /\ answer.case = request.case
    /\ babbled \/ answer.to = request

(* Of all the children ever spawned, only the one the host holds may be    *)
(* alive or unreaped, and none when the client is gone: no failed          *)
(* handshake, fault or restart leaks one.  The exception is a child whose  *)
(* reader thread could not be started: it is left running, but the client  *)
(* spawns nothing after it, and "must leak at most one child total".       *)
OnlyTheHeldChildLives ==
  /\ \A c \in Children \ {child} : process[c] \in {"unborn", "reaped", "stray"}
  /\ Finished \/ lost => child = 0
  /\ \A c \in Children : process[c] = "stray" =>
       /\ stage = "unusable" \/ lost
       /\ \A other \in Children \ {c} : process[other] # "stray"

(* "never a target finding": a finding stands beside a fault only if the   *)
(* fault is teardown's, after the verdict.                                 *)
FindingsFollowCleanSessions ==
  finding => ~infrastructure \/ late

(* Every session ends, and the client with it, whatever the extension does *)
(* to the protocol, if it reads what it is sent and exits once it has      *)
(* closed its stdin or its stdout.                                         *)
SessionsEnd == <>Finished

(* limits.rs: "A call that does not respond within this window is a        *)
(* bounded `Timeout` infrastructure failure (and the child is killed)."    *)
CallsReturn == stage \in {"writing", "receiving", "reaping"} ~> stage = "returned"

(* lifecycle.rs: "`lifecycle.reset` runs between cases with a **fresh temp *)
(* root**": a finding is the verdict of a child that was reset for the     *)
(* case.                                                                   *)
VerdictsComeFromAResetChild ==
  [][finding' /\ ~finding /\ "reset" \in caps => reset_by = <<child, case>>]_vars
=============================================================================
