--------------------------- MODULE ExtensionClient ---------------------------
(***************************************************************************)
(* ExtensionClient of crates/extension_host (client.rs, with restart.rs,   *)
(* limits.rs, handshake.rs and wire.rs): the host of one out-of-process    *)
(* extension.  It spawns a child, agrees on capabilities, sends one        *)
(* request at a time, and restarts a child that crashes, times out or      *)
(* breaks the protocol.                                                    *)
(*                                                                         *)
(* The extension may do anything: answer, stay silent, send frames nobody  *)
(* asked for, close its stdin or its stdout, leave a grandchild on the     *)
(* pipes, exit.  A frame the child writes is in the reader thread's        *)
(* channel at once; a slow pipe is a child that writes later.  Payloads,   *)
(* digests and backoff times are left out.                                 *)
(***************************************************************************)
EXTENDS Integers, Sequences

CONSTANTS
  Cases,           \* CaseId values
  Capabilities,    \* what the host may ask for
  CapabilitySets,  \* what an extension's hello may provide
  Required,        \* SpawnSpec::required_capabilities
  MaxRestarts,     \* RestartPolicy::max_restarts
  MaxFrames,       \* bound: events waiting in the channel
  Steps,           \* what tells a case's calls of one capability apart
  NoRequest,       \* nothing asked
  NoAnswer         \* no frame accepted

ASSUME ClientAssumption ==
  /\ Required \subseteq Capabilities
  /\ CapabilitySets \subseteq SUBSET Capabilities
  /\ MaxRestarts \in Nat /\ MaxFrames \in Nat \ {0}
  /\ NoRequest \notin [cap : Capabilities, case : Cases, step : Steps, large : BOOLEAN]

VARIABLES
  stage,     \* where the host is: see Stages
  request,   \* the request of the call under way
  outcome,   \* what the last exchange came to: see Outcomes
  caps,      \* Negotiated::caps of the first handshake
  child,     \* the child the host holds, 0 for none
  greeted,   \* is that child's Session in ExtensionClient::session?
  restarts,  \* RestartState::restarts
  losses,    \* RestartState::losses
  lost,      \* ExtensionClient::lost
  inflight,  \* OutstandingGuard::inflight
  process,   \* every child's process
  inbox,     \* the request the held child has not answered
  stdin,     \* does the held child, or its grandchild, have its stdin open?
  stdout,    \* the held child's end of its stdout
  held,      \* does a grandchild have the pipes as well?
  reader,    \* the held child's reader thread
  rx,        \* Session::rx
  babbled,   \* history: has the held child sent a frame nobody asked for?
  answer     \* history: the frame the outcome comes from

host == <<stage, request, outcome, caps, child, greeted, restarts, losses, lost,
          inflight>>
extension == <<process, inbox, stdin, stdout, held, reader, rx, babbled>>
client == <<host, extension, answer>>

Children == 1..(MaxRestarts + 1)

Stages ==
  {"spawning",   \* in ExtensionClient::spawn
   "greeting",   \* in handshake_over_session
   "idle",       \* between calls
   "top",        \* at the head of call's loop
   "writing",    \* in write_frame
   "receiving",  \* in Session::recv
   "reaping",    \* in crash_from_child's wait
   "tearing",    \* about to kill and wait in Drop for Session
   "joining",    \* at the bounded join in Drop for Session
   "returned",   \* call has returned
   "closing",    \* shutdown, or Drop for ExtensionClient
   "closed",     \* there is no client any more
   "unusable"}   \* spawn returned an error

Requests == [cap : Capabilities, case : Cases, step : Steps, large : BOOLEAN]

(* The host's hello, as the child's unanswered message.                    *)
Hello == [cap |-> "hello"]

(* Result classes of a well-formed response.  hollow: ok without the value *)
(* that the capability calls for.  done: ok, scenario finished.            *)
Classes == {"ok", "hollow", "done", "reject", "unsupported", "reported", "finding"}

TransportFaults == {"timeout", "crashed", "too large", "protocol", "mismatch"}

Outcomes == Classes \union TransportFaults \union {"none", "no handshake", "shutdown"}

Frames ==
  [kind : Classes \union {"garbage"}, case : Cases, to : Requests \union {NoRequest}]
    \union [kind : {"hello"}, caps : CapabilitySets]

Events == Frames \union [kind : {"closed", "too large", "broken"}]

ASSUME AnswerAssumption == NoAnswer \notin Frames

-----------------------------------------------------------------------------
(* Helpers.                                                                *)

(* Mutant: the budget is checked after the restart it should prevent.      *)
should_restart_late == restarts <= MaxRestarts

should_restart == restarts < MaxRestarts

(* Mutant: a timeout leaves the session as it is.                          *)
is_transport_fault_but_timeout(o) == o \in TransportFaults \ {"timeout"}

is_transport_fault(o) == o \in TransportFaults

(* What a frame means for the request; the capability is not part of it.   *)
classify_response(e) ==
  IF e.kind \in {"garbage", "hello"} THEN "protocol"
  ELSE IF e.case # request.case THEN "mismatch" ELSE e.kind

negotiate(e) == e.kind = "hello" /\ Required \subseteq e.caps

Return(o) == stage' = "returned" /\ outcome' = o

Lose(o) == lost' = TRUE /\ losses' = losses + 1 /\ Return(o)

(* The end of try_call_once, and call's match on its outcome.              *)
Settle(o) ==
  /\ outcome' = o
  /\ inflight' = inflight - 1
  /\ stage' = IF is_transport_fault(o) THEN "tearing" ELSE "returned"

(* spawn_session, and the hello written to the new child.                  *)
spawn_session(c) ==
  /\ child' = c /\ greeted' = FALSE
  /\ process' = [process EXCEPT ![c] = "running"]
  /\ inbox' = Hello
  /\ stdin' = "open" /\ stdout' = "open" /\ held' = FALSE /\ reader' = "reading"
  /\ rx' = <<>> /\ babbled' = FALSE
  /\ stage' = "greeting"

(* spawn_session with the process started but no thread for its reader:    *)
(* the Child is dropped, which neither kills it nor waits for it.          *)
Strand(c) ==
  /\ process' = [process EXCEPT ![c] = "stray"]
  /\ UNCHANGED <<child, greeted, inbox, stdin, stdout, held, reader, rx, babbled>>

-----------------------------------------------------------------------------
(* Starting: ExtensionClient::spawn.                                       *)

spawn ==
  /\ stage = "spawning"
  /\ \/ spawn_session(1)
     \/ stage' = "unusable" /\ UNCHANGED <<child, greeted, extension>>
     \/ stage' = "unusable" /\ Strand(1)
  /\ UNCHANGED <<request, outcome, caps, restarts, losses, lost, inflight, answer>>

(* A hello that satisfies the host.  The first one sets the capabilities;  *)
(* what a restarted child provides is not kept.                            *)
Greet ==
  /\ stage = "greeting" /\ rx # <<>> /\ negotiate(Head(rx))
  /\ greeted' = TRUE
  /\ rx' = Tail(rx)
  /\ caps' = IF restarts = 0 THEN Head(rx).caps ELSE caps
  /\ stage' = IF restarts = 0 THEN "idle" ELSE "top"
  /\ UNCHANGED <<request, outcome, child, restarts, losses, lost, inflight, process,
                 inbox, stdin, stdout, held, reader, babbled, answer>>

(* Anything else, nothing within call_timeout, or no stdin to write the    *)
(* host's hello to: the Session is dropped.                                *)
GreetFails ==
  /\ stage = "greeting"
  /\ rx # <<>> /\ negotiate(Head(rx)) => stdin = "closed"
  /\ outcome' = "no handshake"
  /\ stage' = "tearing"
  /\ UNCHANGED <<request, caps, child, greeted, restarts, losses, lost, inflight,
                 extension, answer>>

-----------------------------------------------------------------------------
(* ExtensionClient::call.                                                  *)

Call(cap, case, step, large) ==
  /\ stage = "idle"
  /\ request' = [cap |-> cap, case |-> case, step |-> step, large |-> large]
  /\ stage' = "top"
  /\ UNCHANGED <<outcome, caps, child, greeted, restarts, losses, lost, inflight,
                 extension, answer>>

(* The caller takes the outcome.                                           *)
Consume ==
  /\ stage = "returned"
  /\ stage' = "idle" /\ request' = NoRequest /\ outcome' = "none"
  /\ answer' = NoAnswer
  /\ UNCHANGED <<caps, child, greeted, restarts, losses, lost, inflight, extension>>

(* The session is lost: terminal_crash without another child.              *)
Refuse ==
  /\ stage = "top" /\ lost
  /\ Return("crashed")
  /\ UNCHANGED <<request, caps, child, greeted, restarts, losses, lost, inflight,
                 extension, answer>>

(* restart_child up to its handshake.  Without budget the call is lost     *)
(* with no loss recorded; a failed spawn_session is a recorded loss.       *)
restart_child ==
  /\ stage = "top" /\ ~lost /\ ~greeted
  /\ IF ~should_restart
     THEN /\ lost' = TRUE /\ Return("crashed")
          /\ UNCHANGED <<child, greeted, restarts, losses, extension>>
     ELSE /\ restarts' = restarts + 1
          /\ \/ spawn_session(restarts + 2) /\ UNCHANGED <<outcome, losses, lost>>
             \/ Lose("crashed") /\ UNCHANGED <<child, greeted, extension>>
             \/ Lose("crashed") /\ Strand(restarts + 2)
  /\ UNCHANGED <<request, caps, inflight, answer>>

try_call_once ==
  /\ stage = "top" /\ ~lost /\ greeted
  /\ inflight = 0
  /\ inflight' = inflight + 1
  /\ stage' = "writing"
  /\ UNCHANGED <<request, outcome, caps, child, greeted, restarts, losses, lost,
                 extension, answer>>

Sent ==
  /\ stage = "writing" /\ stdin = "open"
  /\ inbox' = request
  /\ stage' = "receiving"
  /\ UNCHANGED <<request, outcome, caps, child, greeted, restarts, losses, lost,
                 inflight, process, stdin, stdout, held, reader, rx, babbled, answer>>

(* A request that the pipe's buffer takes.                                 *)
write_frame == stage = "writing" /\ ~request.large /\ Sent

(* A larger one, which has to be read for write_all to return.             *)
DrainFrame == stage = "writing" /\ request.large /\ Sent

(* A broken pipe: nobody has the child's stdin open.  The host takes the   *)
(* child for dead, which it need not be.                                   *)
WriteFails ==
  /\ stage = "writing" /\ stdin = "closed"
  /\ stage' = "reaping"
  /\ UNCHANGED <<request, outcome, caps, child, greeted, restarts, losses, lost,
                 inflight, extension, answer>>

(* call_inner's match on what recv produced.                               *)
call_inner ==
  LET e == Head(rx) IN
  /\ stage = "receiving" /\ rx # <<>>
  /\ rx' = Tail(rx)
  /\ CASE e.kind = "closed"    -> stage' = "reaping" /\ UNCHANGED <<outcome, inflight>>
       [] e.kind = "too large" -> Settle("too large")
       [] e.kind = "broken"    -> Settle("protocol")
       [] OTHER                -> Settle(classify_response(e))
  /\ answer' = IF outcome' \in Classes THEN e ELSE NoAnswer
  /\ UNCHANGED <<request, caps, child, greeted, restarts, losses, lost, process,
                 inbox, stdin, stdout, held, reader, babbled>>

Timeout ==
  /\ stage = "receiving" /\ rx = <<>>
  /\ Settle("timeout")
  /\ UNCHANGED <<request, caps, child, greeted, restarts, losses, lost, extension,
                 answer>>

(* The wait returns when the child has exited, however long that takes.    *)
crash_from_child ==
  /\ stage = "reaping" /\ process[child] # "running"
  /\ process' = [process EXCEPT ![child] = "reaped"]
  /\ Settle("crashed")
  /\ UNCHANGED <<request, caps, child, greeted, restarts, losses, lost, inbox, stdin, stdout,
                 held, reader, rx, babbled, answer>>

-----------------------------------------------------------------------------
(* Drop for Session, and what its caller does next.                        *)

(* Mutant: drop the Child handle without killing and reaping.              *)
KillAndWait_forgets ==
  /\ stage = "tearing"
  /\ stdin' = "closed" /\ stdout' = "closed" /\ inbox' = NoRequest /\ rx' = <<>>
  /\ stage' = "joining"
  /\ UNCHANGED <<request, outcome, caps, child, greeted, restarts, losses, lost,
                 inflight, process, held, reader, babbled, answer>>

KillAndWait ==
  /\ stage = "tearing"
  /\ process' = [process EXCEPT ![child] = "reaped"]
  /\ stdin' = "closed" /\ stdout' = "closed" /\ inbox' = NoRequest /\ rx' = <<>>
  /\ stage' = "joining"
  /\ UNCHANGED <<request, outcome, caps, child, greeted, restarts, losses, lost,
                 inflight, held, reader, babbled, answer>>

(* Mutant: join the reader thread however long it reads.                   *)
JoinReader_unbounded == reader = "done"

(* The reader thread is joined if it is done, and left behind if it still  *)
(* reads when READER_JOIN_TIMEOUT has passed.                              *)
JoinReader == reader = "done" \/ reader = "reading"

Dropped ==
  /\ stage = "joining"
  /\ JoinReader
  /\ child' = 0 /\ greeted' = FALSE
  /\ rx' = <<>> /\ stdin' = "closed" /\ stdout' = "closed"
  /\ held' = FALSE /\ reader' = "done" /\ babbled' = FALSE
  /\ CASE outcome = "shutdown" ->
            stage' = "closed" /\ UNCHANGED <<outcome, losses, lost>>
       [] outcome = "no handshake" /\ restarts = 0 ->
            stage' = "unusable" /\ UNCHANGED <<outcome, losses, lost>>
       [] outcome = "no handshake" /\ restarts > 0 -> Lose("crashed")
       [] OTHER ->
            IF should_restart
            THEN stage' = "top" /\ UNCHANGED <<outcome, losses, lost>>
            ELSE Lose(outcome)
  /\ UNCHANGED <<request, caps, restarts, inflight, process, inbox, answer>>

(* The caller drops the client.                                            *)
DropClient ==
  /\ stage = "idle" /\ stage' = "closing"
  /\ UNCHANGED <<request, outcome, caps, child, greeted, restarts, losses, lost,
                 inflight, extension, answer>>

(* shutdown and Drop for ExtensionClient.                                  *)
teardown_session ==
  /\ stage = "closing"
  /\ outcome' = "shutdown"
  /\ stage' = IF greeted THEN "tearing" ELSE "closed"
  /\ UNCHANGED <<request, caps, child, greeted, restarts, losses, lost, inflight,
                 extension, answer>>

-----------------------------------------------------------------------------
(* The extension.                                                          *)

Alive == child # 0 /\ process[child] = "running"
CanWrite == Alive /\ stdout = "open" /\ reader = "reading" /\ Len(rx) < MaxFrames

Deliver(e) == rx' = Append(rx, e)

(* Answers that make a difference: an ok's value is looked at only for     *)
(* some capabilities.                                                      *)
Replies(cap) ==
  {"ok", "reject", "unsupported", "reported", "finding", "garbage"}
    \union (IF cap \in {"next", "mutate", "repair"} THEN {"hollow"} ELSE {})
    \union (IF cap = "next" THEN {"done"} ELSE {})

(* The child answers the request it holds.                                 *)
Answer ==
  /\ CanWrite /\ inbox # NoRequest
  /\ inbox' = NoRequest
  /\ IF inbox = Hello
     THEN \E provided \in CapabilitySets : Deliver([kind |-> "hello", caps |-> provided])
     ELSE \E k \in Replies(inbox.cap) :
            Deliver([kind |-> k, case |-> inbox.case, to |-> inbox])
  /\ UNCHANGED <<host, process, stdin, stdout, held, reader, babbled, answer>>

(* A frame nobody asked for: an answer given twice, or to another case.    *)
Babble ==
  /\ CanWrite
  /\ \E case \in Cases :
       Deliver([kind |-> "finding", case |-> case, to |-> NoRequest])
  /\ babbled' = TRUE
  /\ UNCHANGED <<host, process, inbox, stdin, stdout, held, reader, answer>>

(* A declared length over the cap: the reader thread stops there.          *)
Oversize ==
  /\ CanWrite
  /\ Deliver([kind |-> "too large"])
  /\ reader' = "done"
  /\ UNCHANGED <<host, process, inbox, stdin, stdout, held, babbled, answer>>

CloseStdout ==
  /\ Alive /\ stdout = "open"
  /\ stdout' = "closed"
  /\ UNCHANGED <<host, process, inbox, stdin, held, reader, rx, babbled, answer>>

(* The child closes its stdin and lives on; a grandchild does the same.    *)
CloseStdin ==
  /\ Alive /\ stdin = "open"
  /\ stdin' = "closed"
  /\ UNCHANGED <<host, process, inbox, stdout, held, reader, rx, babbled, answer>>

(* A grandchild inherits the pipes.                                        *)
DoubleFork ==
  /\ Alive /\ stdout = "open" /\ ~held
  /\ held' = TRUE
  /\ UNCHANGED <<host, process, inbox, stdin, stdout, reader, rx, babbled, answer>>

Exit ==
  /\ Alive
  /\ process' = [process EXCEPT ![child] = "exited"]
  /\ stdin' = IF held THEN stdin ELSE "closed"
  /\ stdout' = "closed"
  /\ UNCHANGED <<host, inbox, held, reader, rx, babbled, answer>>

(* reader_loop at the end of the stream, between frames or inside one.     *)
reader_loop ==
  /\ child # 0 /\ reader = "reading" /\ stdout = "closed" /\ ~held
  /\ \E k \in {"closed", "broken"} : Deliver([kind |-> k])
  /\ reader' = "done"
  /\ UNCHANGED <<host, process, inbox, stdin, stdout, held, babbled, answer>>

-----------------------------------------------------------------------------
ClientInit ==
  /\ stage = "spawning" /\ outcome = "none" /\ caps = {}
  /\ request = NoRequest
  /\ child = 0 /\ greeted = FALSE
  /\ restarts = 0 /\ losses = 0 /\ lost = FALSE /\ inflight = 0
  /\ process = [c \in Children |-> "unborn"]
  /\ inbox = NoRequest /\ stdin = "closed" /\ stdout = "closed" /\ held = FALSE
  /\ reader = "done" /\ rx = <<>> /\ babbled = FALSE
  /\ answer = NoAnswer

(* What the host does by itself.                                           *)
HostStep ==
  \/ spawn \/ Greet \/ GreetFails
  \/ Refuse \/ restart_child \/ try_call_once \/ write_frame \/ WriteFails
  \/ call_inner \/ Timeout \/ crash_from_child
  \/ KillAndWait \/ Dropped \/ teardown_session

ExtensionStep ==
  \/ Answer \/ Babble \/ Oversize \/ CloseStdout \/ CloseStdin \/ DoubleFork
  \/ Exit \/ DrainFrame \/ reader_loop

(* Any caller.                                                             *)
Caller ==
  \/ Consume
  \/ \E cap \in Capabilities, case \in Cases, step \in Steps, large \in BOOLEAN :
       Call(cap, case, step, large)
  \/ DropClient

ClientSpec == ClientInit /\ [][Caller \/ HostStep \/ ExtensionStep]_client
=============================================================================
