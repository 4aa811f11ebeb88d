--------------------------- MODULE ExtensionProofs ---------------------------
(***************************************************************************)
(* What the host of an extension guarantees whatever the extension does,   *)
(* for any number of cases, steps, restarts and waiting frames.            *)
(***************************************************************************)
EXTENDS ExtensionSession, SequenceTheorems, TLAPS

Sending == {"writing", "receiving", "reaping"}
Dropping == {"tearing", "joining"}
CallMoves == Moves \ {"exchange", "done"}

(* An answer to some request, as opposed to a hello or the end of stdout.  *)
Response(e) == e.kind \in Classes \cup {"garbage"}

(* A channel without answers, and one with at most one, to request r.      *)
Clean(s) == \A i \in 1..Len(s) : ~Response(s[i])

OneAnswer(s, r) ==
  /\ \A i \in 1..Len(s) : Response(s[i]) => s[i].to = r
  /\ \A i, j \in 1..Len(s) : Response(s[i]) /\ Response(s[j]) => i = j

HostTypes ==
  /\ stage \in Stages /\ request \in Requests \cup {NoRequest}
  /\ outcome \in Outcomes /\ caps \subseteq Capabilities
  /\ child \in Children \cup {0} /\ greeted \in BOOLEAN
  /\ restarts \in 0..MaxRestarts /\ lost \in BOOLEAN /\ inflight \in 0..1

ExtensionTypes ==
  /\ process \in [Children -> {"unborn", "running", "exited", "reaped", "stray"}]
  /\ inbox \in Requests \cup {NoRequest, Hello}
  /\ stdin \in {"open", "closed"} /\ stdout \in {"open", "closed"} /\ held \in BOOLEAN
  /\ reader \in {"reading", "done"} /\ rx \in Seq(Events)
  /\ babbled \in BOOLEAN /\ answer \in Frames \cup {NoAnswer}

DriverTypes ==
  /\ pc \in Moves /\ case \in Cases /\ step \in 0..MaxSteps
  /\ infrastructure \in BOOLEAN /\ finding \in BOOLEAN
  /\ reset_by \in (Children \cup {0}) \X (Cases \cup {0}) /\ late \in BOOLEAN

(* Which child the host holds at which stage, and that a call finds a      *)
(* session, a budget for a new one, or the client lost.                    *)
ChildInv ==
  /\ child = IF greeted \/ stage \in {"greeting"} \cup Dropping THEN restarts + 1 ELSE 0
  /\ stage \in Sending => greeted
  /\ stage \in {"spawning", "greeting", "closed", "unusable"} => ~greeted
  /\ lost => ~greeted /\ stage \in {"returned", "idle", "top", "closing", "closed"}
  /\ stage \in {"idle", "returned", "closing"} => lost \/ greeted
  /\ stage = "top" => lost \/ greeted \/ restarts < MaxRestarts
  /\ stage = "spawning" => restarts = 0
  /\ losses = IF lost THEN 1 ELSE 0
  /\ inflight = IF stage \in Sending THEN 1 ELSE 0

(* A child is let go of reaped.  The one that is not, for want of a reader *)
(* thread, is the last one.                                                *)
StrayInv ==
  \A c \in Children : process[c] = "stray" =>
    /\ stage = "unusable" \/ lost
    /\ \A other \in Children \ {c} : process[other] # "stray"

ProcessInv ==
  /\ \A c \in Children \ {child} : process[c] \in {"unborn", "reaped", "stray"}
  /\ StrayInv
  /\ stage = "joining" => process[child] = "reaped" /\ inbox = NoRequest

(* A request is under way exactly while the driver waits for a move of the *)
(* extension; the oracle is asked about clean sessions only.               *)
CallInv ==
  /\ stage \in {"top", "returned"} \cup Sending => request \in Requests
  /\ stage \in {"spawning", "idle", "closing"} => request = NoRequest
  /\ stage = "greeting" => (restarts = 0 <=> request = NoRequest)
  /\ stage \in Dropping /\ request = NoRequest =>
       outcome = "shutdown" \/ (outcome = "no handshake" /\ restarts = 0)
  /\ stage # "returned" => outcome \notin Classes

DriverInv ==
  /\ request # NoRequest => pc \in CallMoves
  /\ request # NoRequest /\ pc = "evaluate" => ~infrastructure
  /\ finding => pc \in {"teardown", "done"}
  /\ FindingsFollowCleanSessions

(* A child that sends no frame of its own accord has at most one answer on *)
(* the wire, to the request under way, and then owes none.                 *)
WireInv ==
  ~babbled =>
    /\ OneAnswer(rx, request)
    /\ ~Clean(rx) => inbox = NoRequest /\ stage \in {"receiving", "reaping", "tearing"}
    /\ inbox \notin {NoRequest, Hello} =>
         inbox = request /\ stage \in {"receiving", "reaping", "tearing"}

ExtensionInv ==
  /\ HostTypes /\ ExtensionTypes /\ DriverTypes
  /\ ChildInv /\ ProcessInv /\ CallInv /\ DriverInv /\ WireInv
  /\ AnswersBelongToTheCall

-----------------------------------------------------------------------------
(* The channel.                                                            *)

(* What the kind of an event says.                                         *)
LEMMA Kinds ==
  ASSUME NEW e \in Events
  PROVE  /\ Response(e) => e \in Frames
         /\ e.kind = "hello" => e.caps \in CapabilitySets
         /\ e.kind \in Classes \cup {"garbage", "hello", "closed", "too large", "broken"}
  BY DEF Events, Frames, Response, Classes

(* The event that recv takes out of the channel.                           *)
LEMMA Popped ==
  ASSUME NEW s \in Seq(Events), s # <<>>
  PROVE  /\ Head(s) \in Events /\ Tail(s) \in Seq(Events)
         /\ Clean(s) => Clean(Tail(s)) /\ ~Response(Head(s))
         /\ \A r : OneAnswer(s, r) =>
              /\ OneAnswer(Tail(s), r)
              /\ Response(Head(s)) => Head(s).to = r /\ Clean(Tail(s))
<1>1. /\ Head(s) = s[1] /\ Tail(s) \in Seq(Events) /\ Head(s) \in Events
      /\ Len(s) \in Nat /\ Len(s) > 0 /\ Len(Tail(s)) = Len(s) - 1
      /\ \A i \in 1..Len(Tail(s)) : Tail(s)[i] = s[i + 1]
  BY HeadTailProperties, LenProperties, EmptySeq
<1> DEFINE n == Len(s)
           t == Tail(s)
<1>2. /\ n \in Nat /\ n > 0 /\ Len(t) = n - 1
      /\ \A i \in 1..Len(t) : t[i] = s[i + 1]
  BY <1>1
<1> HIDE DEF n, t
<1>3. \A i \in 1..Len(t) : i + 1 \in 1..n /\ i + 1 # 1 /\ t[i] = s[i + 1]
  BY <1>2
<1>4. 1 \in 1..n /\ \A i, j \in 1..Len(t) : i + 1 = j + 1 => i = j
  BY <1>2
<1>5. Clean(s) => Clean(t) /\ ~Response(s[1])
  BY <1>3, <1>4 DEF Clean, n
<1>6. ASSUME NEW r, OneAnswer(s, r)
      PROVE  /\ OneAnswer(t, r)
             /\ Response(s[1]) => s[1].to = r /\ Clean(t)
  <2>1. /\ \A i \in 1..n : Response(s[i]) => s[i].to = r
        /\ \A i, j \in 1..n : Response(s[i]) /\ Response(s[j]) => i = j
    BY <1>6 DEF OneAnswer, n
  <2>2. \A i, j \in 1..Len(t) : Response(t[i]) /\ Response(t[j]) => i = j
    BY <1>3, <1>4, <2>1
  <2>3. \A i \in 1..Len(t) : Response(t[i]) => t[i].to = r
    BY <1>3, <2>1
  <2>4. Response(s[1]) => Clean(t)
    BY <1>3, <1>4, <2>1 DEF Clean
  <2> QED
    BY <1>4, <2>1, <2>2, <2>3, <2>4 DEF OneAnswer
<1> QED
  BY <1>1, <1>5, <1>6 DEF t

(* An event that the reader thread delivers.                               *)
LEMMA Delivered ==
  ASSUME NEW s \in Seq(Events), NEW e \in Events
  PROVE  /\ Append(s, e) \in Seq(Events)
         /\ ~Response(e) /\ Clean(s) => Clean(Append(s, e))
         /\ \A r : ~Response(e) /\ OneAnswer(s, r) => OneAnswer(Append(s, e), r)
         /\ \A r : Clean(s) /\ e.to = r => OneAnswer(Append(s, e), r)
<1>1. /\ Append(s, e) \in Seq(Events) /\ Len(s) \in Nat
      /\ Len(Append(s, e)) = Len(s) + 1
      /\ \A i \in 1..Len(s) : Append(s, e)[i] = s[i]
      /\ Append(s, e)[Len(s) + 1] = e
  BY AppendProperties, LenProperties
<1> DEFINE n == Len(s)
           t == Append(s, e)
<1>2. /\ n \in Nat /\ Len(t) = n + 1 /\ t[n + 1] = e
      /\ \A i \in 1..n : t[i] = s[i]
  BY <1>1
<1> HIDE DEF n, t
<1>3. \A i \in 1..Len(t) : (i \in 1..n /\ t[i] = s[i]) \/ (i = n + 1 /\ t[i] = e)
  BY <1>2
<1>4. ~Response(e) /\ Clean(s) => Clean(t)
  BY <1>3 DEF Clean, n
<1>5. ASSUME NEW r, ~Response(e), OneAnswer(s, r)
      PROVE  OneAnswer(t, r)
  <2>1. /\ \A i \in 1..n : Response(s[i]) => s[i].to = r
        /\ \A i, j \in 1..n : Response(s[i]) /\ Response(s[j]) => i = j
    BY <1>5 DEF OneAnswer, n
  <2> QED
    BY <1>3, <1>5, <2>1 DEF OneAnswer
<1>6. ASSUME NEW r, Clean(s), e.to = r
      PROVE  OneAnswer(t, r)
  <2>1. \A i \in 1..n : ~Response(s[i])
    BY <1>6 DEF Clean, n
  <2> QED
    BY <1>3, <1>6, <2>1 DEF OneAnswer
<1> QED
  BY <1>1, <1>4, <1>5, <1>6 DEF t

(* An empty channel, and one without answers.                              *)
LEMMA NoAnswersYet ==
  /\ Clean(<<>>) /\ <<>> \in Seq(Events)
  /\ \A s, r : Clean(s) => OneAnswer(s, r)
<1>1. Len(<<>>) = 0 /\ <<>> \in Seq(Events)
  OBVIOUS
<1>2. Clean(<<>>)
  BY <1>1 DEF Clean
<1> QED
  BY <1>1, <1>2 DEF Clean, OneAnswer
-----------------------------------------------------------------------------
(* The host's own steps.  DrainFrame is one of them here: the write ends   *)
(* when the child has read enough.                                         *)

HostMove == HostStep \/ DrainFrame

(* The restart budget and the children's numbers.                          *)
LEMMA Numbers ==
  ASSUME HostTypes
  PROVE  /\ restarts \in Nat /\ MaxRestarts \in Nat /\ restarts <= MaxRestarts
         /\ restarts + 1 \in Children /\ 0 \notin Children
         /\ restarts < MaxRestarts => restarts + 2 \in Children /\ restarts + 1 \in 0..MaxRestarts
         /\ 1 \in Children /\ restarts + 1 # 0
  BY ClientAssumption DEF HostTypes, Children

(* Types.                                                                  *)
LEMMA HostTypesStep ==
  ASSUME ExtensionInv, HostMove
  PROVE  HostTypes'
<1>1. HostTypes /\ ExtensionTypes /\ ChildInv
  BY DEF ExtensionInv
<1>2. /\ 1 \in Children
      /\ restarts < MaxRestarts => restarts + 2 \in Children /\ restarts + 1 \in 0..MaxRestarts
  BY <1>1, Numbers
<1>3. /\ Classes \subseteq Outcomes /\ TransportFaults \subseteq Outcomes
      /\ {"no handshake", "shutdown", "none", "crashed", "protocol", "mismatch", "too large",
          "timeout"} \subseteq Outcomes
  BY DEF Outcomes, TransportFaults
<1>4. CASE spawn
  BY <1>1, <1>2, <1>4 DEF spawn, spawn_session, Strand, HostTypes, Stages
<1>5. CASE Greet
  <2>1. Head(rx).caps \in CapabilitySets
    BY <1>1, <1>5, Popped, Kinds DEF Greet, negotiate, ExtensionTypes
  <2>2. Head(rx).caps \subseteq Capabilities
    BY <2>1, ClientAssumption
  <2> QED
    BY <1>1, <1>5, <2>2 DEF Greet, HostTypes, Stages
<1>6. CASE GreetFails \/ Refuse \/ WriteFails \/ teardown_session \/ KillAndWait
  BY <1>1, <1>3, <1>6 DEF GreetFails, Refuse, Return, WriteFails,
     teardown_session, KillAndWait, HostTypes, Stages
<1>12. CASE try_call_once
  <2>1. inflight' = 1
    BY <1>12 DEF try_call_once
  <2> QED
    BY <1>1, <1>12, <2>1 DEF try_call_once, HostTypes, Stages
<1>7. CASE restart_child
  BY <1>1, <1>2, <1>3, <1>7 DEF restart_child, should_restart, spawn_session, Strand, Lose, Return,
     HostTypes, Stages
<1>8. CASE write_frame \/ DrainFrame
  BY <1>1, <1>8 DEF write_frame, DrainFrame, Sent, HostTypes, Stages
<1>9. CASE call_inner
  <2>1. inflight = 1
    BY <1>1, <1>9 DEF call_inner, ChildInv, Sending
  <2>2. /\ Head(rx) \in Events
        /\ Head(rx).kind \in Classes \cup {"garbage", "hello", "closed", "too large", "broken"}
    BY <1>1, <1>9, Popped, Kinds DEF call_inner, ExtensionTypes
  <2>3. Head(rx).kind \notin {"closed", "too large", "broken"} =>
          classify_response(Head(rx)) \in Outcomes
    BY <1>3, <2>2 DEF classify_response
  <2>4. stage' \in {"reaping", "tearing", "returned"} /\ inflight' \in {inflight, inflight - 1}
    BY <1>9 DEF call_inner, Settle
  <2>5. outcome' \in Outcomes
    BY <1>1, <1>3, <1>9, <2>3 DEF call_inner, Settle, HostTypes
  <2>6. inflight' \in 0..1
    BY <2>1, <2>4
  <2> QED
    BY <1>1, <1>9, <2>4, <2>5, <2>6 DEF call_inner, HostTypes, Stages
<1>10. CASE Timeout \/ crash_from_child
  <2>1. inflight = 1
    BY <1>1, <1>10 DEF Timeout, crash_from_child, ChildInv, Sending
  <2>2. /\ stage' \in {"tearing", "returned"} /\ outcome' \in Outcomes
        /\ inflight' = inflight - 1
    BY <1>3, <1>10 DEF Timeout, crash_from_child, Settle
  <2>3. inflight' = 0
    BY <2>1, <2>2
  <2> QED
    BY <1>1, <1>10, <2>2, <2>3 DEF Timeout, crash_from_child, HostTypes, Stages
<1>11. CASE Dropped
  BY <1>1, <1>3, <1>11 DEF Dropped, Lose, Return, HostTypes, Stages
<1> QED
  BY <1>4, <1>5, <1>6, <1>7, <1>8, <1>9, <1>10, <1>11, <1>12 DEF HostMove, HostStep

(* Which child is held.                                                    *)
LEMMA ChildStep ==
  ASSUME ExtensionInv, HostMove
  PROVE  ChildInv'
<1>1. HostTypes /\ ChildInv /\ CallInv
  BY DEF ExtensionInv
<1>2. restarts \in Nat /\ MaxRestarts \in Nat /\ restarts <= MaxRestarts
  BY <1>1, Numbers
<1>3. CASE spawn
  BY <1>1, <1>3 DEF spawn, spawn_session, Strand, ChildInv, Sending, Dropping
<1>4. CASE Greet
  BY <1>1, <1>4 DEF Greet, ChildInv, Sending, Dropping
<1>5. CASE GreetFails
  BY <1>1, <1>5 DEF GreetFails, ChildInv, Sending, Dropping
<1>15. CASE KillAndWait
  BY <1>1, <1>15 DEF KillAndWait, ChildInv, Sending, Dropping
<1>13. CASE Refuse
  BY <1>1, <1>13 DEF Refuse, Return, ChildInv, Sending, Dropping
<1>14. CASE WriteFails
  BY <1>1, <1>14 DEF WriteFails, ChildInv, Sending, Dropping
<1>12. CASE try_call_once
  <2>1. inflight' = 1
    BY <1>12 DEF try_call_once
  <2> QED
    BY <1>1, <1>12, <2>1 DEF try_call_once, ChildInv, Sending, Dropping
<1>6. CASE teardown_session
  BY <1>1, <1>6 DEF teardown_session, ChildInv, Sending, Dropping, HostTypes
<1>7. CASE restart_child
  <2>1. restarts < MaxRestarts
    BY <1>1, <1>7 DEF restart_child, ChildInv
  <2> QED
    BY <1>1, <1>2, <1>7, <2>1 DEF restart_child, should_restart, spawn_session, Strand, Lose, Return,
       ChildInv, Sending, Dropping
<1>8. CASE write_frame \/ DrainFrame
  BY <1>1, <1>8 DEF write_frame, DrainFrame, Sent, ChildInv, Sending, Dropping
<1>9. CASE call_inner
  <2>1. \/ stage' = "reaping" /\ inflight' = inflight
        \/ stage' \in {"tearing", "returned"} /\ inflight' = inflight - 1
    BY <1>9 DEF call_inner, Settle
  <2>2. inflight = 1
    BY <1>1, <1>9 DEF call_inner, ChildInv, Sending
  <2>3. inflight' = IF stage' = "reaping" THEN 1 ELSE 0
    BY <2>1, <2>2
  <2> QED
    BY <1>1, <1>9, <2>1, <2>3 DEF call_inner, ChildInv, Sending, Dropping
<1>10. CASE Timeout \/ crash_from_child
  BY <1>1, <1>10 DEF Timeout, crash_from_child, Settle, ChildInv, Sending, Dropping
<1>11. CASE Dropped
  <2>1. ~lost /\ losses = 0 /\ inflight = 0 /\ stage = "joining"
    BY <1>1, <1>11 DEF Dropped, ChildInv, Sending
  <2>2. /\ child' = 0 /\ ~greeted' /\ restarts' = restarts /\ inflight' = inflight
        /\ \/ stage' \in {"closed", "unusable"} /\ lost' = lost /\ losses' = losses
           \/ stage' = "returned" /\ lost' /\ losses' = losses + 1
           \/ stage' = "top" /\ restarts < MaxRestarts /\ lost' = lost /\ losses' = losses
    BY <1>1, <1>11 DEF Dropped, Lose, Return, should_restart, HostTypes
  <2> QED
    BY <1>1, <2>1, <2>2 DEF ChildInv, Sending, Dropping
<1> QED
  BY <1>3, <1>4, <1>5, <1>6, <1>7, <1>8, <1>9, <1>10, <1>11, <1>12, <1>13,
     <1>14, <1>15 DEF HostMove, HostStep

(* The request under way.                                                  *)
LEMMA CallStep ==
  ASSUME ExtensionInv, HostMove
  PROVE  CallInv' /\ request' = request
<1>1. HostTypes /\ ExtensionTypes /\ ChildInv /\ CallInv
  BY DEF ExtensionInv
<1>2. /\ Classes \cap TransportFaults = {} /\ restarts \in Nat /\ restarts + 1 # 0
      /\ {"none", "no handshake", "shutdown", "crashed"} \cap Classes = {}
  BY <1>1, Numbers DEF Classes, TransportFaults
<1>3. CASE spawn
  BY <1>1, <1>3 DEF spawn, spawn_session, Strand, CallInv, ChildInv, Sending, Dropping
<1>4. CASE Greet \/ GreetFails
  BY <1>1, <1>2, <1>4 DEF Greet, GreetFails, CallInv, HostTypes, Sending, Dropping
<1>5. CASE Refuse \/ try_call_once \/ WriteFails \/ teardown_session
  BY <1>1, <1>2, <1>5 DEF Refuse, Return, try_call_once, WriteFails,
     teardown_session, CallInv, Sending, Dropping
<1>6. CASE restart_child
  <2>1. request \in Requests /\ request # NoRequest
    BY <1>1, <1>6, ClientAssumption DEF restart_child, CallInv, Requests
  <2>2. /\ request' = request /\ (stage' = "greeting" => restarts' = restarts + 1)
        /\ stage' \in {"greeting", "returned"} /\ (stage' = "greeting" => outcome' = outcome)
    BY <1>6 DEF restart_child, spawn_session, Strand, Lose, Return
  <2> QED
    BY <1>1, <1>2, <1>6, <2>1, <2>2 DEF restart_child, CallInv, Sending, Dropping
<1>7. CASE write_frame \/ DrainFrame
  BY <1>1, <1>7 DEF write_frame, DrainFrame, Sent, CallInv, Sending, Dropping
<1>8. CASE call_inner \/ Timeout \/ crash_from_child
  <2>1. request \in Requests /\ request # NoRequest /\ request' = request /\ restarts' = restarts
    BY <1>1, <1>8, ClientAssumption
    DEF call_inner, Timeout, crash_from_child, CallInv, Requests, Sending
  <2>2. \/ stage' = "reaping" /\ outcome' = outcome /\ stage # "returned"
        \/ stage' = "tearing" /\ outcome' \in TransportFaults
        \/ stage' = "returned"
    BY <1>8 DEF call_inner, Timeout, crash_from_child, Settle, is_transport_fault
  <2> QED
    BY <1>1, <1>2, <2>1, <2>2 DEF CallInv, Sending, Dropping
<1>9. CASE KillAndWait
  BY <1>1, <1>9 DEF KillAndWait, CallInv, Sending, Dropping
<1>10. CASE Dropped
  <2>1. stage = "joining" /\ request' = request /\ restarts' = restarts
    BY <1>10 DEF Dropped
  <2>2. \/ stage' \in {"closed", "unusable"} /\ outcome' = outcome
        \/ stage' \in {"returned", "top"} /\ outcome # "shutdown"
           /\ ~(outcome = "no handshake" /\ restarts = 0)
           /\ (stage' = "top" => outcome' = outcome)
    <3>4. restarts \in Nat
      BY <1>2
    <3>5. restarts > 0 <=> restarts # 0
      BY <3>4
    <3>1. CASE outcome = "shutdown" \/ (outcome = "no handshake" /\ restarts = 0)
      BY <1>10, <3>1, <3>5 DEF Dropped
    <3>2. CASE outcome = "no handshake" /\ restarts # 0
      BY <1>10, <3>2, <3>5 DEF Dropped, Lose, Return
    <3>3. CASE outcome \notin {"shutdown", "no handshake"}
      BY <1>10, <3>3 DEF Dropped, Lose, Return
    <3> QED
      BY <3>1, <3>2, <3>3
  <2>3. stage' \in {"returned", "top"} => request \in Requests
    BY <1>1, <2>1, <2>2 DEF CallInv, Dropping, HostTypes
  <2> QED
    BY <1>1, <2>1, <2>2, <2>3 DEF CallInv, Sending, Dropping
<1> QED
  BY <1>3, <1>4, <1>5, <1>6, <1>7, <1>8, <1>9, <1>10 DEF HostMove, HostStep

(* What the host does to the child and the channel.                        *)
LEMMA ExtensionTypesStep ==
  ASSUME ExtensionInv, HostMove
  PROVE  ExtensionTypes'
<1>1. HostTypes /\ ExtensionTypes /\ ChildInv /\ CallInv
  BY DEF ExtensionInv
<1>2. /\ restarts < MaxRestarts => restarts + 2 \in Children
      /\ 1 \in Children /\ <<>> \in Seq(Events)
  BY <1>1, Numbers, NoAnswersYet
<1>3. CASE spawn
  BY <1>1, <1>2, <1>3 DEF spawn, spawn_session, Strand, ExtensionTypes, extension
<1>4. CASE restart_child
  BY <1>1, <1>2, <1>4 DEF restart_child, spawn_session, Strand, should_restart, ExtensionTypes, extension
<1>5. CASE Greet
  <2>1. Tail(rx) \in Seq(Events)
    BY <1>1, <1>5, Popped DEF Greet, ExtensionTypes
  <2> QED
    BY <1>1, <1>5, <2>1 DEF Greet, ExtensionTypes
<1>6. CASE call_inner
  <2>1. Tail(rx) \in Seq(Events) /\ Head(rx) \in Events
    BY <1>1, <1>6, Popped DEF call_inner, ExtensionTypes
  <2>2. outcome' \in Classes => Response(Head(rx))
    <3>1. outcome \notin Classes /\ {"too large", "protocol", "mismatch"} \cap Classes = {}
      BY <1>1, <1>6 DEF call_inner, CallInv, Classes
    <3> QED
      BY <1>6, <3>1 DEF call_inner, Settle, classify_response, Response
  <2>3. answer' \in Frames \cup {NoAnswer}
    BY <1>6, <2>1, <2>2, Kinds DEF call_inner
  <2> QED
    BY <1>1, <1>6, <2>1, <2>3 DEF call_inner, ExtensionTypes
<1>7. CASE write_frame \/ DrainFrame
  BY <1>1, <1>7 DEF write_frame, DrainFrame, Sent, ExtensionTypes, HostTypes
<1>8. CASE crash_from_child \/ KillAndWait \/ Dropped
  BY <1>1, <1>2, <1>8 DEF crash_from_child, KillAndWait, Dropped, ExtensionTypes
<1>9. CASE GreetFails \/ Refuse \/ try_call_once \/ WriteFails \/ Timeout \/ teardown_session
  BY <1>1, <1>9 DEF GreetFails, Refuse, try_call_once, WriteFails, Timeout,
     teardown_session, ExtensionTypes, extension
<1> QED
  BY <1>3, <1>4, <1>5, <1>6, <1>7, <1>8, <1>9 DEF HostMove, HostStep

(* A child is let go of only when it has been reaped.                      *)
LEMMA ProcessStep ==
  ASSUME ExtensionInv, HostMove
  PROVE  ProcessInv'
<1>1. HostTypes /\ ExtensionTypes /\ ChildInv /\ ProcessInv
  BY DEF ExtensionInv
<1>2. /\ restarts < MaxRestarts => restarts + 2 \in Children
      /\ 1 \in Children /\ 0 \notin Children /\ restarts + 1 \in Children
  BY <1>1, Numbers
<1>10. ~lost /\ stage # "unusable" => \A c \in Children : process[c] # "stray"
  BY <1>1 DEF ProcessInv, StrayInv
<1>11. ASSUME NEW c \in Children, spawn_session(c), child = 0, ~lost, stage # "unusable"
       PROVE  ProcessInv'
  <2>1. /\ child' = c /\ stage' = "greeting" /\ process'[c] = "running"
        /\ \A other \in Children \ {c} : process'[other] = process[other]
    BY <1>1, <1>11 DEF spawn_session, ExtensionTypes
  <2>2. \A other \in Children : process[other] \in {"unborn", "reaped"}
    BY <1>1, <1>2, <1>10, <1>11 DEF ProcessInv
  <2> QED
    BY <2>1, <2>2 DEF ProcessInv, StrayInv
<1>12. ASSUME NEW c \in Children, Strand(c), child = 0, ~lost, stage # "unusable",
              stage' = "unusable" \/ (stage' = "returned" /\ lost')
       PROVE  ProcessInv'
  <2>1. /\ child' = 0 /\ process'[c] = "stray"
        /\ \A other \in Children \ {c} : process'[other] = process[other]
    BY <1>1, <1>12 DEF Strand, ExtensionTypes
  <2>2. \A other \in Children : process[other] \in {"unborn", "reaped"}
    BY <1>1, <1>2, <1>10, <1>12 DEF ProcessInv
  <2> QED
    BY <1>12, <2>1, <2>2 DEF ProcessInv, StrayInv
<1>7. CASE /\ UNCHANGED <<child, process>> /\ stage' # "joining"
           /\ stage # "unusable" /\ (lost => lost')
  BY <1>1, <1>7, <1>10 DEF ProcessInv, StrayInv
<1>3. CASE spawn
  <2>1. child = 0 /\ ~lost /\ stage = "spawning"
    BY <1>1, <1>3 DEF spawn, ChildInv, Dropping
  <2>2. CASE spawn_session(1)
    BY <1>2, <1>11, <2>1, <2>2
  <2>3. CASE stage' = "unusable" /\ Strand(1)
    BY <1>2, <1>12, <2>1, <2>3
  <2>4. CASE stage' = "unusable" /\ UNCHANGED <<child, process>>
    BY <1>7, <2>1, <2>4
  <2> QED
    BY <1>3, <2>2, <2>3, <2>4 DEF spawn, extension
<1>4. CASE restart_child
  <2>1. child = 0 /\ ~lost /\ stage = "top" /\ restarts + 2 \in Children
    BY <1>1, <1>2, <1>4 DEF restart_child, ChildInv, Dropping
  <2>2. CASE spawn_session(restarts + 2)
    BY <1>11, <2>1, <2>2
  <2>3. CASE Lose("crashed") /\ Strand(restarts + 2)
    BY <1>12, <2>1, <2>3 DEF Lose, Return
  <2>4. CASE stage' = "returned" /\ lost' /\ UNCHANGED <<child, process>>
    BY <1>7, <2>1, <2>4
  <2> QED
    BY <1>4, <2>2, <2>3, <2>4 DEF restart_child, Lose, Return, extension
<1>5. CASE crash_from_child \/ KillAndWait
  <2>1. child \in Children /\ child' = child /\ process' = [process EXCEPT ![child] = "reaped"]
    BY <1>1, <1>2, <1>5 DEF crash_from_child, KillAndWait, ChildInv, Sending, Dropping
  <2>2. stage' = "joining" => inbox' = NoRequest
    BY <1>5 DEF crash_from_child, KillAndWait, Settle
  <2>3. /\ process'[child] = "reaped"
        /\ \A c \in Children \ {child} : process'[c] = process[c]
    BY <1>1, <2>1 DEF ExtensionTypes
  <2>4. ~lost /\ stage # "unusable"
    BY <1>1, <1>5 DEF crash_from_child, KillAndWait, ChildInv, Sending, Dropping
  <2> QED
    BY <1>1, <1>10, <2>1, <2>2, <2>3, <2>4 DEF ProcessInv, StrayInv
<1>6. CASE Dropped
  <2>1. ~lost /\ stage = "joining"
    BY <1>1, <1>6 DEF Dropped, ChildInv
  <2>2. /\ \A c \in Children : process[c] \in {"unborn", "reaped"}
        /\ child' = 0 /\ process' = process
    BY <1>1, <1>6, <1>10, <2>1 DEF Dropped, ProcessInv
  <2>3. stage' # "joining"
    BY <1>6 DEF Dropped, Lose, Return
  <2> QED
    BY <2>2, <2>3 DEF ProcessInv, StrayInv
<1>8. CASE Greet \/ GreetFails \/ Refuse \/ try_call_once \/ write_frame \/ DrainFrame
           \/ WriteFails \/ call_inner \/ Timeout \/ teardown_session
  BY <1>7, <1>8 DEF Greet, GreetFails, Refuse, Return, try_call_once, write_frame, DrainFrame,
     Sent, WriteFails, call_inner, Timeout, Settle, teardown_session, extension
<1> QED
  BY <1>3, <1>4, <1>5, <1>6, <1>8 DEF HostMove, HostStep

(* The wire: an answer is taken off it once, and nothing stays on it when  *)
(* the session is dropped.                                                 *)
LEMMA WireStep ==
  ASSUME ExtensionInv, HostMove
  PROVE  WireInv'
<1>1. HostTypes /\ ExtensionTypes /\ ChildInv /\ ProcessInv /\ CallInv /\ WireInv
  BY DEF ExtensionInv
<1>2. request' = request
  BY CallStep
<1>3. Clean(<<>>) /\ \A s, r : Clean(s) => OneAnswer(s, r)
  BY NoAnswersYet
<1>4. ASSUME NEW c \in Nat, spawn_session(c)
      PROVE  WireInv'
  BY <1>3, <1>4 DEF spawn_session, Strand, WireInv
<1>5. CASE /\ UNCHANGED <<babbled, rx, inbox>>
           /\ stage \in {"receiving", "reaping", "tearing"} =>
                stage' \in {"receiving", "reaping", "tearing"}
  BY <1>1, <1>2, <1>5 DEF WireInv
<1>6. CASE spawn \/ restart_child
  <2>1. restarts + 2 \in Nat /\ 1 \in Nat
    BY <1>1, Numbers
  <2>2. CASE spawn_session(1) \/ spawn_session(restarts + 2)
    BY <1>4, <2>1, <2>2
  <2>3. CASE UNCHANGED <<babbled, rx, inbox>>
    BY <1>5, <1>6, <2>3 DEF spawn, restart_child
  <2> QED
    BY <1>6, <2>2, <2>3 DEF spawn, restart_child, Strand, extension
<1>7. CASE Greet
  <2>1. /\ stage = "greeting" /\ rx # <<>> /\ rx' = Tail(rx)
        /\ UNCHANGED <<babbled, inbox>>
    BY <1>7 DEF Greet
  <2>2. ~babbled => Clean(rx) /\ inbox \in {NoRequest, Hello}
    BY <1>1, <2>1 DEF WireInv
  <2>3. Clean(rx) => Clean(Tail(rx))
    BY <1>1, <2>1, Popped DEF ExtensionTypes
  <2> QED
    BY <1>3, <2>1, <2>2, <2>3 DEF WireInv
<1>8. CASE write_frame \/ DrainFrame
  <2>1. /\ stage = "writing" /\ stage' = "receiving" /\ inbox' = request
        /\ UNCHANGED <<rx, babbled>>
    BY <1>8 DEF write_frame, DrainFrame, Sent
  <2>2. ~babbled => Clean(rx)
    BY <1>1, <2>1 DEF WireInv
  <2> QED
    BY <1>2, <1>3, <2>1, <2>2 DEF WireInv
<1>9. CASE call_inner
  <2>1. /\ stage = "receiving" /\ rx # <<>> /\ rx' = Tail(rx)
        /\ UNCHANGED <<babbled, inbox>>
        /\ stage' \in {"reaping", "tearing", "returned"}
    BY <1>9 DEF call_inner, Settle
  <2>2. stage' = "returned" => Response(Head(rx))
    <3> DEFINE kind == Head(rx).kind
    <3>1. {"too large", "protocol"} \subseteq TransportFaults
      BY DEF TransportFaults
    <3>2. ~Response(Head(rx)) => kind \in {"hello", "closed", "too large", "broken"}
      BY <1>1, <2>1, Popped, Kinds DEF ExtensionTypes, Response
    <3>3. kind \in {"hello", "closed", "too large", "broken"} => stage' # "returned"
      BY <1>9, <3>1 DEF call_inner, Settle, is_transport_fault, classify_response
    <3> QED
      BY <3>2, <3>3
  <2>3. /\ OneAnswer(rx, request) =>
             /\ OneAnswer(Tail(rx), request)
             /\ Response(Head(rx)) => Clean(Tail(rx))
        /\ Clean(rx) => Clean(Tail(rx)) /\ ~Response(Head(rx))
    BY <1>1, <2>1, Popped DEF ExtensionTypes
  <2> QED
    BY <1>1, <1>2, <2>1, <2>2, <2>3 DEF WireInv
<1>10. CASE KillAndWait
  BY <1>3, <1>10 DEF KillAndWait, WireInv
<1>11. CASE Dropped
  <2>1. rx' = <<>> /\ inbox' = NoRequest
    BY <1>1, <1>11 DEF Dropped, ProcessInv
  <2> QED
    BY <1>3, <2>1 DEF WireInv
<1>12. CASE GreetFails \/ Refuse \/ try_call_once \/ WriteFails \/ Timeout
            \/ crash_from_child \/ teardown_session
  BY <1>5, <1>12 DEF GreetFails, Refuse, try_call_once, WriteFails, Timeout, Settle,
     crash_from_child, is_transport_fault, TransportFaults, teardown_session, extension
<1> QED
  BY <1>6, <1>7, <1>8, <1>9, <1>10, <1>11, <1>12 DEF HostMove, HostStep

(* What call returns.                                                      *)
LEMMA AnswerStep ==
  ASSUME ExtensionInv, HostMove
  PROVE  AnswersBelongToTheCall'
<1>1. ExtensionTypes /\ CallInv /\ WireInv
  BY DEF ExtensionInv
<1>2. CASE call_inner
  <2> SUFFICES ASSUME stage' = "returned", outcome' \in Classes
               PROVE  /\ answer' # NoAnswer /\ answer'.case = request'.case
                      /\ babbled' \/ answer'.to = request'
    BY DEF AnswersBelongToTheCall
  <2>1. /\ stage = "receiving" /\ rx # <<>> /\ answer' = Head(rx)
        /\ UNCHANGED <<request, babbled>>
    BY <1>2 DEF call_inner
  <2>2. Response(Head(rx)) /\ Head(rx).case = request.case
    <3>1. {"too large", "protocol", "mismatch"} \cap Classes = {}
      BY DEF Classes
    <3> QED
      BY <1>2, <3>1 DEF call_inner, Settle, classify_response, Response
  <2>3. Head(rx) \in Events /\ (OneAnswer(rx, request) => Head(rx).to = request)
    BY <1>1, <2>1, <2>2, Popped DEF ExtensionTypes
  <2>4. Head(rx) # NoAnswer
    BY <2>2, <2>3, Kinds, AnswerAssumption
  <2>5. babbled \/ OneAnswer(rx, request)
    BY <1>1 DEF WireInv
  <2> QED
    BY <2>1, <2>2, <2>3, <2>4, <2>5
<1>3. CASE stage' # "returned" \/ outcome' \notin Classes
  BY <1>3 DEF AnswersBelongToTheCall
<1>4. outcome \notin Classes
  BY <1>1 DEF HostMove, HostStep, spawn, Greet, GreetFails, Refuse, restart_child,
     try_call_once, write_frame, WriteFails, call_inner, Timeout, crash_from_child,
     KillAndWait, Dropped, teardown_session, DrainFrame, CallInv
<1>5. "crashed" \notin Classes /\ "timeout" \notin Classes
  BY DEF Classes
<1>6. CASE ~call_inner
  BY <1>3, <1>4, <1>5, <1>6 DEF HostMove, HostStep, spawn, spawn_session, Strand, Greet, GreetFails,
     Refuse, Return, Lose, restart_child, try_call_once, write_frame, Sent, WriteFails, Timeout,
     Settle, crash_from_child, KillAndWait, Dropped, teardown_session, DrainFrame
<1> QED
  BY <1>2, <1>6

(* The driver's bookkeeping is not touched.                                *)
LEMMA HostKeepsDriver ==
  ASSUME ExtensionInv, HostMove, UNCHANGED <<driver, notes>>
  PROVE  DriverTypes' /\ DriverInv'
<1>1. DriverTypes /\ DriverInv /\ request' = request
  BY CallStep DEF ExtensionInv
<1> QED
  BY <1>1 DEF driver, notes, DriverTypes, DriverInv, FindingsFollowCleanSessions

-----------------------------------------------------------------------------
(* The extension's steps.                                                  *)

ExtensionMove ==
  Answer \/ Babble \/ Oversize \/ CloseStdout \/ CloseStdin \/ DoubleFork \/ Exit \/ reader_loop

(* Whatever it does, it changes nothing of the host, and it is the held    *)
(* child that does it.                                                     *)
LEMMA ExtensionControl ==
  ASSUME ExtensionInv, ExtensionMove, UNCHANGED <<driver, notes>>
  PROVE  /\ UNCHANGED <<stage, request, outcome, caps, child, greeted, restarts, losses>>
         /\ UNCHANGED <<lost, inflight, answer>>
         /\ UNCHANGED <<pc, case, step, infrastructure, finding, reset_by, late>>
         /\ child \in Children
         /\ babbled => babbled'
<1>1. HostTypes
  BY DEF ExtensionInv
<1>2. child # 0
  BY DEF ExtensionMove, Answer, Babble, Oversize, CloseStdout, CloseStdin, DoubleFork, Exit,
     reader_loop, CanWrite, Alive
<1>3. UNCHANGED <<host, answer>>
  BY DEF ExtensionMove, Answer, Babble, Oversize, CloseStdout, CloseStdin, DoubleFork, Exit, reader_loop
<1>6. babbled' = babbled \/ babbled' = TRUE
  BY DEF ExtensionMove, Answer, Babble, Oversize, CloseStdout, CloseStdin, DoubleFork, Exit, reader_loop
<1>4. /\ UNCHANGED <<stage, request, outcome, caps, child, greeted, restarts, losses>>
      /\ UNCHANGED <<lost, inflight>>
  BY <1>3 DEF host
<1>5. UNCHANGED <<pc, case, step, infrastructure, finding, reset_by, late>>
  BY DEF driver, notes
<1> QED
  BY <1>1, <1>2, <1>3, <1>4, <1>5, <1>6 DEF HostTypes

(* An answer on the wire.                                                  *)
LEMMA AnswerDelivered ==
  ASSUME ExtensionInv, Answer
  PROVE  rx' \in Seq(Events) /\ (~babbled => WireInv')
<1>1. /\ HostTypes /\ ExtensionTypes /\ WireInv /\ UNCHANGED <<stage, request, babbled>>
      /\ inbox' = NoRequest /\ inbox # NoRequest
  BY DEF ExtensionInv, Answer, host
<1>2. CASE inbox = Hello
  <2>1. PICK provided \in CapabilitySets : rx' = Append(rx, [kind |-> "hello", caps |-> provided])
    BY <1>2 DEF Answer, Deliver
  <2> DEFINE e == [kind |-> "hello", caps |-> provided]
  <2>2. e \in Events /\ ~Response(e)
    BY DEF Events, Frames, Response, Classes
  <2>3. rx' = Append(rx, e) /\ rx \in Seq(Events)
    BY <1>1, <2>1 DEF ExtensionTypes
  <2> HIDE DEF e
  <2>4. /\ Append(rx, e) \in Seq(Events)
        /\ Clean(rx) => Clean(Append(rx, e))
        /\ OneAnswer(rx, request) => OneAnswer(Append(rx, e), request)
    BY <2>2, <2>3, Delivered
  <2>5. ~babbled => Clean(rx) /\ OneAnswer(rx, request)
    BY <1>1 DEF WireInv
  <2> QED
    BY <1>1, <2>3, <2>4, <2>5 DEF WireInv
<1>3. CASE inbox # Hello
  <2>1. PICK k \in Replies(inbox.cap) :
          rx' = Append(rx, [kind |-> k, case |-> inbox.case, to |-> inbox])
    BY <1>3 DEF Answer, Deliver
  <2> DEFINE e == [kind |-> k, case |-> inbox.case, to |-> inbox]
  <2>2. k \in Classes \cup {"garbage"} /\ inbox \in Requests /\ inbox.case \in Cases
    BY <1>1, <1>3 DEF Replies, Classes, ExtensionTypes, Requests
  <2>3. e \in Events /\ e.to = inbox
    BY <2>2 DEF Events, Frames
  <2>4. rx' = Append(rx, e) /\ rx \in Seq(Events)
    BY <1>1, <2>1 DEF ExtensionTypes
  <2> HIDE DEF e
  <2>5. /\ Append(rx, e) \in Seq(Events)
        /\ Clean(rx) => OneAnswer(Append(rx, e), inbox)
    BY <2>3, <2>4, Delivered
  <2>6. ~babbled => /\ Clean(rx) /\ inbox = request
                    /\ stage \in {"receiving", "reaping", "tearing"}
    BY <1>1, <1>3 DEF WireInv
  <2> QED
    BY <1>1, <2>4, <2>5, <2>6 DEF WireInv
<1> QED
  BY <1>2, <1>3

(* The end of the stream on the wire, or a frame over the limit.           *)
LEMMA EndDelivered ==
  ASSUME ExtensionInv, Oversize \/ reader_loop
  PROVE  rx' \in Seq(Events) /\ WireInv'
<1>1. /\ ExtensionTypes /\ WireInv /\ UNCHANGED <<stage, request, babbled, inbox>>
  BY DEF ExtensionInv, Oversize, reader_loop, host
<1>2. PICK k \in {"closed", "too large", "broken"} : rx' = Append(rx, [kind |-> k])
  BY DEF Oversize, reader_loop, Deliver
<1> DEFINE e == [kind |-> k]
<1>3. e \in Events /\ ~Response(e)
  BY DEF Events, Response, Classes
<1>4. rx' = Append(rx, e) /\ rx \in Seq(Events)
  BY <1>1, <1>2 DEF ExtensionTypes
<1> HIDE DEF e
<1>5. /\ Append(rx, e) \in Seq(Events)
      /\ Clean(rx) => Clean(Append(rx, e))
      /\ OneAnswer(rx, request) => OneAnswer(Append(rx, e), request)
  BY <1>3, <1>4, Delivered
<1> QED
  BY <1>1, <1>4, <1>5 DEF WireInv

(* A step of the extension.                                                *)
LEMMA ExtensionKeeps ==
  ASSUME ExtensionInv, ExtensionMove, UNCHANGED <<driver, notes>>
  PROVE  ExtensionInv'
<1>1. /\ UNCHANGED <<stage, request, outcome, caps, child, greeted, restarts, losses>>
      /\ UNCHANGED <<lost, inflight, answer>>
      /\ UNCHANGED <<pc, case, step, infrastructure, finding, reset_by, late>>
      /\ child \in Children
      /\ babbled => babbled'
  BY ExtensionControl
<1>2. /\ HostTypes /\ ExtensionTypes /\ DriverTypes /\ ChildInv /\ ProcessInv /\ CallInv
      /\ DriverInv /\ WireInv /\ AnswersBelongToTheCall
  BY DEF ExtensionInv
<1>3. HostTypes' /\ DriverTypes' /\ ChildInv' /\ CallInv' /\ DriverInv'
  BY <1>1, <1>2 DEF HostTypes, DriverTypes, ChildInv, CallInv, DriverInv,
     FindingsFollowCleanSessions
<1>4. AnswersBelongToTheCall'
  BY <1>1, <1>2 DEF AnswersBelongToTheCall
<1>5. rx' \in Seq(Events)
  <2>1. CASE Babble
    <3>1. PICK k \in Cases : rx' = Append(rx, [kind |-> "finding", case |-> k, to |-> NoRequest])
      BY <2>1 DEF Babble, Deliver
    <3> DEFINE e == [kind |-> "finding", case |-> k, to |-> NoRequest]
    <3>2. e \in Events
      BY DEF Events, Frames, Classes
    <3>3. rx' = Append(rx, e) /\ rx \in Seq(Events)
      BY <1>2, <3>1 DEF ExtensionTypes
    <3> HIDE DEF e
    <3> QED
      BY <3>2, <3>3, Delivered
  <2>2. CASE CloseStdout \/ CloseStdin \/ DoubleFork \/ Exit
    BY <1>2, <2>2 DEF CloseStdout, CloseStdin, DoubleFork, Exit, ExtensionTypes
  <2> QED
    BY <2>1, <2>2, AnswerDelivered, EndDelivered DEF ExtensionMove
<1>6. WireInv'
  <2>1. CASE Answer
    <3>1. babbled' = babbled
      BY <2>1 DEF Answer
    <3> QED
      BY <2>1, <3>1, AnswerDelivered DEF WireInv
  <2>2. CASE Babble
    BY <2>2 DEF Babble, WireInv
  <2>3. CASE CloseStdout \/ CloseStdin \/ DoubleFork \/ Exit
    BY <1>1, <1>2, <2>3 DEF CloseStdout, CloseStdin, DoubleFork, Exit, WireInv
  <2> QED
    BY <2>1, <2>2, <2>3, EndDelivered DEF ExtensionMove
<1>7. /\ process' = process \/ (process[child] = "running" /\
                                process' = [process EXCEPT ![child] = "exited"])
      /\ inbox' \in {inbox, NoRequest} /\ stdin' \in {stdin, "closed"}
      /\ stdout' \in {stdout, "closed"} /\ held' \in {held, TRUE} /\ reader' \in {reader, "done"}
      /\ babbled' \in {babbled, TRUE}
  BY DEF ExtensionMove, Answer, Babble, Oversize, CloseStdout, CloseStdin, DoubleFork, Exit, reader_loop,
     Alive
<1>8. ExtensionTypes'
  BY <1>1, <1>2, <1>5, <1>7 DEF ExtensionTypes
<1>9. ProcessInv'
  BY <1>1, <1>2, <1>7 DEF ExtensionTypes, ProcessInv, StrayInv
<1> QED
  BY <1>3, <1>4, <1>6, <1>8, <1>9 DEF ExtensionInv

-----------------------------------------------------------------------------
(* The driver's steps.                                                     *)

(* Where a move that is skipped or succeeds leads to.                      *)
LEMMA PassStep ==
  ASSUME DriverTypes, pc \in CallMoves, Pass(pc)
  PROVE  /\ pc' \in Moves /\ step' \in 0..MaxSteps
         /\ UNCHANGED <<infrastructure, late>>
         /\ pc = "evaluate" => pc' = "teardown"
         /\ pc = "teardown" => pc' = "done"
<1>1. CASE pc = "observe"
  <2>1. NextStep
    BY <1>1 DEF Pass, Follow
  <2>2. CASE step + 1 < MaxSteps
    <3>1. step + 1 \in 0..MaxSteps
      BY <2>2, SessionAssumption DEF DriverTypes
    <3> QED
      BY <1>1, <2>1, <2>2, <3>1 DEF NextStep, Pass, Moves
  <2>3. CASE ~(step + 1 < MaxSteps)
    BY <1>1, <2>1, <2>3 DEF NextStep, Pass, Moves, DriverTypes
  <2> QED
    BY <2>2, <2>3
<1>2. CASE pc # "observe"
  BY <1>2 DEF CallMoves, Moves, Pass, Follow, DriverTypes
<1> QED
  BY <1>1, <1>2

(* Where a fault leads to.                                                 *)
LEMMA FailStep ==
  ASSUME NEW move \in Moves, Fail(move)
  PROVE  /\ pc' \in Moves /\ step' = step
         /\ infrastructure' = TRUE
         /\ late' = IF infrastructure THEN late ELSE move = "teardown"
         /\ move = "teardown" => pc' = "done"
  BY DEF Fail, Moves

(* The driver between calls.                                               *)
LEMMA IdleStep ==
  ASSUME ExtensionInv, Skip \/ Exchange \/ NextCase
  PROVE  ExtensionInv'
<1>1. /\ HostTypes /\ ExtensionTypes /\ DriverTypes /\ ChildInv /\ ProcessInv /\ CallInv
      /\ DriverInv /\ WireInv /\ AnswersBelongToTheCall
  BY DEF ExtensionInv
<1>2. UNCHANGED <<host, extension, answer>> /\ stage = "idle"
  BY DEF Skip, Exchange, NextCase, client
<1>3. /\ UNCHANGED <<stage, request, outcome, caps, child, greeted, restarts, losses>>
      /\ UNCHANGED <<lost, inflight, answer>>
      /\ UNCHANGED <<process, inbox, stdin, stdout, held, reader, rx, babbled>>
  BY <1>2 DEF host, extension
<1>4. HostTypes' /\ ExtensionTypes' /\ ChildInv' /\ ProcessInv' /\ CallInv'
  <2>1. HostTypes' /\ ChildInv'
    BY <1>1, <1>3 DEF HostTypes, ChildInv
  <2>2. ExtensionTypes'
    BY <1>1, <1>3 DEF ExtensionTypes
  <2>3. CallInv'
    BY <1>1, <1>3 DEF CallInv
  <2>4. ProcessInv'
    BY <1>1, <1>3 DEF ProcessInv, StrayInv
  <2> QED
    BY <2>1, <2>2, <2>3, <2>4
<1>5. WireInv' /\ AnswersBelongToTheCall'
  BY <1>1, <1>3 DEF WireInv, AnswersBelongToTheCall
<1>6. request' = NoRequest
  BY <1>1, <1>2, <1>3 DEF CallInv
<1>7. CASE Skip
  <2>1. pc \in CallMoves /\ Pass(pc) /\ UNCHANGED <<case, finding, reset_by>>
    BY <1>1, <1>7 DEF Skip, DriverTypes, CallMoves
  <2>2. /\ pc' \in Moves /\ step' \in 0..MaxSteps
        /\ UNCHANGED <<infrastructure, late>>
        /\ pc = "teardown" => pc' = "done"
    BY <1>1, <2>1, PassStep
  <2>3. DriverTypes'
    BY <1>1, <2>1, <2>2 DEF DriverTypes
  <2>4. DriverInv'
    BY <1>1, <1>6, <2>1, <2>2 DEF DriverInv, CallMoves, FindingsFollowCleanSessions
  <2> QED
    BY <1>4, <1>5, <2>3, <2>4 DEF ExtensionInv
<1>8. CASE Exchange
  <2>1. /\ pc = "exchange" /\ UNCHANGED <<case, finding, reset_by>>
        /\ pc' \in Moves /\ step' = step
        /\ infrastructure' \in BOOLEAN /\ late' \in BOOLEAN
    BY <1>1, <1>8, FailStep DEF Exchange, Moves, DriverTypes
  <2>2. ~finding
    BY <1>1, <2>1 DEF DriverInv
  <2>3. DriverTypes'
    BY <1>1, <2>1 DEF DriverTypes
  <2>4. DriverInv'
    BY <1>6, <2>1, <2>2 DEF DriverInv, FindingsFollowCleanSessions
  <2> QED
    BY <1>4, <1>5, <2>3, <2>4 DEF ExtensionInv
<1>9. CASE NextCase
  <2>1. 0 \in 0..MaxSteps
    BY SessionAssumption
  <2>2. DriverTypes'
    BY <1>1, <1>9, <2>1 DEF NextCase, DriverTypes, Moves
  <2>3. DriverInv'
    BY <1>6, <1>9 DEF NextCase, DriverInv, FindingsFollowCleanSessions
  <2> QED
    BY <1>4, <1>5, <2>2, <2>3 DEF ExtensionInv
<1> QED
  BY <1>7, <1>8, <1>9

(* A call begins, or the client is dropped.                                *)
LEMMA LeaveIdle ==
  ASSUME ExtensionInv, StartCall \/ Close
  PROVE  ExtensionInv'
<1>1. /\ HostTypes /\ ExtensionTypes /\ DriverTypes /\ ChildInv /\ ProcessInv /\ CallInv
      /\ DriverInv /\ WireInv /\ AnswersBelongToTheCall
  BY DEF ExtensionInv
<1>2. /\ stage = "idle" /\ UNCHANGED <<outcome, caps, child, greeted, restarts, losses>>
      /\ UNCHANGED <<lost, inflight, answer, extension, driver, notes>>
      /\ stage' \in {"top", "closing"}
      /\ stage' = "closing" => request' = request
  BY DEF StartCall, Close, Call, DropClient
<1>3. /\ UNCHANGED <<process, inbox, stdin, stdout, held, reader, rx, babbled>>
      /\ UNCHANGED <<pc, case, step, infrastructure, finding, reset_by, late>>
  BY <1>2 DEF extension, driver, notes
<1>4. stage' = "top" =>
        /\ request' \in Requests /\ request' # NoRequest
        /\ pc \in CallMoves /\ (pc = "evaluate" => ~infrastructure)
  <2> SUFFICES ASSUME stage' = "top"
               PROVE  /\ request' \in Requests /\ request' # NoRequest
                      /\ pc \in CallMoves /\ (pc = "evaluate" => ~infrastructure)
    OBVIOUS
  <2>1. StartCall
    BY DEF Close, DropClient
  <2>2. PICK large \in BOOLEAN :
          request' = [cap |-> pc, case |-> case, step |-> step, large |-> large]
    BY <2>1 DEF StartCall, Call
  <2>3. pc \in Capabilities /\ case \in Cases /\ step \in Steps
    BY <1>1, <2>1, SessionAssumption DEF StartCall, Skips, Calls, HostTypes, DriverTypes
  <2>4. request' \in Requests
    BY <2>2, <2>3 DEF Requests
  <2>5. request' # NoRequest
    BY <2>4, ClientAssumption DEF Requests
  <2>6. pc \in CallMoves /\ (pc = "evaluate" => ~infrastructure)
    BY <1>1, <2>1 DEF StartCall, Skips, Judges, DriverTypes, CallMoves
  <2> QED
    BY <2>4, <2>5, <2>6
<1>5. HostTypes'
  BY <1>1, <1>2, <1>4 DEF HostTypes, Stages
<1>6. ExtensionTypes' /\ DriverTypes'
  BY <1>1, <1>2, <1>3 DEF ExtensionTypes, DriverTypes
<1>7. ChildInv'
  BY <1>1, <1>2 DEF ChildInv, Sending, Dropping
<1>8. ProcessInv'
  BY <1>1, <1>2, <1>3 DEF ProcessInv, StrayInv
<1>9. CallInv'
  BY <1>1, <1>2, <1>4 DEF CallInv, Sending, Dropping
<1>10. DriverInv'
  BY <1>1, <1>2, <1>3, <1>4 DEF DriverInv, FindingsFollowCleanSessions
<1>11. WireInv'
  <2>1. ~babbled => Clean(rx) /\ inbox \in {NoRequest, Hello}
    BY <1>1, <1>2 DEF WireInv
  <2> QED
    BY <1>3, <2>1, NoAnswersYet DEF WireInv
<1>12. AnswersBelongToTheCall'
  BY <1>2 DEF AnswersBelongToTheCall
<1> QED
  BY <1>5, <1>6, <1>7, <1>8, <1>9, <1>10, <1>11, <1>12 DEF ExtensionInv

(* The driver takes what a call has returned.                              *)
LEMMA TakeStep ==
  ASSUME ExtensionInv, TakeOutcome
  PROVE  ExtensionInv'
<1>1. /\ HostTypes /\ ExtensionTypes /\ DriverTypes /\ ChildInv /\ ProcessInv /\ CallInv
      /\ DriverInv /\ WireInv
  BY DEF ExtensionInv
<1>2. /\ stage = "returned" /\ stage' = "idle" /\ request' = NoRequest /\ outcome' = "none"
      /\ answer' = NoAnswer
      /\ UNCHANGED <<caps, child, greeted, restarts, losses, lost, inflight, extension, case>>
  BY DEF TakeOutcome, Consume
<1>3. UNCHANGED <<process, inbox, stdin, stdout, held, reader, rx, babbled>>
  BY <1>2 DEF extension
<1>4. HostTypes' /\ ExtensionTypes' /\ ProcessInv' /\ AnswersBelongToTheCall'
  BY <1>1, <1>2, <1>3 DEF HostTypes, ExtensionTypes, ProcessInv, StrayInv, AnswersBelongToTheCall,
     Stages, Outcomes
<1>5. ChildInv'
  BY <1>1, <1>2 DEF ChildInv, Sending, Dropping
<1>6. CallInv'
  BY <1>2 DEF CallInv, Sending, Dropping, Classes
<1>7. WireInv'
  <2>1. ~babbled => Clean(rx) /\ inbox \in {NoRequest, Hello}
    BY <1>1, <1>2 DEF WireInv
  <2> QED
    BY <1>3, <2>1, NoAnswersYet DEF WireInv
<1>8. pc \in CallMoves /\ pc \in Moves /\ (pc = "evaluate" => ~infrastructure)
  BY <1>1, <1>2, ClientAssumption DEF CallInv, DriverInv, DriverTypes, Requests, Sending
<1> DEFINE t == Typed(pc, outcome)
<1>9. /\ Handle(pc, t) /\ finding' = (finding \/ (pc = "evaluate" /\ t = "finding"))
      /\ reset_by' = IF pc = "reset" /\ t = "ok" THEN <<child, case>> ELSE reset_by
  BY DEF TakeOutcome
<1> HIDE DEF t
<1>10. \/ Pass(pc)
       \/ Fail(pc) /\ ~(pc = "evaluate" /\ t = "finding")
       \/ pc = "next" /\ pc' = "evaluate" /\ UNCHANGED <<step, infrastructure, late>>
  BY <1>9 DEF Handle
<1>11. /\ pc' \in Moves /\ step' \in 0..MaxSteps
       /\ infrastructure' \in BOOLEAN /\ late' \in BOOLEAN
       /\ pc = "teardown" => pc' = "done"
       /\ \/ UNCHANGED <<infrastructure, late>>
          \/ infrastructure' /\ late' = IF infrastructure THEN late ELSE pc = "teardown"
       /\ pc = "evaluate" /\ t = "finding" =>
            pc' = "teardown" /\ UNCHANGED <<infrastructure, late>>
  <2>1. CASE Pass(pc)
    BY <1>1, <1>8, <2>1, PassStep DEF DriverTypes
  <2>2. CASE Fail(pc) /\ ~(pc = "evaluate" /\ t = "finding")
    BY <1>1, <1>8, <2>2, FailStep DEF DriverTypes
  <2>3. CASE pc = "next" /\ pc' = "evaluate" /\ UNCHANGED <<step, infrastructure, late>>
    BY <1>1, <2>3 DEF DriverTypes, Moves
  <2> QED
    BY <1>10, <2>1, <2>2, <2>3
<1>12. DriverTypes'
  <2>1. reset_by' \in (Children \cup {0}) \X (Cases \cup {0})
    BY <1>1, <1>9 DEF DriverTypes, HostTypes
  <2>2. finding' \in BOOLEAN
    BY <1>9
  <2> QED
    BY <1>1, <1>2, <1>11, <2>1, <2>2 DEF DriverTypes
<1>13. DriverInv'
  <2>1. CASE pc = "evaluate" /\ t = "finding"
    BY <1>2, <1>8, <1>11, <2>1 DEF DriverInv, FindingsFollowCleanSessions
  <2>2. CASE ~(pc = "evaluate" /\ t = "finding")
    <3>1. finding' => finding /\ pc = "teardown"
      BY <1>1, <1>8, <1>9, <2>2 DEF DriverInv, DriverTypes, CallMoves
    <3> QED
      BY <1>1, <1>2, <1>11, <3>1 DEF DriverInv, FindingsFollowCleanSessions
  <2> QED
    BY <2>1, <2>2
<1> QED
  BY <1>4, <1>5, <1>6, <1>7, <1>12, <1>13 DEF ExtensionInv

-----------------------------------------------------------------------------
(* The whole.                                                              *)

(* Before the first child is spawned.                                      *)
LEMMA InitExtension == Init => ExtensionInv
<1> SUFFICES ASSUME Init PROVE ExtensionInv
  OBVIOUS
<1>1. HostTypes
  <2>1. 0 \in 0..MaxRestarts /\ 0 \in 0..1
    BY ClientAssumption
  <2> QED
    BY <2>1 DEF Init, ClientInit, HostTypes, Stages, Outcomes
<1>7. ChildInv
  BY DEF Init, ClientInit, ChildInv, Sending, Dropping
<1>2. ExtensionTypes
  BY NoAnswersYet DEF Init, ClientInit, ExtensionTypes
<1>3. DriverTypes
  <2>1. 0 \in 0..MaxSteps /\ 1 \in Cases
    BY SessionAssumption
  <2>2. <<0, 0>> \in (Children \cup {0}) \X (Cases \cup {0})
    OBVIOUS
  <2> QED
    BY <2>1, <2>2 DEF Init, DriverTypes, Moves
<1>4. ProcessInv /\ CallInv /\ AnswersBelongToTheCall
  BY DEF Init, ClientInit, ProcessInv, StrayInv, CallInv, AnswersBelongToTheCall, Sending, Dropping,
     Classes
<1>5. DriverInv
  BY DEF Init, ClientInit, DriverInv, FindingsFollowCleanSessions
<1>6. WireInv
  BY NoAnswersYet DEF Init, ClientInit, WireInv
<1> QED
  BY <1>1, <1>2, <1>3, <1>4, <1>5, <1>6, <1>7 DEF ExtensionInv

(* No step of the driver, the host or the extension breaks it.             *)
LEMMA NextExtension == ExtensionInv /\ [Next]_vars => ExtensionInv'
<1> SUFFICES ASSUME ExtensionInv, [Next]_vars PROVE ExtensionInv'
  OBVIOUS
<1>1. CASE DriverStep
  BY <1>1, IdleStep, LeaveIdle, TakeStep DEF DriverStep
<1>2. CASE HostMove /\ UNCHANGED <<driver, notes>>
  BY <1>2, HostTypesStep, ExtensionTypesStep, ChildStep, CallStep, ProcessStep, WireStep,
     AnswerStep, HostKeepsDriver DEF ExtensionInv
<1>3. CASE ExtensionMove /\ UNCHANGED <<driver, notes>>
  BY <1>3, ExtensionKeeps
<1>4. CASE UNCHANGED vars
  <2>1. UNCHANGED <<host, extension, answer, driver, notes>>
    BY <1>4 DEF vars, client
  <2>2. /\ UNCHANGED <<stage, request, outcome, caps, child, greeted, restarts, losses>>
        /\ UNCHANGED <<lost, inflight, answer>>
        /\ UNCHANGED <<process, inbox, stdin, stdout, held, reader, rx, babbled>>
        /\ UNCHANGED <<pc, case, step, infrastructure, finding, reset_by, late>>
    BY <2>1 DEF host, extension, driver, notes
  <2>3. HostTypes' /\ ChildInv'
    BY <2>2 DEF ExtensionInv, HostTypes, ChildInv
  <2>5. ExtensionTypes'
    BY <2>2 DEF ExtensionInv, ExtensionTypes
  <2>8. CallInv'
    BY <2>2 DEF ExtensionInv, CallInv
  <2>7. ProcessInv'
    BY <2>2 DEF ExtensionInv, ProcessInv, StrayInv
  <2>6. DriverTypes'
    BY <2>2 DEF ExtensionInv, DriverTypes
  <2>4. DriverInv' /\ WireInv' /\ AnswersBelongToTheCall'
    BY <2>2 DEF ExtensionInv, DriverInv, WireInv, AnswersBelongToTheCall,
       FindingsFollowCleanSessions
  <2> QED
    BY <2>3, <2>4, <2>5, <2>6, <2>7, <2>8 DEF ExtensionInv
<1> QED
  BY <1>1, <1>2, <1>3, <1>4 DEF Next, HostMove, ExtensionStep, ExtensionMove

(* Every reachable state of a session satisfies the invariant.             *)
THEOREM ExtensionInvariant == Spec => []ExtensionInv
  BY InitExtension, NextExtension, PTL DEF Spec

(* Every variable keeps its type, the restarts stay within their limit,    *)
(* and one loss is recorded exactly when the client is lost.               *)
THEOREM ExtensionTyped == Spec => []TypeOK
<1>1. ExtensionInv => TypeOK
  BY DEF ExtensionInv, HostTypes, ExtensionTypes, DriverTypes, ChildInv, TypeOK
<1> QED
  BY <1>1, ExtensionInvariant, PTL

(* No late answer, of an earlier call, an earlier child or another case,   *)
(* is taken for the answer to a call.                                      *)
THEOREM AnswersBelong == Spec => []AnswersBelongToTheCall
<1>1. ExtensionInv => AnswersBelongToTheCall
  BY DEF ExtensionInv
<1> QED
  BY <1>1, ExtensionInvariant, PTL

(* No failed handshake, fault or restart leaks a child; a child without a  *)
(* reader thread is leaked once, and ends the client.                      *)
THEOREM NoChildLeaks == Spec => []OnlyTheHeldChildLives
<1>1. ExtensionInv => OnlyTheHeldChildLives
  BY DEF ExtensionInv, ChildInv, ProcessInv, StrayInv, OnlyTheHeldChildLives, Finished, Dropping
<1> QED
  BY <1>1, ExtensionInvariant, PTL

(* An infrastructure fault is never reported as a target finding.          *)
THEOREM FindingsAreClean == Spec => []FindingsFollowCleanSessions
<1>1. ExtensionInv => FindingsFollowCleanSessions
  BY DEF ExtensionInv, DriverInv
<1> QED
  BY <1>1, ExtensionInvariant, PTL
=============================================================================
