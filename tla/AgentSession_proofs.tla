------------------------ MODULE AgentSession_proofs ------------------------
(***************************************************************************)
(* Proofs about AgentSession, for any number of prompts, requests, chunks  *)
(* and repeated answers:                                                   *)
(*                                                                         *)
(*   ReaderFree      the reader never waits for a caller                   *)
(*   UnlistedIsDead  who takes a terminal off the list kills its command,  *)
(*                   unless the session ends first                         *)
(*   TurnsKept       every step is one of AgentTurns, or none: what the    *)
(*                   agent said before its answer is shown before the turn *)
(*                   ends                                                  *)
(*                                                                         *)
(* The reader's part rests on Delivery: an answer is delivered only to a   *)
(* caller that is registered, once.  The order of the chunks rests on what *)
(* is in the pipe (ChunksInOrder, InTime).                                 *)
(***************************************************************************)
EXTENDS AgentSession, SequenceTheorems, TLAPS

Kinds == {"create", "wait", "kill", "release"}
Pcs == {"none", "sent", "run", "register", "lookup", "wait", "kill", "release", "reply", "answered"}
Steps == Handshake \cup {"loop", "prompt", "release", "kill", "stop", "wait", "exited"}
ToAgent == [kind : {"call", "reply"}, id : Nat]
FromAgent == [kind : {"update", "request", "result", "error"}, id : Nat]

HostTyped ==
  /\ step \in Steps /\ prompts \in Nat /\ limits \in Scenarios
  /\ call \in [id : Nat, at : {"none", "registered", "waiting"}]
ConnTyped ==
  /\ pending \subseteq Nat /\ chan \in [Calls -> {"empty", "result", "error"}]
  /\ reader \in [at : {"read", "result", "error", "over"}, id : Nat, inline : {0}]
  /\ shown \in Nat
TermTyped ==
  /\ requests \in [Requests -> [kind : Kinds \cup {"none"}, term : Nat, at : Pcs]]
  /\ listed \subseteq Requests /\ swapped \subseteq Requests /\ reaped \subseteq Requests
  /\ proc \in [Requests -> {"none", "running", "dead"}]
AgentTyped ==
  agent \in [alive : BOOLEAN, owes : SUBSET Nat, answered : SUBSET Nat, said : Nat, due : Nat,
             knows : SUBSET Nat, repeats : Nat]
PipesTyped == toAgent \in Seq(ToAgent) /\ fromAgent \in Seq(FromAgent)
Typed == HostTyped /\ ConnTyped /\ TermTyped /\ AgentTyped /\ PipesTyped

\* The calls are numbered: the handshake's, and one for each prompt.
CallIds ==
  /\ call.id <= prompts + 2 /\ prompts <= limits.prompts
  /\ step = "initialize" => prompts = 0 /\ call.id = IF call.at = "none" THEN 0 ELSE 1
  /\ step = "session" => prompts = 0 /\ call.id = IF call.at = "none" THEN 1 ELSE 2
  /\ step = "prompt" => prompts > 0 /\ call.id = prompts + IF call.at = "none" THEN 1 ELSE 2
  /\ step = "loop" => call.id = prompts + 2
  /\ step \notin Handshake \cup {"prompt", "exited"} => call.at = "none"

\* A caller that is registered has an empty channel and no answer on its way; an answer
\* on its way is for a caller that has been taken off.
Delivery ==
  /\ pending \subseteq 1..call.id
  /\ \A i \in pending : chan[i] = "empty"
  /\ reader.at \in {"result", "error"} =>
        reader.id \in (1..call.id) \ pending /\ chan[reader.id] = "empty"
  /\ \A i \in Calls : i > call.id => chan[i] = "empty"

\* A request in the pipe is there once, and nobody has begun to answer it.
Sent ==
  /\ \A i \in 1..Len(fromAgent) :
        fromAgent[i].kind = "request" =>
           /\ fromAgent[i].id \in Requests
           /\ requests[fromAgent[i].id].at = "sent"
           /\ requests[fromAgent[i].id].kind # "none"
  /\ \A i, j \in 1..Len(fromAgent) :
        fromAgent[i].kind = "request" /\ fromAgent[j].kind = "request"
           /\ fromAgent[i].id = fromAgent[j].id => i = j

\* The chunks in the pipe are those said and not shown, in their order.
ChunksInOrder ==
  /\ shown <= agent.said
  /\ \A i \in 1..Len(fromAgent) :
        fromAgent[i].kind = "update" => fromAgent[i].id \in (shown + 1)..agent.said
  /\ \A i, j \in 1..Len(fromAgent) :
        fromAgent[i].kind = "update" /\ fromAgent[j].kind = "update" /\ i < j
           => fromAgent[i].id < fromAgent[j].id
  /\ \A k \in (shown + 1)..agent.said : \E i \in 1..Len(fromAgent) :
        fromAgent[i].kind = "update" /\ fromAgent[i].id = k

\* A command runs only for a request that is past its start, and a request that does
\* not exist is at nothing.
Started ==
  \A n \in Requests :
     /\ proc[n] # "none" => requests[n].at \in {"register", "reply", "answered"}
     /\ requests[n].kind = "none" => requests[n].at = "none"
     /\ requests[n].at = "lookup" => requests[n].kind \in {"wait", "kill", "release"}

\* A call is written once and answered once, repeats aside; what the agent has from the
\* prompts, while there is someone to answer, is the one that waits.
Current(id) ==
  agent.alive /\ Live /\ id > 2 => step = "prompt" /\ call.at = "waiting" /\ id = call.id
Letter(id) ==
  /\ id \in 1..call.id /\ id \notin agent.owes \cup agent.answered
  /\ call.at = "registered" => id # call.id
  /\ Current(id)
Letters ==
  /\ \A i \in 1..Len(toAgent) : toAgent[i].kind = "call" => Letter(toAgent[i].id)
  /\ \A i, j \in 1..Len(toAgent) :
        toAgent[i].kind = "call" /\ toAgent[j].kind = "call" /\ toAgent[i].id = toAgent[j].id
           => i = j
  /\ agent.owes \subseteq 1..call.id /\ agent.answered \subseteq 1..call.id
  /\ agent.owes \cap agent.answered = {}
  /\ call.at = "registered" => call.id \notin agent.owes \cup agent.answered
  /\ \A id \in agent.owes : Current(id)

\* A reply is for a request.
Replies == 
  /\ \A i \in 1..Len(toAgent) : toAgent[i].kind = "reply" => toAgent[i].id \in Requests
  /\ agent.knows \subseteq Requests

\* What is on its way as an answer the agent has answered.
Answers ==
  /\ \A i \in 1..Len(fromAgent) :
        fromAgent[i].kind \in {"result", "error"} => fromAgent[i].id \in agent.answered
  /\ reader.at \in {"result", "error"} => reader.id \in agent.answered
  /\ \A i \in Calls : chan[i] # "empty" => i \in agent.answered

\* The reader is over only when the agent is.
OverIsDead == reader.at = "over" => ~agent.alive

\* The answer of the last call is behind the chunk that was due with it, until that one
\* is shown.
Behind(i) ==
  \/ agent.due <= shown
  \/ \E j \in 1..(i - 1) : fromAgent[j].kind = "update" /\ fromAgent[j].id = agent.due
InTime ==
  /\ agent.due <= agent.said
  /\ call.id > 2 /\ call.id \in agent.answered =>
       /\ \A i \in 1..Len(fromAgent) :
             fromAgent[i].kind \in {"result", "error"} /\ fromAgent[i].id = call.id => Behind(i)
       /\ reader.at \in {"result", "error"} /\ reader.id = call.id => agent.due <= shown
       /\ chan[call.id] # "empty" => agent.due <= shown
-----------------------------------------------------------------------------
(* Pipes                                                                   *)

\* What is left when the first message is taken.
LEMMA Taking ==
  ASSUME NEW S, NEW s \in Seq(S), s # <<>>
  PROVE  /\ Tail(s) \in Seq(S) /\ Len(s) \in Nat \ {0} /\ Len(Tail(s)) = Len(s) - 1
         /\ Head(s) = s[1] /\ s[1] \in S
         /\ \A i \in 1..Len(Tail(s)) : Tail(s)[i] = s[i + 1] /\ i + 1 \in 1..Len(s)
         /\ \A i \in 1..Len(s) : i # 1 => i - 1 \in 1..Len(Tail(s)) /\ Tail(s)[i - 1] = s[i]
<1>1. Len(s) \in Nat \ {0} /\ s \in [1..Len(s) -> S]
  BY EmptySeq, LenProperties
<1>2. Tail(s) \in Seq(S) /\ Len(Tail(s)) = Len(s) - 1
      /\ \A i \in 1..Len(Tail(s)) : Tail(s)[i] = s[i + 1]
  BY HeadTailProperties
<1>3. Head(s) = s[1] /\ s[1] \in S
  BY <1>1
<1> QED BY <1>1, <1>2, <1>3

\* What is there when a message is added.
LEMMA Adding ==
  ASSUME NEW S, NEW s \in Seq(S), NEW e \in S
  PROVE  /\ Append(s, e) \in Seq(S) /\ Len(s) \in Nat /\ Len(Append(s, e)) = Len(s) + 1
         /\ \A i \in 1..Len(s) : Append(s, e)[i] = s[i]
         /\ Append(s, e)[Len(s) + 1] = e
BY AppendProperties, LenProperties

LEMMA AppendAny ==
  ASSUME NEW S, NEW s \in Seq(S), NEW e
  PROVE  /\ Len(Append(s, e)) = Len(s) + 1
         /\ \A i \in 1..Len(s) : Append(s, e)[i] = s[i]
         /\ Append(s, e)[Len(s) + 1] = e
<1> DEFINE T == S \cup {e}
<1>1. s \in [1..Len(s) -> T] /\ Len(s) \in Nat
  BY LenProperties
<1>2. s \in Seq(T)
  BY <1>1, SeqDef
<1> QED BY <1>2, AppendProperties

-----------------------------------------------------------------------------
(* Types                                                                   *)

\* What leaves the host and its call alone.
LEMMA HostFrame ==
  ASSUME [Next]_vars
  PROVE  \/ Call \/ Write \/ Answered \/ Expired \/ Ended
         \/ Prompt \/ Quit \/ Exit \/ ReleaseAll \/ KillAll \/ KillAgent
         \/ UNCHANGED <<hostVars, call>>
<1>1. ASSUME Serve PROVE UNCHANGED <<hostVars, call>>
  BY <1>1 DEF Serve, Read, Deliver, EndOfFile, connVars
<1>2. ASSUME NEW n \in Requests, Handle(n) \/ Reap(n) \/ CommandEnds(n)
      PROVE  UNCHANGED <<hostVars, call>>
  BY <1>2 DEF Handle, Run, Register, Lookup, WaitForExit, Kill, Reply, Reap, CommandEnds, connVars
<1>3. ASSUME AgentReads \/ AgentAnswers \/ AgentRepeats \/ AgentSays \/ AgentRequests \/ AgentDies
      PROVE  UNCHANGED <<hostVars, call>>
  BY <1>3 DEF AgentReads, AgentAnswers, AgentRepeats, AgentSays, AgentRequests, AgentDies, connVars
<1>4. CASE UNCHANGED vars
  BY <1>4 DEF vars, connVars
<1> QED BY <1>1, <1>2, <1>3, <1>4 DEF Next, Host

LEMMA HostTypedStep == HostTyped /\ ConnTyped /\ [Next]_vars => HostTyped'
<1> SUFFICES ASSUME HostTyped, ConnTyped, [Next]_vars PROVE HostTyped'
  OBVIOUS
<1> USE DEF HostTyped, Steps, Handshake
<1>1. ASSUME Call PROVE HostTyped'
  BY <1>1 DEF Call, hostVars
<1>2. ASSUME NEW how, Returns(how) PROVE HostTyped'
  BY <1>2 DEF Returns
<1>3. ASSUME Write PROVE HostTyped'
  BY <1>2, <1>3 DEF Write, hostVars
<1>4. ASSUME Answered \/ Expired \/ Ended PROVE HostTyped'
  BY <1>2, <1>4 DEF Answered, Expired, Ended
<1>5. ASSUME Prompt \/ Quit \/ Exit \/ ReleaseAll \/ KillAll \/ KillAgent PROVE HostTyped'
  BY <1>5 DEF Prompt, Quit, Exit, ReleaseAll, KillAll, KillAgent, connVars
<1>6. CASE UNCHANGED <<hostVars, call>>
  BY <1>6 DEF hostVars
<1> QED BY <1>1, <1>3, <1>4, <1>5, <1>6, HostFrame

\* What the agent's steps and the goroutines leave of the connection.
LEMMA ConnFrame ==
  ASSUME [Next]_vars
  PROVE  \/ Call \/ Write \/ Answered \/ Expired \/ Serve
         \/ UNCHANGED <<pending, chan, reader, shown>>
<1>1. ASSUME Ended \/ ReleaseAll \/ KillAll \/ KillAgent \/ Prompt \/ Quit \/ Exit
      PROVE  UNCHANGED <<pending, chan, reader, shown>>
  BY <1>1 DEF Ended, ReleaseAll, KillAll, KillAgent, Prompt, Quit, Exit, connVars
<1>2. ASSUME NEW n \in Requests, Handle(n) \/ Reap(n) \/ CommandEnds(n)
      PROVE  UNCHANGED <<pending, chan, reader, shown>>
  BY <1>2 DEF Handle, Run, Register, Lookup, WaitForExit, Kill, Reply, Reap, CommandEnds, connVars
<1>3. ASSUME AgentReads \/ AgentAnswers \/ AgentRepeats \/ AgentSays \/ AgentRequests \/ AgentDies
      PROVE  UNCHANGED <<pending, chan, reader, shown>>
  BY <1>3 DEF AgentReads, AgentAnswers, AgentRepeats, AgentSays, AgentRequests, AgentDies, connVars
<1>4. CASE UNCHANGED vars
  BY <1>4 DEF vars, connVars
<1> QED BY <1>1, <1>2, <1>3, <1>4 DEF Next, Host

LEMMA ConnTypedStep == HostTyped /\ ConnTyped /\ PipesTyped /\ [Next]_vars => ConnTyped'
<1> SUFFICES ASSUME HostTyped, ConnTyped, PipesTyped, [Next]_vars PROVE ConnTyped'
  OBVIOUS
<1> USE DEF ConnTyped
<1>1. ASSUME Call PROVE ConnTyped'
  <2>1. call.id + 1 \in Nat
    BY DEF HostTyped
  <2>2. pending' \subseteq Nat
    BY <1>1, <2>1 DEF Call
  <2> QED BY <1>1, <2>2 DEF Call
<1>2. ASSUME Write \/ Answered \/ Expired PROVE ConnTyped'
  BY <1>2 DEF Write, Answered, Expired
<1>3. ASSUME Read PROVE ConnTyped'
  <2>1. Message \in FromAgent
    BY <1>3, Taking DEF Read, Message, PipesTyped
  <2>2. shown' \in Nat /\ pending' \subseteq Nat
    BY <1>3 DEF Read, Shown, Taken
  <2>3. reader' \in [at : {"read", "result", "error", "over"}, id : Nat, inline : {0}]
    BY <1>3, <2>1 DEF Read, Inline, FromAgent
  <2> QED BY <1>3, <2>2, <2>3 DEF Read
<1>4. ASSUME Deliver \/ EndOfFile PROVE ConnTyped'
  BY <1>4 DEF Deliver, EndOfFile, connVars
<1>5. CASE UNCHANGED <<pending, chan, reader, shown>>
  BY <1>5
<1> QED BY <1>1, <1>2, <1>3, <1>4, <1>5, ConnFrame DEF Serve

\* What leaves the requests and the terminals alone.
LEMMA TermFrame ==
  ASSUME [Next]_vars
  PROVE  \/ ReleaseAll \/ KillAll \/ Read \/ AgentRequests
         \/ \E n \in Requests : Handle(n) \/ Reap(n) \/ CommandEnds(n)
         \/ UNCHANGED <<requests, termVars>>
<1>1. ASSUME Call \/ Write \/ Answered \/ Expired \/ Ended \/ KillAgent \/ Prompt \/ Quit \/ Exit
      PROVE  UNCHANGED <<requests, termVars>>
  BY <1>1 DEF Call, Write, Answered, Expired, Ended, KillAgent, Prompt, Quit, Exit
<1>2. ASSUME Deliver \/ EndOfFile PROVE UNCHANGED <<requests, termVars>>
  BY <1>2 DEF Deliver, EndOfFile
<1>3. ASSUME AgentReads \/ AgentAnswers \/ AgentRepeats \/ AgentSays \/ AgentDies
      PROVE  UNCHANGED <<requests, termVars>>
  BY <1>3 DEF AgentReads, AgentAnswers, AgentRepeats, AgentSays, AgentDies
<1>4. CASE UNCHANGED vars
  BY <1>4 DEF vars
<1> QED BY <1>1, <1>2, <1>3, <1>4 DEF Next, Host, Serve

\* A goroutine's step moves its own request on.
LEMMA Moves ==
  ASSUME TermTyped, Started, NEW n \in Requests, Handle(n)
  PROVE  /\ \E pc \in Pcs \ {"none", "sent", "run", "lookup"} : At(n, pc)
         /\ requests[n].at \notin {"none", "sent", "answered"}
         /\ UNCHANGED <<swapped, reaped>>
<1>1. Lookup(n) => Kind(n) \in {"wait", "kill", "release"}
  BY DEF Lookup, Kind, Started
<1>2. \E pc \in Pcs \ {"none", "sent", "run", "lookup"} : At(n, pc)
  BY <1>1 DEF Handle, Run, Register, Lookup, WaitForExit, Kill, Reply, Pcs
<1>3. requests[n].at \notin {"none", "sent", "answered"}
  BY DEF Handle, Run, Register, Lookup, WaitForExit, Kill, Reply
<1> QED
  BY <1>2, <1>3 DEF Handle, Run, Register, Lookup, WaitForExit, Kill, Reply, termVars

\* Moving a request on keeps the types.
LEMMA AtTyped ==
  ASSUME TermTyped, NEW n \in Requests, NEW pc \in Pcs, At(n, pc)
  PROVE  /\ requests' \in [Requests -> [kind : Kinds \cup {"none"}, term : Nat, at : Pcs]]
         /\ requests'[n] = [kind |-> Kind(n), term |-> Term(n), at |-> pc]
         /\ \A m \in Requests : m # n => requests'[m] = requests[m]
<1>1. [requests[n] EXCEPT !.at = pc] = [kind |-> Kind(n), term |-> Term(n), at |-> pc]
  BY DEF TermTyped, Kind, Term
<1>2. [kind |-> Kind(n), term |-> Term(n), at |-> pc]
         \in [kind : Kinds \cup {"none"}, term : Nat, at : Pcs]
  BY DEF TermTyped, Kind, Term
<1> QED BY <1>1, <1>2 DEF TermTyped, At

\* What the reader does with a request: it moves it to its first step.
LEMMA ReadRequest ==
  ASSUME TermTyped, PipesTyped, Sent, Read, ~UNCHANGED requests
  PROVE  /\ Message.kind = "request" /\ Message.id \in Requests /\ Kind(Message.id) \in Kinds
         /\ requests[Message.id].at = "sent"
         /\ At(Message.id, First[Kind(Message.id)])
         /\ First[Kind(Message.id)] \in Pcs
         /\ First[Kind(Message.id)] = IF Kind(Message.id) = "create" THEN "run" ELSE "lookup"
<1>1. Message = fromAgent[1] /\ 1 \in 1..Len(fromAgent)
  BY Taking DEF Read, Message, PipesTyped
<1>2. /\ Message.kind = "request"
      /\ requests' = [requests EXCEPT ![Message.id].at = First[requests[Message.id].kind]]
  BY DEF Read
<1>3. /\ Message.id \in Requests /\ requests[Message.id].at = "sent"
      /\ requests[Message.id].kind # "none"
  BY <1>1, <1>2 DEF Sent
<1>4. Kind(Message.id) \in Kinds
  BY <1>3 DEF TermTyped, Kind
<1>5. First[Kind(Message.id)] \in Pcs
      /\ First[Kind(Message.id)] = IF Kind(Message.id) = "create" THEN "run" ELSE "lookup"
  BY <1>4 DEF First, Kinds, Pcs
<1> QED BY <1>2, <1>3, <1>4, <1>5 DEF At, Kind

\* What the agent asks for: a request that did not exist, of a terminal it knows.
LEMMA AgentAsks ==
  ASSUME HostTyped, TermTyped, Replies, AgentRequests
  PROVE  \E n \in Requests, k \in Requests, kind \in Kinds :
           /\ Kind(n) = "none"
           /\ requests' = [requests EXCEPT ![n] = [kind |-> kind, term |-> k, at |-> "sent"]]
           /\ Sends("request", n)
<1>1. limits.requests \in 0..MaxRequests /\ MaxRequests \in Nat
  BY SessionAssumption DEF HostTyped
<1>2. 1..limits.requests \subseteq Requests
  BY <1>1 DEF Requests
<1>3. agent.knows \subseteq Requests
  BY DEF Replies
<1> QED BY <1>2, <1>3 DEF AgentRequests, Kinds

LEMMA TermTypedStep ==
  HostTyped /\ TermTyped /\ PipesTyped /\ Sent /\ Started /\ Replies /\ [Next]_vars => TermTyped'
<1> SUFFICES ASSUME HostTyped, TermTyped, PipesTyped, Sent, Started, Replies, [Next]_vars
             PROVE  TermTyped'
  OBVIOUS
<1>1. ASSUME ReleaseAll PROVE TermTyped'
  BY <1>1 DEF ReleaseAll, Emptied, TermTyped
<1>2. ASSUME KillAll PROVE TermTyped'
  BY <1>2 DEF KillAll, Emptied, Killed, TermTyped
<1>3. ASSUME Read PROVE TermTyped'
  <2>1. requests' \in [Requests -> [kind : Kinds \cup {"none"}, term : Nat, at : Pcs]]
    BY <1>3, ReadRequest, AtTyped DEF TermTyped
  <2> QED BY <1>3, <2>1 DEF Read, TermTyped, termVars
<1>4. ASSUME AgentRequests PROVE TermTyped'
  <2> PICK n \in Requests, k \in Requests, kind \in Kinds :
         requests' = [requests EXCEPT ![n] = [kind |-> kind, term |-> k, at |-> "sent"]]
    BY <1>4, AgentAsks
  <2>1. [kind |-> kind, term |-> k, at |-> "sent"]
           \in [kind : Kinds \cup {"none"}, term : Nat, at : Pcs]
    BY SessionAssumption DEF Pcs, Requests
  <2> QED BY <1>4, <2>1 DEF AgentRequests, TermTyped, termVars
<1>5. ASSUME NEW n \in Requests, Handle(n) PROVE TermTyped'
  <2>1. requests' \in [Requests -> [kind : Kinds \cup {"none"}, term : Nat, at : Pcs]]
    BY <1>5, Moves, AtTyped
  <2>2. listed' \subseteq Requests
    BY <1>5 DEF Handle, Run, Register, Lookup, WaitForExit, Kill, Reply, termVars, TermTyped
  <2>3. proc' \in [Requests -> {"none", "running", "dead"}]
    BY <1>5 DEF Handle, Run, Register, Lookup, WaitForExit, Kill, Reply, termVars, Killed, TermTyped
  <2> QED BY <1>5, <2>1, <2>2, <2>3, Moves DEF TermTyped
<1>6. ASSUME NEW n \in Requests, Reap(n) \/ CommandEnds(n) PROVE TermTyped'
  BY <1>6 DEF Reap, CommandEnds, TermTyped
<1>7. CASE UNCHANGED <<requests, termVars>>
  BY <1>7 DEF TermTyped, termVars
<1> QED BY <1>1, <1>2, <1>3, <1>4, <1>5, <1>6, <1>7, TermFrame

\* What leaves the pipes and the agent alone.
LEMMA PipesFrame ==
  ASSUME [Next]_vars
  PROVE  \/ Write \/ Read \/ KillAgent \/ \E n \in Requests : Reply(n)
         \/ AgentReads \/ AgentAnswers \/ AgentRepeats \/ AgentSays \/ AgentRequests \/ AgentDies
         \/ UNCHANGED <<toAgent, fromAgent, agent>>
<1>1. ASSUME Call \/ Answered \/ Expired \/ Ended \/ ReleaseAll \/ KillAll \/ Prompt \/ Quit \/ Exit
      PROVE  UNCHANGED <<toAgent, fromAgent, agent>>
  BY <1>1 DEF Call, Answered, Expired, Ended, ReleaseAll, KillAll, Prompt, Quit, Exit
<1>2. ASSUME Deliver \/ EndOfFile PROVE UNCHANGED <<toAgent, fromAgent, agent>>
  BY <1>2 DEF Deliver, EndOfFile
<1>3. ASSUME NEW n \in Requests,
             Run(n) \/ Register(n) \/ Lookup(n) \/ WaitForExit(n) \/ Kill(n) \/ Reap(n) \/ CommandEnds(n)
      PROVE  UNCHANGED <<toAgent, fromAgent, agent>>
  BY <1>3 DEF Run, Register, Lookup, WaitForExit, Kill, Reap, CommandEnds
<1>4. CASE UNCHANGED vars
  BY <1>4 DEF vars
<1> QED BY <1>1, <1>2, <1>3, <1>4 DEF Next, Host, Serve, Handle

\* What the agent sends is of the right type.
LEMMA SendsTyped ==
  ASSUME PipesTyped, NEW kind \in {"update", "request", "result", "error"}, NEW id \in Nat,
         Sends(kind, id)
  PROVE  fromAgent' \in Seq(FromAgent)
<1>1. [kind |-> kind, id |-> id] \in FromAgent
  BY DEF FromAgent
<1> QED BY <1>1, Adding DEF PipesTyped, Sends

LEMMA PipesTypedStep ==
  HostTyped /\ TermTyped /\ AgentTyped /\ PipesTyped /\ Replies /\ [Next]_vars => PipesTyped'
<1> SUFFICES ASSUME HostTyped, TermTyped, AgentTyped, PipesTyped, Replies, [Next]_vars
             PROVE  PipesTyped'
  OBVIOUS
<1>1. ASSUME Write PROVE PipesTyped'
  <2>1. [kind |-> "call", id |-> call.id] \in ToAgent
    BY DEF HostTyped, ToAgent
  <2>2. Append(toAgent, [kind |-> "call", id |-> call.id]) \in Seq(ToAgent)
    BY <2>1, Adding DEF PipesTyped
  <2> QED BY <1>1, <2>2 DEF Write, PipesTyped
<1>2. ASSUME NEW n \in Requests, Reply(n) PROVE PipesTyped'
  <2>1. [kind |-> "reply", id |-> n] \in ToAgent
    BY SessionAssumption DEF ToAgent, Requests
  <2>2. Append(toAgent, [kind |-> "reply", id |-> n]) \in Seq(ToAgent)
    BY <2>1, Adding DEF PipesTyped
  <2> QED BY <1>2, <2>2 DEF Reply, PipesTyped
<1>3. ASSUME Read PROVE PipesTyped'
  BY <1>3, Taking DEF Read, PipesTyped
<1>4. ASSUME AgentReads PROVE PipesTyped'
  BY <1>4, Taking DEF AgentReads, PipesTyped
<1>5. ASSUME AgentAnswers PROVE PipesTyped'
  <2> PICK id \in agent.owes, kind \in {"result", "error"} : Sends(kind, id)
    BY <1>5 DEF AgentAnswers
  <2>1. id \in Nat
    BY DEF AgentTyped
  <2> QED BY <1>5, <2>1, SendsTyped DEF AgentAnswers, PipesTyped
<1>6. ASSUME AgentRepeats PROVE PipesTyped'
  <2> PICK id \in agent.answered : Sends("result", id)
    BY <1>6 DEF AgentRepeats
  <2>1. id \in Nat
    BY DEF AgentTyped
  <2> QED BY <1>6, <2>1, SendsTyped DEF AgentRepeats, PipesTyped
<1>7. ASSUME AgentSays PROVE PipesTyped'
  <2>1. agent.said + 1 \in Nat /\ Sends("update", agent.said + 1)
    BY <1>7 DEF AgentSays, AgentTyped
  <2> QED BY <1>7, <2>1, SendsTyped DEF AgentSays, PipesTyped
<1>8. ASSUME AgentRequests PROVE PipesTyped'
  <2> PICK n \in Requests : Sends("request", n)
    BY <1>8, AgentAsks
  <2>1. n \in Nat
    BY SessionAssumption DEF Requests
  <2> QED BY <1>8, <2>1, SendsTyped DEF AgentRequests, PipesTyped
<1>9. ASSUME KillAgent \/ AgentDies PROVE PipesTyped'
  BY <1>9 DEF KillAgent, AgentDies, PipesTyped
<1>10. CASE UNCHANGED <<toAgent, fromAgent, agent>>
  BY <1>10 DEF PipesTyped
<1> QED
  BY <1>1, <1>2, <1>3, <1>4, <1>5, <1>6, <1>7, <1>8, <1>9, <1>10, PipesFrame

LEMMA AgentTypedStep == AgentTyped /\ PipesTyped /\ [Next]_vars => AgentTyped'
<1> SUFFICES ASSUME AgentTyped, PipesTyped, [Next]_vars PROVE AgentTyped'
  OBVIOUS
<1>1. ASSUME KillAgent \/ AgentDies PROVE AgentTyped'
  BY <1>1 DEF KillAgent, AgentDies, AgentTyped
<1>2. ASSUME AgentReads PROVE AgentTyped'
  <2>1. Head(toAgent) \in ToAgent
    BY <1>2, Taking DEF AgentReads, PipesTyped
  <2>2. Head(toAgent).id \in Nat
    BY <2>1 DEF ToAgent
  <2> QED BY <1>2, <2>2 DEF AgentReads, AgentTyped
<1>3. ASSUME AgentAnswers PROVE AgentTyped'
  <2> PICK id \in agent.owes :
         agent' = [agent EXCEPT !.owes = @ \ {id}, !.answered = @ \cup {id},
                                !.due = IF id > 2 THEN agent.said ELSE @]
    BY <1>3 DEF AgentAnswers
  <2>1. (IF id > 2 THEN agent.said ELSE agent.due) \in Nat
    BY DEF AgentTyped
  <2> QED BY <2>1 DEF AgentTyped
<1>4. ASSUME AgentRepeats \/ AgentSays PROVE AgentTyped'
  BY <1>4 DEF AgentRepeats, AgentSays, AgentTyped
<1>5. CASE UNCHANGED agent
  BY <1>5 DEF AgentTyped
<1>6. ASSUME Write \/ Read \/ AgentRequests \/ \E n \in Requests : Reply(n) PROVE UNCHANGED agent
  BY <1>6 DEF Write, Read, AgentRequests, Reply
<1> QED BY <1>1, <1>2, <1>3, <1>4, <1>5, <1>6, PipesFrame


-----------------------------------------------------------------------------
(* The reader                                                              *)

LEMMA CallIdsStep == HostTyped /\ CallIds /\ [Next]_vars => CallIds'
<1> SUFFICES ASSUME HostTyped, CallIds, [Next]_vars PROVE CallIds'
  OBVIOUS
<1>0. limits.prompts \in Nat
  BY SessionAssumption DEF HostTyped
<1> USE DEF HostTyped, CallIds, Steps, Handshake
<1>1. ASSUME Call PROVE CallIds'
  BY <1>1 DEF Call, hostVars
<1>2. ASSUME NEW how, Returns(how), Live, call.at # "none" PROVE CallIds'
  BY <1>2 DEF Returns, Live
<1>3. ASSUME Write PROVE CallIds'
  BY <1>2, <1>3 DEF Write, hostVars
<1>4. ASSUME Answered \/ Expired \/ Ended PROVE CallIds'
  BY <1>2, <1>4 DEF Answered, Expired, Ended
<1>5. ASSUME Prompt PROVE CallIds'
  BY <1>0, <1>5 DEF Prompt, connVars
<1>6. ASSUME Quit \/ Exit \/ ReleaseAll \/ KillAll \/ KillAgent PROVE CallIds'
  BY <1>6 DEF Quit, Exit, ReleaseAll, KillAll, KillAgent, connVars
<1>7. CASE UNCHANGED <<hostVars, call>>
  BY <1>7 DEF hostVars
<1> QED BY <1>1, <1>3, <1>4, <1>5, <1>6, <1>7, HostFrame

\* The calls' numbers are within their bound.
LEMMA CallsInRange ==
  ASSUME HostTyped, CallIds
  PROVE  /\ prompts \in 0..MaxPrompts /\ call.id \in 0..(MaxPrompts + 2)
         /\ Call => call.id + 1 \in Calls
         /\ 1..call.id \subseteq Calls
<1>1. limits.prompts \in 0..MaxPrompts /\ MaxPrompts \in Nat
  BY SessionAssumption DEF HostTyped
<1>2. prompts \in 0..MaxPrompts /\ call.id \in 0..(MaxPrompts + 2)
  BY <1>1 DEF HostTyped, CallIds
<1>3. Call => call.id + 1 \in Calls
  BY <1>1, <1>2 DEF HostTyped, CallIds, Call, Calls, Handshake
<1> QED BY <1>1, <1>2, <1>3 DEF Calls

LEMMA DeliveryStep ==
  HostTyped /\ ConnTyped /\ PipesTyped /\ CallIds /\ Delivery /\ [Next]_vars => Delivery'
<1> SUFFICES ASSUME HostTyped, ConnTyped, PipesTyped, CallIds, Delivery, [Next]_vars
             PROVE  Delivery'
  OBVIOUS
<1>0. call.id \in Nat /\ 1..call.id \subseteq Calls /\ (Call => call.id + 1 \in Calls)
      /\ \A i \in Calls : i \in Nat
      /\ chan \in [Calls -> {"empty", "result", "error"}]
  BY CallsInRange, SessionAssumption DEF HostTyped, Calls, ConnTyped
<1>1. ASSUME Call PROVE Delivery'
  <2>1. /\ call'.id = call.id + 1 /\ pending' = pending \cup {call.id + 1}
        /\ UNCHANGED <<chan, reader>>
    BY <1>1 DEF Call
  <2>2. chan[call.id + 1] = "empty"
    BY <1>0, <1>1 DEF Delivery
  <2>3. \A i \in pending' : chan'[i] = "empty"
    BY <2>1, <2>2 DEF Delivery
  <2>4. pending' \subseteq 1..(call.id + 1)
    <3>1. 1..call.id \subseteq 1..(call.id + 1) /\ call.id + 1 \in 1..(call.id + 1)
      BY <1>0
    <3>2. pending \subseteq 1..call.id
      BY DEF Delivery
    <3> QED BY <2>1, <3>1, <3>2
  <2>5. reader.at \in {"result", "error"} =>
          reader.id \in (1..(call.id + 1)) \ pending' /\ chan'[reader.id] = "empty"
    BY <1>0, <2>1 DEF Delivery
  <2> QED BY <1>0, <2>1, <2>3, <2>4, <2>5 DEF Delivery
<1>2. ASSUME Write \/ Answered \/ Expired PROVE Delivery'
  <2>1. call'.id = call.id /\ pending' \subseteq pending /\ UNCHANGED reader
    BY <1>2 DEF Write, Answered, Expired, Returns, HostTyped
  <2>2. \/ chan' = chan
        \/ chan' = [chan EXCEPT ![call.id] = "empty"] /\ UNCHANGED pending
    BY <1>2 DEF Write, Answered, Expired
  <2>3. \A i \in Calls : chan'[i] \in {chan[i], "empty"}
    BY <1>0, <2>2
  <2>4. pending' \subseteq 1..call.id /\ pending' \subseteq Calls /\ pending \subseteq Calls
    BY <1>0, <2>1 DEF Delivery
  <2>5. \A i \in pending' : chan'[i] = "empty"
    BY <2>1, <2>3, <2>4 DEF Delivery
  <2>6. reader.at \in {"result", "error"} =>
          reader.id \in (1..call.id) \ pending' /\ chan'[reader.id] = "empty"
    BY <1>0, <2>1, <2>3 DEF Delivery
  <2> QED BY <1>0, <2>1, <2>3, <2>4, <2>5, <2>6 DEF Delivery
<1>3. ASSUME Read PROVE Delivery'
  <2>1. UNCHANGED <<call, chan>> /\ pending' \subseteq pending
    BY <1>3 DEF Read, Taken
  <2>2. reader'.at \in {"result", "error"} =>
           reader'.id \in pending /\ reader'.id \notin pending'
    BY <1>3 DEF Read, Taken, Free, ConnTyped
  <2> QED BY <1>0, <2>1, <2>2 DEF Delivery
<1>4. ASSUME Deliver PROVE Delivery'
  <2>1. /\ chan' = [chan EXCEPT ![reader.id] = reader.at]
        /\ reader'.at = "read" /\ UNCHANGED <<call, pending>>
        /\ reader.id \in (1..call.id) \ pending
    BY <1>4 DEF Deliver, Delivery, ConnTyped
  <2> QED BY <1>0, <2>1 DEF Delivery
<1>5. ASSUME EndOfFile PROVE Delivery'
  BY <1>5 DEF EndOfFile, connVars, Delivery, ConnTyped
<1>6. ASSUME Ended PROVE Delivery'
  BY <1>6 DEF Ended, Returns, Delivery, HostTyped
<1>7. CASE UNCHANGED <<call, pending, chan, reader>>
  BY <1>7 DEF Delivery
<1>8. ASSUME Prompt \/ Quit \/ Exit \/ ReleaseAll \/ KillAll \/ KillAgent
      PROVE  UNCHANGED <<call, pending, chan, reader>>
  BY <1>8 DEF Prompt, Quit, Exit, ReleaseAll, KillAll, KillAgent, connVars
<1>9. UNCHANGED <<hostVars, call>> => UNCHANGED call
  OBVIOUS
<1> QED
  BY <1>1, <1>2, <1>3, <1>4, <1>5, <1>6, <1>7, <1>8, <1>9, HostFrame, ConnFrame DEF Serve

-----------------------------------------------------------------------------
(* The requests                                                            *)

\* What the messages of the agent's pipe become: the first is taken, one is added, or
\* they stay.
LEMMA FromAgentFrame ==
  ASSUME PipesTyped, AgentTyped, [Next]_vars
  PROVE  \/ Read
         \/ AgentAnswers \/ AgentRepeats \/ AgentSays \/ AgentRequests
         \/ UNCHANGED fromAgent
<1>1. ASSUME Write \/ KillAgent \/ AgentReads \/ AgentDies \/ \E n \in Requests : Reply(n)
      PROVE  UNCHANGED fromAgent
  BY <1>1 DEF Write, KillAgent, AgentReads, AgentDies, Reply
<1> QED BY <1>1, PipesFrame

\* A request that nobody has begun to answer stays so until it is read.
LEMMA StaysSent ==
  ASSUME HostTyped, TermTyped, PipesTyped, Sent, Started, Replies, [Next]_vars,
         NEW n \in Requests, requests[n].at = "sent", requests[n].kind # "none"
  PROVE  \/ Read /\ Message.kind = "request" /\ Message.id = n
         \/ UNCHANGED requests[n]
<1>1. CASE Read
  BY <1>1, ReadRequest, AtTyped DEF TermTyped
<1>2. CASE AgentRequests
  BY <1>2, AgentAsks DEF TermTyped, Kind
<1>3. ASSUME NEW m \in Requests, Handle(m) PROVE UNCHANGED requests[n]
  BY <1>3, Moves, AtTyped
<1>4. CASE ReleaseAll \/ KillAll \/ \E m \in Requests : Reap(m) \/ CommandEnds(m)
  BY <1>4 DEF ReleaseAll, KillAll, Reap, CommandEnds
<1>5. CASE UNCHANGED <<requests, termVars>>
  BY <1>5
<1> QED BY <1>1, <1>2, <1>3, <1>4, <1>5, TermFrame

LEMMA SentStep ==
  HostTyped /\ TermTyped /\ AgentTyped /\ PipesTyped /\ Sent /\ Started /\ Replies /\ [Next]_vars
     => Sent'
<1> SUFFICES ASSUME HostTyped, TermTyped, AgentTyped, PipesTyped, Sent, Started, Replies,
                    [Next]_vars
             PROVE  Sent'
  OBVIOUS
<1>0. fromAgent \in Seq(FromAgent) /\ Len(fromAgent) \in Nat
  BY LenProperties DEF PipesTyped
<1>1. ASSUME Read PROVE Sent'
  <2>1. /\ fromAgent # <<>> /\ fromAgent' = Tail(fromAgent) /\ Message = fromAgent[1]
    BY <1>1, Taking DEF Read, PipesTyped, Message
  <2>2. \A i \in 1..Len(fromAgent') : fromAgent'[i] = fromAgent[i + 1] /\ i + 1 \in 1..Len(fromAgent)
    BY <2>1, <1>0, Taking
  <2>3. ASSUME NEW i \in 2..Len(fromAgent), fromAgent[i].kind = "request"
        PROVE  /\ fromAgent[i].id \in Requests
               /\ requests'[fromAgent[i].id] = requests[fromAgent[i].id]
    <3> DEFINE n == fromAgent[i].id
    <3>1. i \in 1..Len(fromAgent) /\ 1 \in 1..Len(fromAgent) /\ i # 1
      BY <1>0
    <3>2. n \in Requests /\ requests[n].at = "sent" /\ requests[n].kind # "none"
      BY <2>3, <3>1 DEF Sent
    <3>3. Message.kind = "request" => Message.id # n
      BY <2>1, <2>3, <3>1 DEF Sent
    <3> QED BY <3>2, <3>3, StaysSent
  <2>4. \A i \in 1..Len(fromAgent') : i + 1 \in 2..Len(fromAgent)
    BY <2>1, <1>0, Taking
  <2>5. ASSUME NEW i \in 1..Len(fromAgent'), fromAgent'[i].kind = "request"
        PROVE  /\ fromAgent'[i].id \in Requests
               /\ requests'[fromAgent'[i].id].at = "sent"
               /\ requests'[fromAgent'[i].id].kind # "none"
    BY <2>2, <2>3, <2>4, <2>5 DEF Sent
  <2>6. ASSUME NEW i \in 1..Len(fromAgent'), NEW j \in 1..Len(fromAgent'),
               fromAgent'[i].kind = "request", fromAgent'[j].kind = "request",
               fromAgent'[i].id = fromAgent'[j].id
        PROVE  i = j
    <3>1. i + 1 = j + 1
      BY <2>2, <2>6 DEF Sent
    <3> QED BY <3>1, <1>0
  <2> QED BY <2>5, <2>6 DEF Sent
<1>2. ASSUME NEW kind \in {"update", "result", "error"}, NEW id, Sends(kind, id), UNCHANGED requests
      PROVE  Sent'
  <2>1. /\ Len(fromAgent') = Len(fromAgent) + 1
        /\ \A i \in 1..Len(fromAgent) : fromAgent'[i] = fromAgent[i]
        /\ fromAgent'[Len(fromAgent) + 1] = [kind |-> kind, id |-> id]
    BY <1>0, <1>2, AppendAny DEF Sends
  <2>2. \A i \in 1..Len(fromAgent') :
           fromAgent'[i].kind = "request" => i \in 1..Len(fromAgent) /\ fromAgent'[i] = fromAgent[i]
    BY <1>0, <2>1
  <2> QED BY <1>2, <2>2 DEF Sent
<1>3. ASSUME AgentRequests PROVE Sent'
  <2> PICK n \in Requests, k \in Requests, kind \in Kinds :
         /\ Kind(n) = "none"
         /\ requests' = [requests EXCEPT ![n] = [kind |-> kind, term |-> k, at |-> "sent"]]
         /\ Sends("request", n)
    BY <1>3, AgentAsks
  <2>1. /\ Len(fromAgent') = Len(fromAgent) + 1
        /\ \A i \in 1..Len(fromAgent) : fromAgent'[i] = fromAgent[i]
        /\ fromAgent'[Len(fromAgent) + 1] = [kind |-> "request", id |-> n]
    BY <1>0, AppendAny DEF Sends
  <2>2. requests'[n].at = "sent" /\ requests'[n].kind # "none"
        /\ \A m \in Requests : m # n => requests'[m] = requests[m]
    BY DEF TermTyped, Kinds
  <2>3. \A i \in 1..Len(fromAgent) :
          fromAgent[i].kind = "request" => fromAgent[i].id \in Requests /\ fromAgent[i].id # n
    BY DEF Sent, Kind
  <2>4. \A i \in 1..Len(fromAgent') :
           i \in 1..Len(fromAgent) \/ i = Len(fromAgent) + 1
    BY <1>0, <2>1
  <2>5. \A i \in 1..Len(fromAgent') :
          fromAgent'[i].kind = "request" =>
             /\ fromAgent'[i].id \in Requests
             /\ requests'[fromAgent'[i].id].at = "sent"
             /\ requests'[fromAgent'[i].id].kind # "none"
    BY <2>1, <2>2, <2>3, <2>4 DEF Sent
  <2>6. ASSUME NEW i \in 1..Len(fromAgent'), NEW j \in 1..Len(fromAgent'),
               fromAgent'[i].kind = "request", fromAgent'[j].kind = "request",
               fromAgent'[i].id = fromAgent'[j].id
        PROVE  i = j
    BY <2>1, <2>3, <2>4, <2>6 DEF Sent
  <2> QED BY <2>5, <2>6 DEF Sent
<1>4. CASE ~Read /\ UNCHANGED fromAgent
  BY <1>4, StaysSent DEF Sent
<1>5. ASSUME AgentAnswers PROVE Sent'
  BY <1>2, <1>5 DEF AgentAnswers
<1>6. ASSUME AgentRepeats \/ AgentSays PROVE Sent'
  BY <1>2, <1>6 DEF AgentRepeats, AgentSays
<1> QED BY <1>1, <1>3, <1>4, <1>5, <1>6, FromAgentFrame

LEMMA RepliesStep == AgentTyped /\ PipesTyped /\ Replies /\ [Next]_vars => Replies'
<1> SUFFICES ASSUME AgentTyped, PipesTyped, Replies, [Next]_vars PROVE Replies'
  OBVIOUS
<1>0. toAgent \in Seq(ToAgent) /\ Len(toAgent) \in Nat
  BY LenProperties DEF PipesTyped
<1>1. ASSUME NEW e, toAgent' = Append(toAgent, e), e.kind = "call" \/ e.id \in Requests,
             UNCHANGED agent
      PROVE  Replies'
  <2>1. /\ Len(toAgent') = Len(toAgent) + 1
        /\ \A i \in 1..Len(toAgent) : toAgent'[i] = toAgent[i]
        /\ toAgent'[Len(toAgent) + 1] = e
    BY <1>0, <1>1, AppendAny
  <2> QED BY <1>0, <1>1, <2>1 DEF Replies
<1>2. ASSUME Write PROVE Replies'
  BY <1>1, <1>2 DEF Write, Replies
<1>3. ASSUME NEW n \in Requests, Reply(n) PROVE Replies'
  BY <1>1, <1>3 DEF Reply, Replies
<1>4. ASSUME AgentReads PROVE Replies'
  <2>1. toAgent # <<>> /\ toAgent' = Tail(toAgent)
    BY <1>4 DEF AgentReads
  <2>2. /\ Head(toAgent) = toAgent[1] /\ 1 \in 1..Len(toAgent) /\ Head(toAgent) \in ToAgent
        /\ \A i \in 1..Len(toAgent') : toAgent'[i] = toAgent[i + 1] /\ i + 1 \in 1..Len(toAgent)
    BY <2>1, <1>0, Taking
  <2>3. Head(toAgent).kind = "call" \/ Head(toAgent).kind = "reply"
    BY <2>2 DEF ToAgent
  <2>4. agent'.knows \subseteq agent.knows \cup
           (IF Head(toAgent).kind = "reply" THEN {Head(toAgent).id} ELSE {})
    BY <1>4, <2>3 DEF AgentReads, AgentTyped
  <2>5. agent'.knows \subseteq Requests
    BY <2>2, <2>4 DEF Replies
  <2> QED BY <2>2, <2>5 DEF Replies
<1>5. ASSUME KillAgent \/ AgentDies \/ AgentAnswers \/ AgentRepeats \/ AgentSays PROVE Replies'
  <2>1. toAgent' = toAgent /\ agent'.knows = agent.knows
    BY <1>5 DEF KillAgent, AgentDies, AgentAnswers, AgentRepeats, AgentSays, AgentTyped
  <2> QED BY <2>1 DEF Replies
<1>6. ASSUME Read \/ AgentRequests PROVE UNCHANGED <<toAgent, agent>>
  BY <1>6 DEF Read, AgentRequests
<1>7. CASE UNCHANGED <<toAgent, agent>>
  BY <1>7 DEF Replies
<1> QED BY <1>2, <1>3, <1>4, <1>5, <1>6, <1>7, PipesFrame

LEMMA StartedStep ==
  HostTyped /\ TermTyped /\ PipesTyped /\ Sent /\ Started /\ Replies /\ [Next]_vars => Started'
<1> SUFFICES ASSUME HostTyped, TermTyped, PipesTyped, Sent, Started, Replies, [Next]_vars
             PROVE  Started'
  OBVIOUS
<1>1. ASSUME ReleaseAll \/ KillAll \/ \E n \in Requests : Reap(n) \/ CommandEnds(n) PROVE Started'
  BY <1>1 DEF ReleaseAll, KillAll, Killed, Reap, CommandEnds, Started, TermTyped
<1>2. ASSUME Read PROVE Started'
  <2>1. UNCHANGED proc
    BY <1>2 DEF Read, termVars
  <2>2. CASE UNCHANGED requests
    BY <2>1, <2>2 DEF Started
  <2>3. CASE ~UNCHANGED requests
    <3>1. /\ Message.id \in Requests /\ Kind(Message.id) \in Kinds
          /\ requests[Message.id].at = "sent"
          /\ At(Message.id, First[Kind(Message.id)])
          /\ First[Kind(Message.id)] \in Pcs
          /\ First[Kind(Message.id)] = IF Kind(Message.id) = "create" THEN "run" ELSE "lookup"
      BY <1>2, <2>3, ReadRequest
    <3>2. /\ requests'[Message.id] = [kind |-> Kind(Message.id), term |-> Term(Message.id),
                                      at |-> First[Kind(Message.id)]]
          /\ \A m \in Requests : m # Message.id => requests'[m] = requests[m]
      BY <3>1, AtTyped
    <3>3. proc[Message.id] = "none"
      BY <3>1 DEF Started
    <3> QED BY <2>1, <3>1, <3>2, <3>3 DEF Started, Kinds
  <2> QED BY <2>2, <2>3
<1>3. ASSUME AgentRequests PROVE Started'
  <2> PICK n \in Requests, k \in Requests, kind \in Kinds :
         /\ Kind(n) = "none"
         /\ requests' = [requests EXCEPT ![n] = [kind |-> kind, term |-> k, at |-> "sent"]]
    BY <1>3, AgentAsks
  <2>1. UNCHANGED proc
    BY <1>3 DEF AgentRequests, termVars
  <2>2. proc[n] = "none"
    BY DEF Started, Kind
  <2> QED BY <2>1, <2>2 DEF Started, TermTyped, Kinds
<1>4. ASSUME NEW n \in Requests, Handle(n) PROVE Started'
  <2>1. PICK pc \in Pcs \ {"none", "sent", "run", "lookup"} : At(n, pc)
    BY <1>4, Moves
  <2>2. requests[n].at \notin {"none", "sent", "answered"}
    BY <1>4, Moves
  <2>3. /\ requests'[n] = [kind |-> Kind(n), term |-> Term(n), at |-> pc]
        /\ \A m \in Requests : m # n => requests'[m] = requests[m]
    BY <2>1, AtTyped
  <2>4. Kind(n) # "none"
    BY <2>2 DEF Started, Kind
  <2>5. \A m \in Requests : m # n /\ proc'[m] # "none" => proc[m] # "none"
    BY <1>4 DEF Handle, Run, Register, Lookup, WaitForExit, Kill, Reply, termVars, Killed, TermTyped
  <2>6. proc'[n] # "none" => pc \in {"register", "reply", "answered"}
    BY <1>4, <2>1, <2>3 DEF Handle, Run, Register, Lookup, WaitForExit, Kill, Reply, termVars,
         Killed, TermTyped, Started, At
  <2> QED BY <2>3, <2>4, <2>5, <2>6 DEF Started
<1>5. CASE UNCHANGED <<requests, termVars>>
  BY <1>5 DEF Started, termVars
<1> QED BY <1>1, <1>2, <1>3, <1>4, <1>5, TermFrame

-----------------------------------------------------------------------------
(* What the agent says, and when                                           *)

\* The next chunk to be read is the next to be shown.
LEMMA FirstChunk ==
  ASSUME ConnTyped, AgentTyped, PipesTyped, ChunksInOrder,
         1 \in 1..Len(fromAgent), fromAgent[1].kind = "update"
  PROVE  fromAgent[1].id = shown + 1 /\ shown + 1 <= agent.said
<1>1. Len(fromAgent) \in Nat /\ shown \in Nat /\ agent.said \in Nat
  BY LenProperties DEF PipesTyped, ConnTyped, AgentTyped
<1>2. fromAgent[1].id \in (shown + 1)..agent.said
  BY DEF ChunksInOrder
<1>3. shown + 1 \in (shown + 1)..agent.said
  BY <1>1, <1>2
<1> PICK i \in 1..Len(fromAgent) : fromAgent[i].kind = "update" /\ fromAgent[i].id = shown + 1
  BY <1>3 DEF ChunksInOrder
<1>4. i # 1 => fromAgent[1].id < fromAgent[i].id
  BY <1>1 DEF ChunksInOrder
<1> QED BY <1>1, <1>2, <1>3, <1>4

LEMMA ChunksStep ==
  ConnTyped /\ AgentTyped /\ PipesTyped /\ ChunksInOrder /\ [Next]_vars => ChunksInOrder'
<1> SUFFICES ASSUME ConnTyped, AgentTyped, PipesTyped, ChunksInOrder, [Next]_vars
             PROVE  ChunksInOrder'
  OBVIOUS
<1>0. fromAgent \in Seq(FromAgent) /\ Len(fromAgent) \in Nat /\ shown \in Nat /\ agent.said \in Nat
  BY LenProperties DEF PipesTyped, ConnTyped, AgentTyped
<1>1. ASSUME Read PROVE ChunksInOrder'
  <2>1. /\ fromAgent # <<>> /\ fromAgent' = Tail(fromAgent) /\ Message = fromAgent[1]
        /\ UNCHANGED agent
    BY <1>1, Taking DEF Read, PipesTyped, Message
  <2>2. /\ \A i \in 1..Len(fromAgent') : fromAgent'[i] = fromAgent[i + 1] /\ i + 1 \in 1..Len(fromAgent)
        /\ \A i \in 1..Len(fromAgent) : i # 1 => i - 1 \in 1..Len(fromAgent') /\ fromAgent'[i - 1] = fromAgent[i]
        /\ 1 \in 1..Len(fromAgent) /\ Len(fromAgent') \in Nat
    BY <2>1, <1>0, Taking
  <2>3. shown' = IF Message.kind = "update" THEN shown + 1 ELSE shown
    BY <1>1 DEF Read, Shown
  <2>4. Message.kind = "update" => Message.id = shown + 1 /\ shown + 1 <= agent.said
    BY <1>0, <2>1, <2>2, FirstChunk
  <2>5. shown' <= agent'.said /\ shown' \in Nat /\ agent'.said = agent.said
    BY <1>0, <2>1, <2>3, <2>4 DEF ChunksInOrder
  <2>6. ASSUME NEW i \in 1..Len(fromAgent'), fromAgent'[i].kind = "update"
        PROVE  fromAgent'[i].id \in (shown' + 1)..agent'.said
    <3>1. fromAgent[i + 1].kind = "update" /\ i + 1 \in 1..Len(fromAgent) /\ 1 < i + 1
      BY <2>2, <2>6
    <3>2. fromAgent[i + 1].id \in (shown + 1)..agent.said
      BY <3>1 DEF ChunksInOrder
    <3>3. Message.kind = "update" => Message.id < fromAgent[i + 1].id
      BY <2>1, <2>2, <3>1 DEF ChunksInOrder
    <3> QED BY <1>0, <2>2, <2>3, <2>4, <2>5, <3>2, <3>3
  <2>7. ASSUME NEW i \in 1..Len(fromAgent'), NEW j \in 1..Len(fromAgent'),
               fromAgent'[i].kind = "update", fromAgent'[j].kind = "update", i < j
        PROVE  fromAgent'[i].id < fromAgent'[j].id
    <3>1. i + 1 < j + 1 /\ i + 1 \in 1..Len(fromAgent) /\ j + 1 \in 1..Len(fromAgent)
      BY <2>2, <2>7
    <3>2. fromAgent[i + 1].id < fromAgent[j + 1].id
      BY <2>2, <2>7, <3>1 DEF ChunksInOrder
    <3> QED BY <2>2, <3>2
  <2>8. ASSUME NEW k \in (shown' + 1)..agent'.said
        PROVE  \E i \in 1..Len(fromAgent') : fromAgent'[i].kind = "update" /\ fromAgent'[i].id = k
    <3>1. k \in (shown + 1)..agent.said
      BY <1>0, <2>3, <2>5
    <3> PICK i \in 1..Len(fromAgent) : fromAgent[i].kind = "update" /\ fromAgent[i].id = k
      BY <3>1 DEF ChunksInOrder
    <3>2. i # 1
      BY <1>0, <2>1, <2>3, <2>4
    <3> QED BY <2>2, <3>2
  <2> QED BY <2>5, <2>6, <2>7, <2>8 DEF ChunksInOrder
<1>2. ASSUME NEW kind \in {"request", "result", "error"}, NEW id, Sends(kind, id),
             UNCHANGED shown, agent'.said = agent.said
      PROVE  ChunksInOrder'
  <2>1. /\ Len(fromAgent') = Len(fromAgent) + 1
        /\ \A i \in 1..Len(fromAgent) : fromAgent'[i] = fromAgent[i]
        /\ fromAgent'[Len(fromAgent) + 1] = [kind |-> kind, id |-> id]
    BY <1>0, <1>2, AppendAny DEF Sends
  <2>2. \A i \in 1..Len(fromAgent') :
           fromAgent'[i].kind = "update" => i \in 1..Len(fromAgent) /\ fromAgent'[i] = fromAgent[i]
    BY <1>0, <2>1
  <2>3. \A i \in 1..Len(fromAgent) : i \in 1..Len(fromAgent') /\ fromAgent'[i] = fromAgent[i]
    BY <1>0, <2>1
  <2> QED BY <1>2, <2>2, <2>3 DEF ChunksInOrder
<1>3. ASSUME AgentSays PROVE ChunksInOrder'
  <2>1. /\ Sends("update", agent.said + 1) /\ UNCHANGED shown /\ agent'.said = agent.said + 1
    BY <1>3 DEF AgentSays, AgentTyped
  <2>2. /\ Len(fromAgent') = Len(fromAgent) + 1
        /\ \A i \in 1..Len(fromAgent) : fromAgent'[i] = fromAgent[i]
        /\ fromAgent'[Len(fromAgent) + 1] = [kind |-> "update", id |-> agent.said + 1]
    BY <1>0, <2>1, AppendAny DEF Sends
  <2>3. \A i \in 1..Len(fromAgent') : i \in 1..Len(fromAgent) \/ i = Len(fromAgent) + 1
    BY <1>0, <2>2
  <2>4. shown <= agent.said
        /\ \A i \in 1..Len(fromAgent) : fromAgent[i].kind = "update" =>
              fromAgent[i].id \in (shown + 1)..agent.said
    BY DEF ChunksInOrder
  <2>5. \A i \in 1..Len(fromAgent') : fromAgent'[i].kind = "update" =>
              fromAgent'[i].id \in (shown + 1)..(agent.said + 1)
    BY <1>0, <2>2, <2>3, <2>4
  <2>6. ASSUME NEW i \in 1..Len(fromAgent'), NEW j \in 1..Len(fromAgent'),
               fromAgent'[i].kind = "update", fromAgent'[j].kind = "update", i < j
        PROVE  fromAgent'[i].id < fromAgent'[j].id
    <3>1. i \in 1..Len(fromAgent) /\ fromAgent'[i] = fromAgent[i]
      BY <1>0, <2>2, <2>6
    <3>2. CASE j \in 1..Len(fromAgent)
      BY <2>2, <2>6, <3>1, <3>2 DEF ChunksInOrder
    <3>3. CASE j = Len(fromAgent) + 1
      BY <1>0, <2>2, <2>4, <2>6, <3>1, <3>3
    <3> QED BY <2>3, <3>2, <3>3
  <2>7. ASSUME NEW k \in (shown + 1)..(agent.said + 1)
        PROVE  \E i \in 1..Len(fromAgent') : fromAgent'[i].kind = "update" /\ fromAgent'[i].id = k
    <3>1. CASE k \in (shown + 1)..agent.said
      <4> PICK i \in 1..Len(fromAgent) : fromAgent[i].kind = "update" /\ fromAgent[i].id = k
        BY <3>1 DEF ChunksInOrder
      <4>1. i \in 1..Len(fromAgent') /\ fromAgent'[i] = fromAgent[i]
        BY <1>0, <2>2
      <4> QED BY <4>1
    <3>2. CASE k = agent.said + 1
      <4>1. Len(fromAgent) + 1 \in 1..Len(fromAgent')
        BY <1>0, <2>2
      <4> QED BY <2>2, <3>2, <4>1
    <3> QED BY <1>0, <3>1, <3>2
  <2>8. shown' <= agent'.said
    BY <1>0, <2>1, <2>4
  <2> QED BY <2>1, <2>5, <2>6, <2>7, <2>8 DEF ChunksInOrder
<1>4. ASSUME AgentAnswers \/ AgentRepeats \/ AgentRequests PROVE ChunksInOrder'
  <2>1. UNCHANGED shown /\ agent'.said = agent.said
    BY <1>4 DEF AgentAnswers, AgentRepeats, AgentRequests, AgentTyped
  <2>2. CASE AgentAnswers
    BY <1>2, <2>1, <2>2 DEF AgentAnswers
  <2>3. CASE AgentRepeats \/ AgentRequests
    BY <1>2, <2>1, <2>3 DEF AgentRepeats, AgentRequests
  <2> QED BY <1>4, <2>2, <2>3
<1>5. ASSUME UNCHANGED fromAgent, ~Read, ~AgentSays PROVE ChunksInOrder'
  <2>1. UNCHANGED shown
    BY <1>5, ConnFrame DEF Call, Write, Answered, Expired, Serve, Deliver, EndOfFile, connVars
  <2>2. agent'.said = agent.said
    BY <1>5, PipesFrame DEF Write, KillAgent, Reply, AgentReads, AgentAnswers, AgentRepeats,
         AgentRequests, AgentDies, AgentTyped
  <2> QED BY <1>5, <2>1, <2>2 DEF ChunksInOrder
<1> QED BY <1>1, <1>3, <1>4, <1>5, FromAgentFrame

-----------------------------------------------------------------------------
(* Calls and their answers                                                 *)

\* The agent's part in the calls is its own.
LEMMA AgentFrame ==
  ASSUME [Next]_vars
  PROVE  AgentReads \/ AgentAnswers \/ AgentRepeats \/ AgentSays \/ AgentDies \/ KillAgent
            \/ UNCHANGED agent
<1>1. ASSUME Write \/ Read \/ AgentRequests \/ \E n \in Requests : Reply(n) PROVE UNCHANGED agent
  BY <1>1 DEF Write, Read, AgentRequests, Reply
<1> QED BY <1>1, PipesFrame

LEMMA OverIsDeadStep ==
  ConnTyped /\ AgentTyped /\ OverIsDead /\ [Next]_vars => OverIsDead'
<1> SUFFICES ASSUME ConnTyped, AgentTyped, OverIsDead, [Next]_vars PROVE OverIsDead'
  OBVIOUS
<1>1. agent'.alive => agent.alive
  <2>1. ASSUME AgentReads \/ AgentAnswers \/ AgentRepeats \/ AgentSays
        PROVE  agent'.alive = agent.alive
    BY <2>1 DEF AgentReads, AgentAnswers, AgentRepeats, AgentSays, AgentTyped
  <2>2. ASSUME AgentDies \/ KillAgent PROVE ~agent'.alive
    BY <2>2 DEF AgentDies, KillAgent, AgentTyped
  <2> QED BY <2>1, <2>2, AgentFrame
<1>2. reader'.at = "over" => reader.at = "over" \/ ~agent.alive
  <2>1. ASSUME Call \/ Write \/ Answered \/ Expired PROVE UNCHANGED reader
    BY <2>1 DEF Call, Write, Answered, Expired
  <2>2. ASSUME Read PROVE reader'.at # "over"
    BY <2>2 DEF Read, Free, ConnTyped
  <2>3. ASSUME Deliver PROVE reader'.at # "over"
    BY <2>3 DEF Deliver, ConnTyped
  <2>4. ASSUME EndOfFile PROVE ~agent.alive
    BY <2>4 DEF EndOfFile
  <2> QED BY <2>1, <2>2, <2>3, <2>4, ConnFrame DEF Serve
<1> QED BY <1>1, <1>2 DEF OverIsDead

LEMMA AnswersStep ==
  HostTyped /\ ConnTyped /\ AgentTyped /\ PipesTyped /\ CallIds /\ Delivery /\ Answers /\ [Next]_vars
     => Answers'
<1> SUFFICES ASSUME HostTyped, ConnTyped, AgentTyped, PipesTyped, CallIds, Delivery, Answers,
                    [Next]_vars
             PROVE  Answers'
  OBVIOUS
<1>0. fromAgent \in Seq(FromAgent) /\ Len(fromAgent) \in Nat
  BY LenProperties DEF PipesTyped
<1>1. agent.answered \subseteq agent'.answered
  <2>1. ASSUME AgentReads \/ AgentRepeats \/ AgentSays \/ AgentDies \/ KillAgent
        PROVE  agent'.answered = agent.answered
    BY <2>1 DEF AgentReads, AgentRepeats, AgentSays, AgentDies, KillAgent, AgentTyped
  <2>2. ASSUME AgentAnswers PROVE agent.answered \subseteq agent'.answered
    BY <2>2 DEF AgentAnswers, AgentTyped
  <2> QED BY <2>1, <2>2, AgentFrame
<1>2. ASSUME NEW kind, NEW id, Sends(kind, id),
             kind \in {"result", "error"} => id \in agent'.answered, UNCHANGED <<reader, chan>>
      PROVE  Answers'
  <2>1. /\ Len(fromAgent') = Len(fromAgent) + 1
        /\ \A i \in 1..Len(fromAgent) : fromAgent'[i] = fromAgent[i]
        /\ fromAgent'[Len(fromAgent) + 1] = [kind |-> kind, id |-> id]
    BY <1>0, <1>2, AppendAny DEF Sends
  <2>2. \A i \in 1..Len(fromAgent') : i \in 1..Len(fromAgent) \/ i = Len(fromAgent) + 1
    BY <1>0, <2>1
  <2> QED BY <1>1, <1>2, <2>1, <2>2 DEF Answers
<1>3. ASSUME Read PROVE Answers'
  <2>1. /\ fromAgent # <<>> /\ fromAgent' = Tail(fromAgent) /\ Message = fromAgent[1]
        /\ UNCHANGED <<chan, agent>>
    BY <1>3, Taking DEF Read, PipesTyped, Message
  <2>2. /\ \A i \in 1..Len(fromAgent') : fromAgent'[i] = fromAgent[i + 1] /\ i + 1 \in 1..Len(fromAgent)
        /\ 1 \in 1..Len(fromAgent)
    BY <2>1, <1>0, Taking
  <2>3. reader'.at \in {"result", "error"} =>
           Message.kind \in {"result", "error"} /\ reader'.id = Message.id
    BY <1>3 DEF Read, Free, ConnTyped
  <2> QED BY <2>1, <2>2, <2>3 DEF Answers
<1>4. ASSUME AgentAnswers PROVE Answers'
  <2> PICK id \in agent.owes, kind \in {"result", "error"} :
         /\ Sends(kind, id)
         /\ agent' = [agent EXCEPT !.owes = @ \ {id}, !.answered = @ \cup {id},
                                   !.due = IF id > 2 THEN agent.said ELSE @]
    BY <1>4 DEF AgentAnswers
  <2>1. id \in agent'.answered
    BY DEF AgentTyped
  <2> QED BY <1>2, <1>4, <2>1 DEF AgentAnswers, connVars
<1>5. ASSUME AgentRepeats PROVE Answers'
  <2> PICK id \in agent.answered : Sends("result", id)
    BY <1>5 DEF AgentRepeats
  <2> QED BY <1>1, <1>2, <1>5 DEF AgentRepeats, connVars
<1>6. ASSUME AgentSays \/ AgentRequests PROVE Answers'
  BY <1>2, <1>6 DEF AgentSays, AgentRequests, connVars
<1>7. ASSUME Answered PROVE Answers'
  <2>1. UNCHANGED <<fromAgent, reader, agent>> /\ \A i \in Calls : chan'[i] # "empty" => chan[i] # "empty"
    BY <1>7 DEF Answered, ConnTyped
  <2> QED BY <2>1 DEF Answers
<1>8. ASSUME Deliver PROVE Answers'
  <2>1. UNCHANGED <<fromAgent, agent>> /\ reader'.at = "read"
    BY <1>8 DEF Deliver, ConnTyped
  <2>2. reader.id \in agent.answered
    BY <1>8 DEF Deliver, Answers
  <2>3. \A i \in Calls : chan'[i] # "empty" => chan[i] # "empty" \/ i = reader.id
    BY <1>8 DEF Deliver, ConnTyped
  <2> QED BY <2>1, <2>2, <2>3 DEF Answers
<1>9. ASSUME EndOfFile PROVE Answers'
  BY <1>9 DEF EndOfFile, connVars, Answers, ConnTyped
<1>10. CASE UNCHANGED <<fromAgent, reader, chan>>
  BY <1>1, <1>10 DEF Answers
<1>11. ASSUME Call \/ Write \/ Expired PROVE UNCHANGED <<reader, chan, fromAgent>>
  BY <1>11 DEF Call, Write, Expired
<1>12. \/ Answered \/ Deliver \/ EndOfFile \/ Read
       \/ UNCHANGED <<reader, chan>>
  BY <1>11, ConnFrame DEF Serve
<1> QED
  BY <1>3, <1>4, <1>5, <1>6, <1>7, <1>8, <1>9, <1>10, <1>12, FromAgentFrame

\* Where a call is, and what the host does then.
LEMMA CallFrame ==
  ASSUME HostTyped, CallIds, [Next]_vars
  PROVE  \/ Call \/ Write \/ Answered \/ Expired \/ Ended
         \/ UNCHANGED call /\ ((call.at = "none" /\ Live) \/ ~Live')
         \/ UNCHANGED <<step, call>>
<1>1. ASSUME Prompt \/ Quit \/ ReleaseAll \/ KillAll \/ KillAgent
      PROVE  UNCHANGED call /\ call.at = "none" /\ Live
  BY <1>1 DEF Live, Prompt, Quit, ReleaseAll, KillAll, KillAgent, connVars, CallIds, Handshake
<1>2. ASSUME Exit PROVE UNCHANGED call /\ ~Live'
  BY <1>2 DEF Exit, Live, connVars
<1> QED BY <1>1, <1>2, HostFrame DEF hostVars

LEMMA LettersStep ==
  /\ HostTyped /\ ConnTyped /\ AgentTyped /\ PipesTyped
  /\ CallIds /\ Answers /\ OverIsDead /\ Letters /\ [Next]_vars
  => Letters'
<1> SUFFICES ASSUME HostTyped, ConnTyped, AgentTyped, PipesTyped, CallIds, Answers, OverIsDead,
                    Letters, [Next]_vars
             PROVE  Letters'
  OBVIOUS
<1>0. toAgent \in Seq(ToAgent) /\ Len(toAgent) \in Nat /\ call.id \in Nat
  BY LenProperties DEF PipesTyped, HostTyped
\* Most steps leave the letters where they are and make none of them outdated.
<1>1. ASSUME UNCHANGED toAgent,
             agent'.owes = agent.owes, agent'.answered = agent.answered,
             call'.id = call.id, call'.at = "registered" => call.at = "registered",
             \A id \in Nat : id \notin agent.answered /\ Current(id) => Current(id)'
      PROVE  Letters'
  <2>1. ASSUME NEW i \in 1..Len(toAgent), toAgent[i].kind = "call"
        PROVE  Letter(toAgent[i].id)'
    <3>1. Letter(toAgent[i].id)
      BY <2>1 DEF Letters
    <3>2. toAgent[i].id \in Nat
      BY <1>0, <3>1 DEF Letter
    <3> QED BY <1>1, <3>1, <3>2 DEF Letter
  <2>2. ASSUME NEW id \in agent.owes PROVE Current(id)'
    <3>1. id \in Nat /\ id \notin agent.answered /\ Current(id)
      BY <1>0 DEF Letters
    <3> QED BY <1>1, <3>1
  <2> QED BY <1>1, <2>1, <2>2 DEF Letters
<1>2. ASSUME Call PROVE Letters'
  <2>1. /\ call'.id = call.id + 1 /\ call'.at = "registered" /\ call.at = "none"
        /\ UNCHANGED <<step, toAgent, agent>>
    BY <1>2 DEF Call, hostVars
  <2>2. \A id \in Nat : id <= call.id /\ Current(id) => Current(id)'
    BY <2>1 DEF Current, Live
  <2>3. ASSUME NEW i \in 1..Len(toAgent), toAgent[i].kind = "call"
        PROVE  Letter(toAgent[i].id)'
    <3>1. Letter(toAgent[i].id)
      BY <2>3 DEF Letters
    <3>2. toAgent[i].id \in 1..call.id
      BY <3>1 DEF Letter
    <3> QED BY <1>0, <2>1, <2>2, <3>1, <3>2 DEF Letter
  <2>4. ASSUME NEW id \in agent.owes PROVE Current(id)'
    <3>1. id \in 1..call.id /\ Current(id)
      BY DEF Letters
    <3> QED BY <1>0, <2>2, <3>1
  <2>5. agent.owes \subseteq 1..call.id /\ agent.answered \subseteq 1..call.id
    BY DEF Letters
  <2>6. 1..call.id \subseteq 1..(call.id + 1) /\ call.id + 1 \notin 1..call.id
    BY <1>0
  <2>7. agent.owes \subseteq 1..(call.id + 1) /\ agent.answered \subseteq 1..(call.id + 1)
        /\ call.id + 1 \notin agent.owes \cup agent.answered
    BY <2>5, <2>6
  <2> QED BY <2>1, <2>3, <2>4, <2>7 DEF Letters
<1>3. ASSUME Write PROVE Letters'
  <2>1. CASE ~agent.alive
    <3>1. /\ UNCHANGED <<toAgent, agent>> /\ call'.id = call.id /\ call'.at = "none"
      BY <1>3, <2>1 DEF Write, Returns, HostTyped
    <3> QED BY <1>1, <2>1, <3>1 DEF Current
  <2>2. CASE agent.alive
    <3>1. /\ call'.id = call.id /\ call'.at = "waiting" /\ call.at = "registered"
          /\ toAgent' = Append(toAgent, [kind |-> "call", id |-> call.id])
          /\ UNCHANGED <<step, agent>> /\ Live
      BY <1>3, <2>2 DEF Write, hostVars, HostTyped
    <3>2. /\ Len(toAgent') = Len(toAgent) + 1
          /\ \A i \in 1..Len(toAgent) : toAgent'[i] = toAgent[i]
          /\ toAgent'[Len(toAgent) + 1] = [kind |-> "call", id |-> call.id]
      BY <1>0, <3>1, AppendAny
    <3>3. \A i \in 1..Len(toAgent') : i \in 1..Len(toAgent) \/ i = Len(toAgent) + 1
      BY <1>0, <3>2
    <3>4. call.id > 2 => step = "prompt"
      BY <3>1 DEF CallIds, Handshake, Live
    <3>5. Letter(call.id)'
      <4>1. call.id # 0
        BY <3>1 DEF CallIds, Live, Handshake, HostTyped
      <4>2. call.id \notin agent.owes \cup agent.answered
        BY <3>1 DEF Letters
      <4> QED BY <1>0, <3>1, <3>4, <4>1, <4>2 DEF Letter, Current
    <3>6. ASSUME NEW i \in 1..Len(toAgent), toAgent[i].kind = "call", NEW id, id = toAgent[i].id
          PROVE  Letter(id)' /\ id # call.id
      <4>1. Letter(id)
        BY <3>6 DEF Letters
      <4> QED BY <3>1, <4>1 DEF Letter, Current
    <3>7. ASSUME NEW i \in 1..Len(toAgent'), toAgent'[i].kind = "call",
                 NEW id, id = toAgent'[i].id
          PROVE  Letter(id)'
      <4>1. CASE i \in 1..Len(toAgent)
        BY <3>2, <3>6, <3>7, <4>1
      <4>2. CASE i = Len(toAgent) + 1
        <5>1. id = call.id
          BY <3>2, <3>7, <4>2
        <5> QED BY <3>1, <3>5, <5>1 DEF Letter, Current, Live
      <4> QED BY <3>3, <4>1, <4>2
    <3>8. ASSUME NEW i \in 1..Len(toAgent'), NEW j \in 1..Len(toAgent'),
                 toAgent'[i].kind = "call", toAgent'[j].kind = "call",
                 toAgent'[i].id = toAgent'[j].id
          PROVE  i = j
      BY <3>2, <3>3, <3>6, <3>8 DEF Letters
    <3>9. \A id \in agent.owes : Current(id)'
      BY <3>1 DEF Letters, Current
    <3> QED BY <3>1, <3>7, <3>8, <3>9 DEF Letters, Letter, Current
  <2> QED BY <2>1, <2>2
<1>4. ASSUME Answered \/ Expired \/ Ended PROVE Letters'
  <2>1. /\ UNCHANGED <<toAgent, agent>> /\ call'.id = call.id /\ call'.at = "none"
        /\ call.at = "waiting"
    BY <1>4 DEF Answered, Expired, Ended, Returns, HostTyped
  <2>2. CASE Answered
    <3>1. call.id \in agent.answered
      <4>1. call.id \in Calls
        <5>1. call.id # 0
          BY <2>1, <2>2 DEF Answered, CallIds, Handshake, Live, HostTyped
        <5> QED BY <5>1, CallsInRange, SessionAssumption DEF Calls
      <4> QED BY <2>2, <4>1 DEF Answered, Answers
    <3> QED BY <1>1, <2>1, <2>2, <3>1 DEF Current, Live, Answered
  <2>3. CASE Expired
    BY <1>1, <2>1, <2>3 DEF Current, Live, Expired, GivesUp, Handshake
  <2>4. CASE Ended
    BY <1>1, <2>1, <2>4 DEF Current, OverIsDead, Ended
  <2> QED BY <1>4, <2>2, <2>3, <2>4
<1>5. CASE UNCHANGED <<toAgent, agent, call>> /\ ((call.at = "none" /\ Live) \/ ~Live')
  BY <1>1, <1>5 DEF Current, Live
<1>6. ASSUME KillAgent \/ AgentDies PROVE Letters'
  <2>1. /\ UNCHANGED <<toAgent, call>> /\ agent'.owes = agent.owes
        /\ agent'.answered = agent.answered /\ ~agent'.alive
    BY <1>6 DEF KillAgent, AgentDies, AgentTyped, connVars
  <2> QED BY <1>1, <2>1 DEF Current
<1>7. ASSUME AgentRepeats \/ AgentSays PROVE Letters'
  <2>1. /\ UNCHANGED <<toAgent, call, step>> /\ agent'.owes = agent.owes
        /\ agent'.answered = agent.answered /\ agent'.alive = agent.alive
    BY <1>7 DEF AgentRepeats, AgentSays, AgentTyped, connVars, hostVars
  <2> QED BY <1>1, <2>1 DEF Current, Live
<1>8. CASE UNCHANGED <<toAgent, agent, call, step>>
  BY <1>1, <1>8 DEF Current, Live
<1>9. ASSUME NEW n \in Requests, Reply(n) PROVE Letters'
  <2>1. UNCHANGED <<call, step, agent>>
    BY <1>9 DEF Reply, hostVars, connVars
  <2>2. CASE toAgent' = toAgent
    BY <1>8, <2>1, <2>2
  <2>3. CASE toAgent' = Append(toAgent, [kind |-> "reply", id |-> n])
    <3>1. /\ Len(toAgent') = Len(toAgent) + 1
          /\ \A i \in 1..Len(toAgent) : toAgent'[i] = toAgent[i]
          /\ toAgent'[Len(toAgent) + 1] = [kind |-> "reply", id |-> n]
      BY <1>0, <2>3, AppendAny
    <3>2. \A i \in 1..Len(toAgent') :
            toAgent'[i].kind = "call" => i \in 1..Len(toAgent) /\ toAgent'[i] = toAgent[i]
      BY <1>0, <3>1
    <3>3. \A id : Letter(id)' = Letter(id) /\ Current(id)' = Current(id)
      BY <2>1 DEF Letter, Current, Live
    <3> QED BY <2>1, <3>2, <3>3 DEF Letters
  <2> QED BY <1>9, <2>2, <2>3 DEF Reply
<1>10. ASSUME AgentReads PROVE Letters'
  <2>1. /\ UNCHANGED <<call, step>> /\ toAgent # <<>> /\ toAgent' = Tail(toAgent)
        /\ agent'.answered = agent.answered /\ agent'.alive = agent.alive
        /\ agent'.owes = agent.owes \cup
              (IF Head(toAgent).kind = "call" THEN {Head(toAgent).id} ELSE {})
    BY <1>10 DEF AgentReads, hostVars, connVars, AgentTyped
  <2>2. /\ Head(toAgent) = toAgent[1] /\ 1 \in 1..Len(toAgent) /\ Len(toAgent') \in Nat
        /\ \A i \in 1..Len(toAgent') : toAgent'[i] = toAgent[i + 1] /\ i + 1 \in 1..Len(toAgent)
    BY <2>1, <1>0, Taking
  <2>3. \A id : Current(id)' <=> Current(id)
    BY <2>1 DEF Current, Live
  <2>4. ASSUME NEW i \in 1..Len(toAgent'), toAgent'[i].kind = "call", NEW id, id = toAgent'[i].id
        PROVE  Letter(id)'
    <3>1. Letter(id) /\ (toAgent[1].kind = "call" => toAgent[1].id # id)
      <4>1. i + 1 # 1
        BY <2>2
      <4> QED BY <2>2, <2>4, <4>1 DEF Letters
    <3> QED BY <2>1, <2>2, <2>3, <3>1 DEF Letter
  <2>5. ASSUME NEW i \in 1..Len(toAgent'), NEW j \in 1..Len(toAgent'),
               toAgent'[i].kind = "call", toAgent'[j].kind = "call",
               toAgent'[i].id = toAgent'[j].id
        PROVE  i = j
    <3>1. i + 1 = j + 1
      BY <2>2, <2>5 DEF Letters
    <3> QED BY <3>1, <2>2
  <2>6. CASE toAgent[1].kind = "call"
    <3> DEFINE id == toAgent[1].id
    <3>1. Letter(id)
      BY <2>2, <2>6 DEF Letters
    <3>2. agent'.owes = agent.owes \cup {id}
      BY <2>1, <2>2, <2>6
    <3>3. /\ agent'.owes \subseteq 1..call.id /\ agent'.owes \cap agent.answered = {}
          /\ call.at = "registered" => call.id \notin agent'.owes \cup agent.answered
      BY <3>1, <3>2 DEF Letters, Letter
    <3>4. \A k \in agent'.owes : Current(k)'
      BY <2>3, <3>1, <3>2 DEF Letters, Letter
    <3> QED BY <2>1, <2>4, <2>5, <3>3, <3>4 DEF Letters, Letter, Current
  <2>7. CASE toAgent[1].kind # "call"
    <3>1. agent'.owes = agent.owes
      BY <2>1, <2>2, <2>7
    <3> QED BY <2>1, <2>3, <2>4, <2>5, <3>1 DEF Letters, Letter, Current
  <2> QED BY <2>6, <2>7
<1>11. ASSUME AgentAnswers PROVE Letters'
  <2> PICK id \in agent.owes :
         agent' = [agent EXCEPT !.owes = @ \ {id}, !.answered = @ \cup {id},
                                !.due = IF id > 2 THEN agent.said ELSE @]
    BY <1>11 DEF AgentAnswers
  <2>1. /\ UNCHANGED <<call, step, toAgent>> /\ agent'.alive = agent.alive
        /\ agent'.owes = agent.owes \ {id} /\ agent'.answered = agent.answered \cup {id}
    BY <1>11 DEF AgentAnswers, hostVars, connVars, AgentTyped
  <2>2. \A k : Current(k)' <=> Current(k)
    BY <2>1 DEF Current, Live
  <2>3. ASSUME NEW i \in 1..Len(toAgent), toAgent[i].kind = "call"
        PROVE  Letter(toAgent[i].id)'
    <3>1. Letter(toAgent[i].id)
      BY <2>3 DEF Letters
    <3> QED BY <2>1, <2>2, <3>1 DEF Letter
  <2>4. /\ agent'.owes \subseteq 1..call.id /\ agent'.answered \subseteq 1..call.id
        /\ agent'.owes \cap agent'.answered = {}
        /\ call.at = "registered" => call.id \notin agent'.owes \cup agent'.answered
    BY <2>1 DEF Letters
  <2>5. \A k \in agent'.owes : Current(k)'
    BY <2>1, <2>2 DEF Letters
  <2> QED BY <2>1, <2>3, <2>4, <2>5 DEF Letters, Letter, Current
<1>12. \/ AgentReads \/ AgentAnswers \/ AgentRepeats \/ AgentSays \/ AgentDies \/ KillAgent
       \/ Write \/ (\E n \in Requests : Reply(n))
       \/ UNCHANGED <<toAgent, agent>>
  BY PipesFrame DEF Read, AgentRequests
<1> QED
  BY <1>2, <1>3, <1>4, <1>5, <1>6, <1>7, <1>8, <1>9, <1>10, <1>11, <1>12, CallFrame

\* Whatever is put at the end of the pipe is behind the chunk that is due.
LEMMA LastIsBehind ==
  ASSUME ConnTyped, AgentTyped, PipesTyped, ChunksInOrder, agent.due <= agent.said
  PROVE  Behind(Len(fromAgent) + 1)
<1>1. Len(fromAgent) \in Nat /\ shown \in Nat /\ agent.said \in Nat /\ agent.due \in Nat
  BY LenProperties DEF PipesTyped, ConnTyped, AgentTyped
<1>2. agent.due <= shown \/ agent.due \in (shown + 1)..agent.said
  BY <1>1
<1>3. 1..((Len(fromAgent) + 1) - 1) = 1..Len(fromAgent)
  BY <1>1
<1> QED BY <1>2, <1>3 DEF ChunksInOrder, Behind

LEMMA InTimeStep ==
  /\ HostTyped /\ ConnTyped /\ AgentTyped /\ PipesTyped
  /\ CallIds /\ ChunksInOrder /\ Letters /\ Answers /\ InTime /\ [Next]_vars
  => InTime'
<1> SUFFICES ASSUME HostTyped, ConnTyped, AgentTyped, PipesTyped, CallIds, ChunksInOrder, Letters,
                    Answers, InTime, [Next]_vars
             PROVE  InTime'
  OBVIOUS
<1>0. /\ fromAgent \in Seq(FromAgent) /\ Len(fromAgent) \in Nat /\ call.id \in Nat
      /\ shown \in Nat /\ agent.said \in Nat /\ agent.due \in Nat
  BY LenProperties DEF PipesTyped, HostTyped, ConnTyped, AgentTyped
<1>a. call.id \in agent.answered => call.id \in Calls
  BY CallsInRange DEF Letters
\* A step that adds neither chunk nor answer.
<1>1. ASSUME UNCHANGED <<fromAgent, shown>>, call'.id = call.id,
             agent'.said = agent.said, agent'.due = agent.due, agent'.answered = agent.answered,
             reader'.at \in {"result", "error"} => UNCHANGED reader,
             call.id \in Calls => chan'[call.id] \in {chan[call.id], "empty"}
      PROVE  InTime'
  BY <1>a, <1>1 DEF InTime, Behind
\* A message that is added is behind all others.
<1>2. ASSUME NEW kind, NEW id, Sends(kind, id), UNCHANGED <<shown, call, reader, chan>>,
             agent'.answered = agent.answered, agent'.due = agent.due,
             agent'.said \in Nat, agent.said <= agent'.said,
             kind \in {"result", "error"} => id \in agent.answered
      PROVE  InTime'
  <2>1. /\ Len(fromAgent') = Len(fromAgent) + 1
        /\ \A i \in 1..Len(fromAgent) : fromAgent'[i] = fromAgent[i]
        /\ fromAgent'[Len(fromAgent) + 1] = [kind |-> kind, id |-> id]
    BY <1>0, <1>2, AppendAny DEF Sends
  <2>2. \A i \in 1..Len(fromAgent') : i \in 1..Len(fromAgent) \/ i = Len(fromAgent) + 1
    BY <1>0, <2>1
  <2>3. agent'.due <= agent'.said
    BY <1>0, <1>2 DEF InTime
  <2>4. \A i \in 1..(Len(fromAgent) + 1) : Behind(i) => Behind(i)'
    BY <1>0, <1>2, <2>1 DEF Behind
  <2>5. Behind(Len(fromAgent) + 1)
    BY <1>0, LastIsBehind DEF InTime
  <2> SUFFICES ASSUME call.id > 2, call.id \in agent.answered
               PROVE  /\ \A i \in 1..Len(fromAgent') :
                            fromAgent'[i].kind \in {"result", "error"} /\ fromAgent'[i].id = call.id
                               => Behind(i)'
                      /\ reader.at \in {"result", "error"} /\ reader.id = call.id => agent.due <= shown
                      /\ chan[call.id] # "empty" => agent.due <= shown
    BY <1>2, <2>3 DEF InTime
  <2>6. ASSUME NEW i \in 1..Len(fromAgent'),
               fromAgent'[i].kind \in {"result", "error"}, fromAgent'[i].id = call.id
        PROVE  Behind(i)'
    <3>1. CASE i \in 1..Len(fromAgent)
      BY <1>0, <2>1, <2>4, <2>6, <3>1 DEF InTime
    <3>2. CASE i = Len(fromAgent) + 1
      BY <1>0, <2>4, <2>5, <3>2
    <3> QED BY <2>2, <3>1, <3>2
  <2> QED BY <2>6 DEF InTime
<1>3. ASSUME Call PROVE InTime'
  <2>1. call'.id = call.id + 1 /\ UNCHANGED agent
    BY <1>3 DEF Call
  <2>2. call.id + 1 \notin agent.answered
    BY <1>0 DEF Letters
  <2> QED BY <2>1, <2>2 DEF InTime
<1>4. ASSUME Write \/ Answered \/ Expired \/ Ended PROVE InTime'
  <2>1. UNCHANGED <<fromAgent, shown, agent, reader>> /\ call'.id = call.id
    BY <1>4 DEF Write, Answered, Expired, Ended, Returns, HostTyped
  <2>2. call.id \in Calls => chan'[call.id] \in {chan[call.id], "empty"}
    BY <1>4 DEF Write, Answered, Expired, Ended, ConnTyped
  <2> QED BY <1>1, <2>1, <2>2
<1>5. ASSUME Deliver PROVE InTime'
  <2>1. /\ UNCHANGED <<fromAgent, shown, agent, call>> /\ reader'.at = "read"
        /\ reader.at \in {"result", "error"}
        /\ chan' = [chan EXCEPT ![reader.id] = reader.at]
    BY <1>5 DEF Deliver, ConnTyped
  <2>2. call.id \in Calls /\ call.id # reader.id => chan'[call.id] = chan[call.id]
    BY <2>1 DEF ConnTyped
  <2> QED BY <1>a, <2>1, <2>2 DEF InTime, Behind
<1>6. ASSUME EndOfFile PROVE InTime'
  <2>1. UNCHANGED <<fromAgent, shown, agent, call, chan>> /\ reader'.at = "over"
    BY <1>6 DEF EndOfFile, connVars, ConnTyped
  <2> QED BY <1>1, <2>1
<1>7. ASSUME Read PROVE InTime'
  <2>1. /\ fromAgent # <<>> /\ fromAgent' = Tail(fromAgent) /\ Message = fromAgent[1]
        /\ UNCHANGED <<agent, call, chan>>
    BY <1>7, Taking DEF Read, PipesTyped, Message
  <2>2. /\ \A i \in 1..Len(fromAgent') : fromAgent'[i] = fromAgent[i + 1] /\ i + 1 \in 1..Len(fromAgent)
        /\ \A i \in 1..Len(fromAgent) : i # 1 => i - 1 \in 1..Len(fromAgent') /\ fromAgent'[i - 1] = fromAgent[i]
        /\ 1 \in 1..Len(fromAgent) /\ Len(fromAgent') \in Nat
    BY <2>1, <1>0, Taking
  <2>3. shown' = IF Message.kind = "update" THEN shown + 1 ELSE shown
    BY <1>7 DEF Read, Shown
  <2>4. agent.due <= shown => agent.due <= shown'
    BY <1>0, <2>3
  <2>5. Message.kind = "update" => Message.id = shown'
    BY <2>1, <2>2, <2>3, FirstChunk
  <2>6. \A i \in 1..Len(fromAgent') : Behind(i + 1) => Behind(i)'
    <3> SUFFICES ASSUME NEW i \in 1..Len(fromAgent'), Behind(i + 1), ~(agent.due <= shown') 
                 PROVE  \E j \in 1..(i - 1) :
                           fromAgent'[j].kind = "update" /\ fromAgent'[j].id = agent.due
      BY <2>1 DEF Behind
    <3> PICK j \in 1..((i + 1) - 1) : fromAgent[j].kind = "update" /\ fromAgent[j].id = agent.due
      BY <2>4 DEF Behind
    <3>1. j # 1
      BY <1>0, <2>1, <2>3, <2>5
    <3>2. j \in 1..Len(fromAgent) /\ j - 1 \in 1..(i - 1)
      BY <1>0, <2>2, <3>1
    <3> QED BY <2>2, <3>1, <3>2
  <2>7. ~Behind(1) \/ agent.due <= shown
    BY DEF Behind
  <2> SUFFICES ASSUME call.id > 2, call.id \in agent.answered
               PROVE  /\ \A i \in 1..Len(fromAgent') :
                            fromAgent'[i].kind \in {"result", "error"} /\ fromAgent'[i].id = call.id
                               => Behind(i)'
                      /\ reader'.at \in {"result", "error"} /\ reader'.id = call.id => agent.due <= shown'
                      /\ chan[call.id] # "empty" => agent.due <= shown'
    BY <2>1 DEF InTime
  <2>8. \A i \in 1..Len(fromAgent') :
           fromAgent'[i].kind \in {"result", "error"} /\ fromAgent'[i].id = call.id => Behind(i)'
    BY <2>2, <2>6 DEF InTime
  <2>9. reader'.at \in {"result", "error"} =>
           Message.kind \in {"result", "error"} /\ reader'.id = Message.id
    BY <1>7 DEF Read, Free, ConnTyped
  <2>10. reader'.at \in {"result", "error"} /\ reader'.id = call.id => agent.due <= shown'
    BY <2>1, <2>2, <2>4, <2>7, <2>9 DEF InTime
  <2> QED BY <2>4, <2>8, <2>10 DEF InTime
<1>8. ASSUME AgentAnswers PROVE InTime'
  <2> PICK id \in agent.owes, kind \in {"result", "error"} :
         /\ Sends(kind, id)
         /\ agent' = [agent EXCEPT !.owes = @ \ {id}, !.answered = @ \cup {id},
                                   !.due = IF id > 2 THEN agent.said ELSE @]
    BY <1>8 DEF AgentAnswers
  <2>1. /\ UNCHANGED <<call, shown, reader, chan>>
        /\ agent'.answered = agent.answered \cup {id} /\ agent'.said = agent.said
        /\ agent'.due = IF id > 2 THEN agent.said ELSE agent.due
    BY <1>8 DEF AgentAnswers, connVars, AgentTyped
  <2>2. /\ id \in Nat /\ id \notin agent.answered
        /\ id > 2 => id = call.id
    BY <1>0, <1>8 DEF Letters, Current, AgentAnswers
  <2>3. /\ Len(fromAgent') = Len(fromAgent) + 1
        /\ \A i \in 1..Len(fromAgent) : fromAgent'[i] = fromAgent[i]
        /\ fromAgent'[Len(fromAgent) + 1] = [kind |-> kind, id |-> id]
    BY <1>0, AppendAny DEF Sends
  <2>4. \A i \in 1..Len(fromAgent') : i \in 1..Len(fromAgent) \/ i = Len(fromAgent) + 1
    BY <1>0, <2>3
  <2>5. CASE id > 2
    <3>1. agent'.due = agent.said
      BY <2>1, <2>5
    <3>2. \A i \in 1..Len(fromAgent) :
             ~(fromAgent[i].kind \in {"result", "error"} /\ fromAgent[i].id = call.id)
      BY <2>2, <2>5 DEF Answers
    <3>3. ASSUME NEW i, i = Len(fromAgent) + 1 PROVE Behind(i)'
      <4>1. agent.said <= shown \/ \E j \in 1..Len(fromAgent) :
               fromAgent[j].kind = "update" /\ fromAgent[j].id = agent.said
        BY <1>0 DEF ChunksInOrder
      <4>2. 1..((Len(fromAgent) + 1) - 1) = 1..Len(fromAgent)
        BY <1>0
      <4> QED BY <2>1, <2>3, <3>1, <3>3, <4>1, <4>2 DEF Behind
    <3>4. ~(reader.at \in {"result", "error"} /\ reader.id = call.id)
      BY <2>2, <2>5 DEF Answers
    <3>5. chan[call.id] = "empty"
      <4>1. call.id \in Calls
        BY <2>2, <2>5, CallsInRange DEF Letters
      <4> QED BY <2>2, <2>5, <4>1 DEF Answers
    <3>6. \A i \in 1..Len(fromAgent') :
             fromAgent'[i].kind \in {"result", "error"} /\ fromAgent'[i].id = call.id => Behind(i)'
      <4> SUFFICES ASSUME NEW i \in 1..Len(fromAgent'),
                          fromAgent'[i].kind \in {"result", "error"}, fromAgent'[i].id = call.id
                   PROVE  Behind(i)'
        OBVIOUS
      <4>1. i \notin 1..Len(fromAgent)
        BY <2>3, <3>2
      <4>2. i = Len(fromAgent) + 1
        BY <2>4, <4>1
      <4> QED BY <3>3, <4>2
    <3> QED BY <1>0, <2>1, <3>1, <3>4, <3>5, <3>6 DEF InTime
  <2>6. CASE ~(id > 2)
    <3>1. agent'.due = agent.due
      BY <2>1, <2>6
    <3> SUFFICES ASSUME call.id > 2, call.id \in agent.answered
                 PROVE  \A i \in 1..Len(fromAgent') :
                           fromAgent'[i].kind \in {"result", "error"} /\ fromAgent'[i].id = call.id
                              => Behind(i)'
      BY <2>1, <2>6, <3>1 DEF InTime
    <3>2. \A i \in 1..Len(fromAgent) : Behind(i) => Behind(i)'
      BY <1>0, <2>1, <2>3, <3>1 DEF Behind
    <3>3. \A i \in 1..Len(fromAgent') :
             fromAgent'[i].id = call.id => i \in 1..Len(fromAgent) /\ fromAgent'[i] = fromAgent[i]
      BY <2>3, <2>4, <2>6
    <3> QED BY <3>2, <3>3 DEF InTime
  <2> QED BY <2>5, <2>6
<1>9. ASSUME AgentRepeats PROVE InTime'
  <2> PICK id \in agent.answered : Sends("result", id)
    BY <1>9 DEF AgentRepeats
  <2>1. /\ UNCHANGED <<call, shown, reader, chan>> /\ agent'.answered = agent.answered
        /\ agent'.due = agent.due /\ agent'.said = agent.said
    BY <1>9 DEF AgentRepeats, connVars, AgentTyped
  <2> QED BY <1>0, <1>2, <2>1
<1>10. ASSUME AgentSays PROVE InTime'
  <2>1. /\ UNCHANGED <<call, shown, reader, chan>> /\ agent'.answered = agent.answered
        /\ agent'.due = agent.due /\ agent'.said = agent.said + 1
        /\ Sends("update", agent.said + 1)
    BY <1>10 DEF AgentSays, connVars, AgentTyped
  <2> QED BY <1>0, <1>2, <2>1
<1>11. ASSUME AgentRequests PROVE InTime'
  <2> PICK n \in 1..limits.requests : Sends("request", n)
    BY <1>11 DEF AgentRequests
  <2>1. UNCHANGED <<call, shown, reader, chan, agent>>
    BY <1>11 DEF AgentRequests, connVars
  <2> QED BY <1>0, <1>2, <2>1
<1>12. ASSUME AgentReads \/ AgentDies \/ KillAgent PROVE InTime'
  <2>1. /\ UNCHANGED <<fromAgent, call, shown, reader, chan>> /\ agent'.answered = agent.answered
        /\ agent'.due = agent.due /\ agent'.said = agent.said
    BY <1>12 DEF AgentReads, AgentDies, KillAgent, connVars, AgentTyped
  <2> QED BY <1>1, <2>1
<1>13. CASE UNCHANGED <<fromAgent, agent, call, shown, reader, chan>>
  BY <1>1, <1>13
<1>14. ASSUME NEW n \in Requests, Reply(n) PROVE UNCHANGED <<fromAgent, agent, call, shown, reader, chan>>
  BY <1>14 DEF Reply, connVars
<1>15. UNCHANGED call
          \/ Call \/ Write \/ Answered \/ Expired \/ Ended
  BY CallFrame
<1> QED
  BY <1>3, <1>4, <1>5, <1>6, <1>7, <1>8, <1>9, <1>10, <1>11, <1>12, <1>13, <1>14, <1>15,
     PipesFrame, ConnFrame DEF Serve

-----------------------------------------------------------------------------
(* Theorems                                                                *)

SessionInv ==
  /\ Typed /\ CallIds /\ Delivery /\ Sent /\ Replies /\ Started
  /\ ChunksInOrder /\ Letters /\ Answers /\ OverIsDead /\ InTime

LEMMA SessionStarts == Init => SessionInv
<1> SUFFICES ASSUME Init PROVE SessionInv
  OBVIOUS
<1>0. Len(toAgent) = 0 /\ Len(fromAgent) = 0 /\ 1..0 = {}
  BY DEF Init
<1>1. HostTyped /\ ConnTyped /\ TermTyped
  BY SessionAssumption DEF Init, HostTyped, ConnTyped, TermTyped, Steps, Handshake, Pcs
<1>2. AgentTyped
  BY DEF Init, AgentTyped
<1>3. PipesTyped
  BY EmptySeq DEF Init, PipesTyped
<1>4. CallIds
  <2>1. limits.prompts \in Nat
    BY <1>1, SessionAssumption DEF HostTyped
  <2> QED BY <2>1 DEF Init, CallIds, Handshake
<1>5. Delivery /\ OverIsDead
  BY DEF Init, Delivery, OverIsDead
<1>6. Sent /\ Replies /\ Answers
  BY <1>0 DEF Init, Sent, Replies, Answers
<1>7. Started
  BY DEF Init, Started
<1>8. ChunksInOrder
  BY <1>0 DEF Init, ChunksInOrder
<1>9. Letters
  BY <1>0 DEF Init, Letters
<1>10. InTime
  BY <1>0 DEF Init, InTime
<1> QED BY <1>1, <1>2, <1>3, <1>4, <1>5, <1>6, <1>7, <1>8, <1>9, <1>10 DEF SessionInv, Typed

LEMMA SessionStep == SessionInv /\ [Next]_vars => SessionInv'
<1> SUFFICES ASSUME SessionInv, [Next]_vars PROVE SessionInv'
  OBVIOUS
<1>1. HostTyped /\ ConnTyped /\ TermTyped /\ AgentTyped /\ PipesTyped
  BY DEF SessionInv, Typed
<1>2. /\ CallIds /\ Delivery /\ Sent /\ Replies /\ Started /\ ChunksInOrder /\ Letters /\ Answers
      /\ OverIsDead /\ InTime
  BY DEF SessionInv
<1>3. Typed'
  BY <1>1, <1>2, HostTypedStep, ConnTypedStep, TermTypedStep, AgentTypedStep, PipesTypedStep DEF Typed
<1>4. CallIds' /\ Delivery' /\ Sent' /\ Replies' /\ Started'
  BY <1>1, <1>2, CallIdsStep, DeliveryStep, SentStep, RepliesStep, StartedStep
<1>5. ChunksInOrder' /\ Letters' /\ Answers' /\ OverIsDead' /\ InTime'
  BY <1>1, <1>2, ChunksStep, LettersStep, AnswersStep, OverIsDeadStep, InTimeStep
<1> QED BY <1>3, <1>4, <1>5 DEF SessionInv

LEMMA SessionKept == Spec => []SessionInv
BY SessionStarts, SessionStep, PTL DEF Spec

\* Conn.Serve and deliver: an answer goes to a registered caller, once, into a channel that
\* is empty; late and repeated answers are dropped.  So the reader, on which all messages
\* depend, never waits for a caller.
THEOREM ReaderStaysFree == Spec => []ReaderFree
<1>1. SessionInv => ReaderFree
  <2> SUFFICES ASSUME SessionInv PROVE ReaderFree
    OBVIOUS
  <2>1. HostTyped /\ ConnTyped /\ TermTyped /\ AgentTyped /\ CallIds /\ Delivery /\ ChunksInOrder
    BY DEF SessionInv, Typed
  <2>2. /\ step \in Handshake \cup {"loop", "prompt", "release", "kill", "stop", "wait", "exited"}
        /\ call.at \in {"none", "registered", "waiting"}
        /\ prompts \in 0..MaxPrompts /\ call.id \in 0..(MaxPrompts + 2)
    BY <2>1, CallsInRange DEF HostTyped, Steps
  <2>3. pending \subseteq Calls
    BY <2>1, CallsInRange DEF Delivery
  <2>4. shown \in 0..agent.said
    BY <2>1 DEF ChunksInOrder, ConnTyped, AgentTyped
  <2>5. chan \in [Calls -> {"empty", "result", "error"}] /\ reader.at \in {"read", "result", "error", "over"}
    BY <2>1 DEF ConnTyped
  <2>6. TypeOK
    BY <2>1, <2>2, <2>3, <2>4, <2>5 DEF TypeOK, TermTyped
  <2>7. ReaderNeverBlocks
    BY <2>1 DEF Delivery, ReaderNeverBlocks
  <2> QED BY <2>6, <2>7 DEF ReaderFree
<1> QED BY <1>1, SessionKept, PTL

LEMMA UnlistedStep == SessionInv /\ UnlistedIsDead /\ [Next]_vars => UnlistedIsDead'
<1> SUFFICES ASSUME SessionInv, UnlistedIsDead, [Next]_vars PROVE UnlistedIsDead'
  OBVIOUS
<1>1. HostTyped /\ TermTyped /\ PipesTyped /\ Sent /\ Replies /\ Started
  BY DEF SessionInv, Typed
<1> DEFINE Owned(n) == \/ n \in listed
                       \/ step = "kill" /\ n \in swapped
                       \/ \E m \in Requests : requests[m].at = "release" /\ Term(m) = n
           Up(n) == proc[n] = "running" /\ requests[n].at \in {"reply", "answered"}
<1> SUFFICES ASSUME Live', NEW n \in Requests, Up(n)' PROVE Owned(n)'
  BY DEF UnlistedIsDead
<1>0. Live
  <2>1. ASSUME \/ Call \/ Write \/ Answered \/ Expired \/ Ended
               \/ Prompt \/ Quit \/ Exit \/ ReleaseAll \/ KillAll \/ KillAgent
        PROVE  Live
    BY <2>1 DEF Call, Write, Answered, Expired, Ended, Prompt, Quit, Exit, ReleaseAll, KillAll,
                KillAgent, Live, Handshake
  <2>2. ASSUME UNCHANGED step PROVE Live
    BY <2>2 DEF Live
  <2> QED BY <2>1, <2>2, HostFrame DEF hostVars
<1>2. \A k \in Requests : Up(k) => Owned(k)
  BY <1>0 DEF UnlistedIsDead
\* A step that leaves the owners alone.
<1>3. ASSUME n \in listed => n \in listed',
             step = "kill" => step' = "kill", UNCHANGED swapped,
             \A m \in Requests : requests[m].at = "release" => UNCHANGED requests[m],
             Up(n)
      PROVE  Owned(n)'
  BY <1>2, <1>3 DEF Term
<1>4. ASSUME ReleaseAll PROVE Owned(n)'
  <2>1. Up(n)
    BY <1>4 DEF ReleaseAll
  <2> QED BY <1>2, <1>4, <2>1 DEF ReleaseAll, Emptied, Term
<1>5. ASSUME KillAll PROVE Owned(n)'
  <2>1. Up(n) /\ n \notin swapped
    BY <1>1, <1>5 DEF KillAll, Killed, TermTyped
  <2> QED BY <1>2, <1>5, <2>1 DEF KillAll, Emptied, Term
<1>6. ASSUME Read PROVE Owned(n)'
  <2>1. UNCHANGED <<listed, swapped, proc, step>>
    BY <1>6 DEF Read, termVars, hostVars
  <2>2. CASE UNCHANGED requests
    BY <1>3, <2>1, <2>2
  <2>3. CASE ~UNCHANGED requests
    <3>1. /\ Message.id \in Requests /\ requests[Message.id].at = "sent"
          /\ At(Message.id, First[Kind(Message.id)])
          /\ First[Kind(Message.id)] \in Pcs
      BY <1>1, <1>6, <2>3, ReadRequest
    <3>2. \A m \in Requests : m # Message.id => requests'[m] = requests[m]
      BY <1>1, <3>1, AtTyped
    <3>3. n # Message.id
      BY <1>1, <2>1, <3>1 DEF Started
    <3> QED BY <1>3, <2>1, <3>1, <3>2, <3>3
  <2> QED BY <2>2, <2>3
<1>7. ASSUME AgentRequests PROVE Owned(n)'
  <2> PICK k \in Requests, t \in Requests, kind \in Kinds :
         /\ Kind(k) = "none"
         /\ requests' = [requests EXCEPT ![k] = [kind |-> kind, term |-> t, at |-> "sent"]]
    BY <1>1, <1>7, AgentAsks
  <2>1. UNCHANGED <<listed, swapped, proc, step>>
    BY <1>7 DEF AgentRequests, termVars, hostVars
  <2>2. /\ requests[k].at = "none" /\ requests'[k].at = "sent"
        /\ \A m \in Requests : m # k => requests'[m] = requests[m]
    BY <1>1 DEF Started, Kind, TermTyped
  <2> QED BY <1>3, <2>1, <2>2
<1>8. ASSUME NEW k \in Requests, Handle(k) PROVE Owned(n)'
  <2>1. PICK pc \in Pcs \ {"none", "sent", "run", "lookup"} : At(k, pc)
    BY <1>1, <1>8, Moves
  <2>2. /\ requests'[k] = [kind |-> Kind(k), term |-> Term(k), at |-> pc]
        /\ \A m \in Requests : m # k => requests'[m] = requests[m]
    BY <1>1, <2>1, AtTyped
  <2>3. UNCHANGED <<step, swapped>>
    BY <1>8 DEF Handle, Run, Register, Lookup, WaitForExit, Kill, Reply, hostVars, termVars
  <2>4. CASE Run(k)
    <3>1. n # k
      BY <1>1, <2>4 DEF Run, At, Started, TermTyped
    <3>2. proc'[n] = proc[n] /\ UNCHANGED listed
      BY <1>1, <2>4, <3>1 DEF Run, TermTyped
    <3> QED BY <1>3, <2>2, <2>3, <2>4, <3>1, <3>2 DEF Run
  <2>5. CASE Register(k)
    <3>1. listed' = listed \cup {k} /\ UNCHANGED proc
      BY <2>5 DEF Register
    <3>2. CASE n = k
      BY <3>1, <3>2
    <3>3. CASE n # k
      BY <1>3, <2>2, <2>3, <2>5, <3>1, <3>3 DEF Register
    <3> QED BY <3>2, <3>3
  <2>6. CASE Lookup(k)
    <3>1. UNCHANGED proc
      BY <2>6 DEF Lookup
    <3>2. n # k
      <4>1. proc[k] = "none"
        BY <1>1, <2>6 DEF Lookup, Started
      <4> QED BY <3>1, <4>1
    <3>3. Up(n)
      BY <2>2, <3>1, <3>2
    <3>4. CASE n \in listed /\ n \notin listed'
      <4>1. /\ Kind(k) = "release" /\ Term(k) = n
            /\ At(k, "release")
        BY <2>6, <3>4 DEF Lookup
      <4>2. requests'[k].at = "release" /\ requests'[k].term = n
        BY <1>1, <4>1 DEF At, TermTyped, Term
      <4> QED BY <4>2 DEF Term
    <3>5. CASE n \in listed => n \in listed'
      BY <1>3, <2>2, <2>3, <2>6, <3>3, <3>5 DEF Lookup
    <3> QED BY <3>4, <3>5
  <2>7. CASE WaitForExit(k) \/ Reply(k)
    <3>1. UNCHANGED <<listed, proc>> /\ requests[k].at \in {"wait", "reply"}
      BY <2>7 DEF WaitForExit, Reply, termVars
    <3>2. Up(n)
      <4>1. requests[k].at = "wait" => proc[k] = "none"
        BY <1>1 DEF Started
      <4> QED BY <2>2, <3>1, <4>1
    <3> QED BY <1>3, <2>2, <2>3, <3>1, <3>2
  <2>8. CASE Kill(k)
    <3>1. UNCHANGED listed /\ proc' = Killed({Term(k)}) /\ requests[k].at \in {"kill", "release"}
      BY <2>8 DEF Kill
    <3>2. proc[n] = "running" /\ n # Term(k)
      BY <3>1 DEF Killed
    <3>3. n # k
      BY <1>1, <3>1, <3>2 DEF Started
    <3>4. Up(n)
      BY <2>2, <3>2, <3>3
    <3>5. CASE n \in listed \/ (step = "kill" /\ n \in swapped)
      BY <2>3, <3>1, <3>5
    <3>6. ASSUME NEW m \in Requests, requests[m].at = "release", Term(m) = n PROVE Owned(n)'
      <4>1. m # k
        BY <3>2, <3>6
      <4> QED BY <2>2, <3>6, <4>1 DEF Term
    <3> QED BY <1>2, <3>4, <3>5, <3>6
  <2> QED BY <1>8, <2>4, <2>5, <2>6, <2>7, <2>8 DEF Handle
<1>9. ASSUME NEW k \in Requests, Reap(k) \/ CommandEnds(k) PROVE Owned(n)'
  <2>1. UNCHANGED <<requests, listed, swapped, step>>
    BY <1>9 DEF Reap, CommandEnds, hostVars
  <2>2. proc[n] = "running"
    BY <1>1, <1>9 DEF Reap, CommandEnds, TermTyped
  <2> QED BY <1>3, <2>1, <2>2
<1>10. ASSUME UNCHANGED <<requests, termVars>>, step = "kill" => step' = "kill" PROVE Owned(n)'
  BY <1>3, <1>10 DEF termVars
<1>11. step = "kill" => KillAll \/ step' = "kill"
  <2>1. ASSUME Call \/ Write \/ Answered \/ Expired \/ Ended, step = "kill" PROVE step' = "kill"
    BY <1>1, <2>1 DEF SessionInv, CallIds, Call, Write, Answered, Expired, Ended, Handshake, HostTyped
  <2>2. ASSUME Prompt \/ Quit \/ Exit \/ ReleaseAll \/ KillAgent PROVE step # "kill"
    BY <2>2 DEF Prompt, Quit, Exit, ReleaseAll, KillAgent, Live
  <2> QED BY <2>1, <2>2, HostFrame DEF hostVars
<1> QED
  BY <1>4, <1>5, <1>6, <1>7, <1>8, <1>9, <1>10, <1>11, TermFrame

\* Terminals.Handle and ReleaseAll: as long as the session lives, whatever create, wait,
\* kill and release do to each other, a running command that is answered for is on the
\* list, or whoever took it off is about to kill it.
THEOREM WhoUnlistsKills == Spec => []UnlistedIsDead
<1>1. Init => UnlistedIsDead
  BY DEF Init, UnlistedIsDead
<1>2. Spec => [](SessionInv /\ UnlistedIsDead)
  <2>1. SessionInv /\ UnlistedIsDead /\ [Next]_vars => (SessionInv /\ UnlistedIsDead)'
    BY SessionStep, UnlistedStep
  <2> QED BY <1>1, <2>1, SessionStarts, PTL DEF Spec
<1> QED BY <1>2, PTL

-----------------------------------------------------------------------------
(* The turns                                                               *)

Turn ==
  IF step = "prompt" /\ call.at # "none"
  THEN IF call.id \in agent.answered THEN "answered" ELSE "asked"
  ELSE "idle"
Over == ~agent.alive \/ step = "exited"

LEMMA TurnsStep == SessionInv /\ [Next]_vars => [Turns!Next]_(Turns!vars)
<1> SUFFICES ASSUME SessionInv, [Next]_vars PROVE [Turns!Next]_(Turns!vars)
  OBVIOUS
<1>1. /\ HostTyped /\ ConnTyped /\ AgentTyped /\ PipesTyped
      /\ CallIds /\ ChunksInOrder /\ Letters /\ Answers /\ OverIsDead /\ InTime
  BY DEF SessionInv, Typed
<1>2. call.id \in Nat /\ shown \in Nat /\ agent.said \in Nat /\ agent.due \in Nat /\ prompts \in Nat
      /\ agent.alive \in BOOLEAN
  BY <1>1 DEF HostTyped, ConnTyped, AgentTyped
<1>3. step = "prompt" /\ call.at # "none" => call.id > 2
  BY <1>1, <1>2 DEF CallIds
<1> USE DEF Turn, Over
\* A stuttering step.
<1>4. ASSUME Turn' = Turn, UNCHANGED shown, agent'.said = agent.said, agent'.due = agent.due,
             Over' = Over
      PROVE  [Turns!Next]_(Turns!vars)
  BY <1>4 DEF Turns!vars
<1>5. ASSUME Call PROVE [Turns!Next]_(Turns!vars)
  <2>1. /\ UNCHANGED <<step, shown, agent>> /\ call.at = "none"
        /\ call'.id = call.id + 1 /\ call'.at = "registered"
    BY <1>5 DEF Call, hostVars
  <2>2. call.id + 1 \notin agent.answered
    BY <1>1, <1>2 DEF Letters
  <2>3. CASE step = "prompt"
    <3>1. Turns!Ask
      BY <2>1, <2>2, <2>3 DEF Turns!Ask
    <3> QED BY <3>1 DEF Turns!Next
  <2>4. CASE step # "prompt"
    BY <1>4, <2>1, <2>4
  <2> QED BY <2>3, <2>4
<1>6. ASSUME NEW how, Returns(how), call.at # "none", ~agent.alive, UNCHANGED <<shown, agent>>
      PROVE  [Turns!Next]_(Turns!vars)
  <2>1. call'.at = "none" /\ step' # "prompt"
    BY <1>1, <1>6 DEF Returns, HostTyped
  <2>2. CASE step = "prompt"
    <3>1. Turns!Fail
      BY <1>6, <2>1, <2>2 DEF Turns!Fail
    <3> QED BY <3>1 DEF Turns!Next
  <2>3. CASE step # "prompt"
    BY <1>4, <1>6, <2>1, <2>3
  <2> QED BY <2>2, <2>3
<1>7. ASSUME Write PROVE [Turns!Next]_(Turns!vars)
  <2>1. CASE agent.alive
    <3>1. /\ UNCHANGED <<step, shown, agent>> /\ call'.id = call.id
          /\ call.at = "registered" /\ call'.at = "waiting"
      BY <1>1, <1>7, <2>1 DEF Write, hostVars, HostTyped
    <3> QED BY <1>4, <3>1
  <2>2. CASE ~agent.alive
    BY <1>6, <1>7, <2>2 DEF Write
  <2> QED BY <2>1, <2>2
<1>8. ASSUME Ended PROVE [Turns!Next]_(Turns!vars)
  BY <1>1, <1>6, <1>8 DEF Ended, OverIsDead
<1>9. ASSUME Expired PROVE [Turns!Next]_(Turns!vars)
  <2>1. /\ UNCHANGED <<shown, agent>> /\ step # "prompt" /\ step' = "release" /\ Live
    BY <1>9 DEF Expired, GivesUp, Handshake, Returns
  <2> QED BY <1>4, <2>1 DEF Live
<1>10. ASSUME Answered PROVE [Turns!Next]_(Turns!vars)
  <2>1. /\ UNCHANGED <<shown, agent>> /\ call.at = "waiting" /\ chan[call.id] # "empty" /\ Live
        /\ call'.at = "none" /\ step' \in {"loop", "session", "release"}
    BY <1>1, <1>10 DEF Answered, Returns, HostTyped
  <2>2. CASE step = "prompt"
    <3>1. call.id \in Calls
      BY <1>1, <1>3, <2>1, <2>2, CallsInRange DEF Calls
    <3>2. call.id \in agent.answered
      BY <1>1, <2>1, <3>1 DEF Answers
    <3>3. shown >= agent.due
      BY <1>1, <1>2, <1>3, <2>1, <2>2, <3>2 DEF InTime
    <3>4. Turns!Return
      BY <2>1, <2>2, <3>2, <3>3 DEF Turns!Return
    <3> QED BY <3>4 DEF Turns!Next
  <2>3. CASE step # "prompt"
    BY <1>4, <2>1, <2>3 DEF Live
  <2> QED BY <2>2, <2>3
<1>11. ASSUME Prompt \/ Quit \/ ReleaseAll \/ KillAll PROVE [Turns!Next]_(Turns!vars)
  <2>1. UNCHANGED <<call, shown, agent>> /\ step # "exited" /\ step' # "exited" /\ step # "prompt"
    BY <1>11 DEF Prompt, Quit, ReleaseAll, KillAll, connVars
  <2>2. call.at = "none"
    BY <1>1, <1>11 DEF Prompt, Quit, ReleaseAll, KillAll, CallIds, Handshake
  <2> QED BY <1>4, <2>1, <2>2
<1>12. ASSUME KillAgent \/ AgentDies PROVE [Turns!Next]_(Turns!vars)
  <2>1. /\ UNCHANGED <<call, shown>> /\ agent' = [agent EXCEPT !.alive = FALSE]
        /\ step' = step \/ (step = "stop" /\ step' = "wait")
    BY <1>12 DEF KillAgent, AgentDies, connVars, hostVars
  <2>2. /\ ~agent'.alive /\ agent'.said = agent.said /\ agent'.due = agent.due
        /\ agent'.answered = agent.answered
    BY <1>1, <2>1 DEF AgentTyped
  <2>3. Turns!End
    BY <2>1, <2>2 DEF Turns!End
  <2> QED BY <2>3 DEF Turns!Next
<1>13. ASSUME Exit PROVE [Turns!Next]_(Turns!vars)
  <2>1. UNCHANGED <<call, shown, agent>> /\ step' = "exited"
    BY <1>13 DEF Exit, connVars
  <2>2. Turns!End
    BY <2>1 DEF Turns!End
  <2> QED BY <2>2 DEF Turns!Next
<1>14. ASSUME Read PROVE [Turns!Next]_(Turns!vars)
  <2>1. UNCHANGED <<step, call, agent>> /\ fromAgent # <<>>
    BY <1>14 DEF Read, hostVars
  <2>2. Message = fromAgent[1] /\ 1 \in 1..Len(fromAgent)
    BY <1>1, <2>1, Taking DEF PipesTyped, Message
  <2>3. CASE Message.kind = "update"
    <3>1. shown' = shown + 1
      BY <1>14, <2>3 DEF Read, Shown
    <3>2. shown < agent.said
      BY <1>1, <1>2, <2>2, <2>3, FirstChunk
    <3>3. Turns!Show
      BY <2>1, <3>1, <3>2 DEF Turns!Show
    <3> QED BY <3>3 DEF Turns!Next
  <2>4. CASE Message.kind # "update"
    <3>1. shown' = shown
      BY <1>14, <2>4 DEF Read
    <3> QED BY <1>4, <2>1, <3>1
  <2> QED BY <2>3, <2>4
<1>15. ASSUME AgentAnswers PROVE [Turns!Next]_(Turns!vars)
  <2> PICK id \in agent.owes :
         agent' = [agent EXCEPT !.owes = @ \ {id}, !.answered = @ \cup {id},
                                !.due = IF id > 2 THEN agent.said ELSE @]
    BY <1>15 DEF AgentAnswers
  <2>1. /\ UNCHANGED <<call, shown, step>> /\ agent.alive /\ Live
        /\ agent'.answered = agent.answered \cup {id} /\ agent'.said = agent.said
        /\ agent'.due = (IF id > 2 THEN agent.said ELSE agent.due) /\ agent'.alive = agent.alive
    BY <1>1, <1>15 DEF AgentAnswers, connVars, hostVars, AgentTyped
  <2>2. id \in Nat /\ id \notin agent.answered /\ Current(id)
    BY <1>1, <1>2 DEF Letters
  <2>3. CASE id > 2
    <3>1. step = "prompt" /\ call.at = "waiting" /\ id = call.id
      BY <2>1, <2>2, <2>3 DEF Current
    <3>2. Turns!Answer
      BY <2>1, <2>2, <2>3, <3>1 DEF Turns!Answer, Live
    <3> QED BY <3>2 DEF Turns!Next
  <2>4. CASE ~(id > 2)
    <3>1. step = "prompt" /\ call.at # "none" => id # call.id
      BY <1>2, <1>3, <2>4
    <3> QED BY <1>4, <2>1, <2>4, <3>1
  <2> QED BY <2>3, <2>4
<1>16. ASSUME AgentSays PROVE [Turns!Next]_(Turns!vars)
  <2>1. /\ UNCHANGED <<call, shown, step>> /\ agent.alive /\ Live
        /\ agent'.answered = agent.answered /\ agent'.said = agent.said + 1
        /\ agent'.due = agent.due /\ agent'.alive = agent.alive
    BY <1>1, <1>16 DEF AgentSays, connVars, hostVars, AgentTyped
  <2>2. Turns!Say
    BY <2>1 DEF Turns!Say, Live
  <2> QED BY <2>2 DEF Turns!Next
<1>17. ASSUME AgentReads \/ AgentRepeats PROVE [Turns!Next]_(Turns!vars)
  <2>1. /\ UNCHANGED <<call, shown, step>>
        /\ agent'.answered = agent.answered /\ agent'.said = agent.said
        /\ agent'.due = agent.due /\ agent'.alive = agent.alive
    BY <1>1, <1>17 DEF AgentReads, AgentRepeats, connVars, hostVars, AgentTyped
  <2> QED BY <1>4, <2>1
<1>18. ASSUME UNCHANGED <<step, call, shown, agent>> PROVE [Turns!Next]_(Turns!vars)
  BY <1>4, <1>18
<1>19. ASSUME \/ Deliver \/ EndOfFile \/ AgentRequests \/ UNCHANGED vars
              \/ \E n \in Requests : Handle(n) \/ Reap(n) \/ CommandEnds(n)
       PROVE  UNCHANGED <<step, call, shown, agent>>
  BY <1>19 DEF Deliver, EndOfFile, AgentRequests, vars, hostVars, connVars, Handle, Run, Register,
     Lookup, WaitForExit, Kill, Reply, Reap, CommandEnds
<1> QED
  BY <1>5, <1>7, <1>8, <1>9, <1>10, <1>11, <1>12, <1>13, <1>14, <1>15, <1>16, <1>17, <1>18, <1>19
  DEF Next, Host, Serve

\* What hosting an agent promises, but for the end of a turn that has to come: the turns
\* of the session are those of AgentTurns.  A turn returns only once the agent has answered
\* and the user has seen, in their order, all the chunks that were said before the answer;
\* without an answer it ends only with the agent or the session.
THEOREM TurnsKept == Spec => Turns!Init /\ [][Turns!Next]_(Turns!vars)
<1>1. Init => Turns!Init
  BY DEF Init, Turns!Init
<1> QED BY <1>1, SessionKept, TurnsStep, PTL DEF Spec
=============================================================================
