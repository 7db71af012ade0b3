---------------------------- MODULE AgentSession ----------------------------
(***************************************************************************)
(* `koi acp' (internal/repl/acpcmd.go, internal/acp): a session with an    *)
(* agent over a pair of pipes.  The host asks and waits; the connection's  *)
(* reader shows what the agent says, delivers its answers, and has each of *)
(* its requests answered by a goroutine, which runs and kills commands in  *)
(* the agent's terminals.                                                  *)
(*                                                                         *)
(* The agent may answer late, twice or never, and die at any moment.  Its  *)
(* requests are numbered; a terminal has the number of its request.        *)
(***************************************************************************)
EXTENDS Naturals, Sequences, FiniteSets

CONSTANTS
    Scenarios,     \* records: bounds on the prompts the user types, the chunks of text the
                   \* agent says, its requests, those for a terminal among them, and
                   \* the answers it sends again
    MaxPrompts,    \* bound: prompts in any scenario
    MaxRequests    \* bound: requests in any scenario

ASSUME SessionAssumption ==
    /\ MaxPrompts \in Nat /\ MaxRequests \in Nat
    /\ Scenarios \subseteq [prompts : 0..MaxPrompts, chunks : Nat, requests : 0..MaxRequests,
                            creates : Nat, repeats : Nat]

VARIABLES
    step, prompts, limits,               \* RunACP and promptLoop; the scenario
    call, pending, chan,                 \* Conn.Call
    reader, shown,                       \* Conn.Serve
    requests,                            \* Conn.answer, one goroutine each
    listed, swapped, proc, reaped,       \* Terminals, and their commands
    toAgent, fromAgent,                  \* the pipes
    agent                                \* the agent

hostVars == <<step, prompts, limits>>
connVars == <<call, pending, chan>>
termVars == <<listed, swapped, proc, reaped>>
vars == <<hostVars, connVars, reader, shown, requests, termVars, toAgent, fromAgent, agent>>

Requests == 1..MaxRequests
Calls == 1..(MaxPrompts + 2)
Handshake == {"initialize", "session"}

Init ==
    /\ step = "initialize" /\ prompts = 0 /\ limits \in Scenarios
    /\ call = [id |-> 0, at |-> "none"] /\ pending = {} /\ chan = [i \in Calls |-> "empty"]
    /\ reader = [at |-> "read", id |-> 0, inline |-> 0] /\ shown = 0
    /\ requests = [n \in Requests |-> [kind |-> "none", term |-> 0, at |-> "none"]]
    /\ listed = {} /\ swapped = {}
    /\ proc = [n \in Requests |-> "none"] /\ reaped = {}
    /\ toAgent = <<>> /\ fromAgent = <<>>
    /\ agent = [alive |-> TRUE, owes |-> {}, answered |-> {}, said |-> 0, due |-> 0,
                knows |-> {}, repeats |-> 0]

Live == step # "exited"

-----------------------------------------------------------------------------
\* Conn.Call: register, write, and wait for whichever of the three comes first.
Call ==
    /\ step \in Handshake \cup {"prompt"} /\ call.at = "none"
    /\ call' = [id |-> call.id + 1, at |-> "registered"]
    /\ pending' = pending \cup {call.id + 1}
    /\ UNCHANGED <<hostVars, chan, reader, shown, requests, termVars, toAgent, fromAgent, agent>>

\* What RunACP does with the outcome: the handshake must succeed, a prompt need not.
Returns(how) ==
    /\ call' = [call EXCEPT !.at = "none"]
    /\ step' = IF step = "prompt" THEN "loop"
               ELSE IF how # "result" THEN "release"
               ELSE IF step = "initialize" THEN "session" ELSE "loop"
    /\ UNCHANGED <<prompts, limits>>

Write ==
    /\ Live /\ call.at = "registered"
    /\ IF agent.alive
       THEN /\ call' = [call EXCEPT !.at = "waiting"]
            /\ toAgent' = Append(toAgent, [kind |-> "call", id |-> call.id])
            /\ UNCHANGED <<hostVars, pending>>
       ELSE /\ pending' = pending \ {call.id}
            /\ Returns("write")
            /\ UNCHANGED toAgent
    /\ UNCHANGED <<chan, reader, shown, requests, termVars, fromAgent, agent>>

Answered ==
    /\ Live /\ call.at = "waiting" /\ chan[call.id] # "empty"
    /\ Returns(chan[call.id])
    /\ chan' = [chan EXCEPT ![call.id] = "empty"]
    /\ UNCHANGED <<pending, reader, shown, requests, termVars, toAgent, fromAgent, agent>>

\* The handshake's context has a deadline (it may pass at any time), the prompts' has
\* none.
GivesUp == step \in Handshake
Expired ==
    /\ Live /\ call.at = "waiting" /\ GivesUp
    /\ pending' = pending \ {call.id}
    /\ Returns("deadline")
    /\ UNCHANGED <<chan, reader, shown, requests, termVars, toAgent, fromAgent, agent>>

Ended ==
    /\ Live /\ call.at = "waiting" /\ reader.at = "over"
    /\ Returns("ended")
    /\ UNCHANGED <<pending, chan, reader, shown, requests, termVars, toAgent, fromAgent, agent>>

-----------------------------------------------------------------------------
\* RunACP, promptLoop and Client.Close.
Prompt ==
    /\ step = "loop" /\ prompts < limits.prompts
    /\ step' = "prompt" /\ prompts' = prompts + 1
    /\ UNCHANGED <<limits, connVars, reader, shown, requests, termVars,
                   toAgent, fromAgent, agent>>

Quit ==
    /\ step = "loop"
    /\ step' = "release"
    /\ UNCHANGED <<prompts, limits, connVars, reader, shown, requests, termVars,
                   toAgent, fromAgent, agent>>

\* ReleaseAll takes the terminals off the list, then kills their commands.
EmptiedLate == "kill"
Emptied == "release"
ReleaseAll ==
    /\ step = "release"
    /\ step' = "kill"
    /\ swapped' = listed
    /\ listed' = IF Emptied = "release" THEN {} ELSE listed
    /\ UNCHANGED <<prompts, limits, connVars, reader, shown, requests, proc, reaped,
                   toAgent, fromAgent, agent>>

Killed(ns) == [n \in Requests |-> IF n \in ns /\ proc[n] = "running" THEN "dead" ELSE proc[n]]
KillAll ==
    /\ step = "kill"
    /\ step' = "stop"
    /\ proc' = Killed(swapped)
    /\ listed' = IF Emptied = "kill" THEN {} ELSE listed
    /\ UNCHANGED <<prompts, limits, connVars, reader, shown, requests, swapped, reaped,
                   toAgent, fromAgent, agent>>

KillAgent ==
    /\ step = "stop"
    /\ step' = "wait"
    /\ agent' = [agent EXCEPT !.alive = FALSE]
    /\ UNCHANGED <<prompts, limits, connVars, reader, shown, requests, termVars,
                   toAgent, fromAgent>>

\* The agent is reaped and main returns; or Ctrl-C, which nothing catches, at any step,
\* in the middle of ReleaseAll too.
Exit ==
    /\ Live
    /\ step' = "exited"
    /\ UNCHANGED <<prompts, limits, connVars, reader, shown, requests, termVars,
                   toAgent, fromAgent, agent>>

-----------------------------------------------------------------------------
\* Conn.Serve and dispatch, one line at a time.  A request is answered elsewhere: no
\* request holds the reader up (inline is the one that does, 0 for none).
Pinned(n) == n
Inline(n) == 0
ShownNot(n) == n
Shown(n) == n + 1
TakenNot(p, id) == p
Taken(p, id) == p \ {id}

Free == reader.at = "read" /\ (reader.inline # 0 => requests[reader.inline].at = "answered")
Message == Head(fromAgent)
First == [create |-> "run", wait |-> "lookup", kill |-> "lookup", release |-> "lookup"]

Read ==
    /\ Live /\ Free /\ fromAgent # <<>>
    /\ fromAgent' = Tail(fromAgent)
    /\ \/ /\ Message.kind = "update"
          /\ shown' = Shown(shown)
          /\ UNCHANGED <<reader, requests, pending>>
       \/ /\ Message.kind = "request"
          /\ requests' = [requests EXCEPT ![Message.id].at = First[requests[Message.id].kind]]
          /\ reader' = [reader EXCEPT !.inline = Inline(Message.id)]
          /\ UNCHANGED <<shown, pending>>
       \/ /\ Message.kind \in {"result", "error"}
          /\ pending' = Taken(pending, Message.id)
          /\ reader' = IF Message.id \in pending
                       THEN [reader EXCEPT !.at = Message.kind, !.id = Message.id] ELSE reader
          /\ UNCHANGED <<shown, requests>>
    /\ UNCHANGED <<hostVars, call, chan, termVars, toAgent, agent>>

\* The channel has room for one answer.
Deliver ==
    /\ Live /\ reader.at \in {"result", "error"} /\ chan[reader.id] = "empty"
    /\ chan' = [chan EXCEPT ![reader.id] = reader.at]
    /\ reader' = [reader EXCEPT !.at = "read"]
    /\ UNCHANGED <<hostVars, call, pending, shown, requests, termVars, toAgent, fromAgent, agent>>

EndOfFile ==
    /\ Live /\ Free /\ fromAgent = <<>> /\ ~agent.alive
    /\ reader' = [reader EXCEPT !.at = "over"]
    /\ UNCHANGED <<hostVars, connVars, shown, requests, termVars, toAgent, fromAgent, agent>>

-----------------------------------------------------------------------------
\* Conn.answer and Terminals.Handle, in the request's goroutine.
At(n, pc) == requests' = [requests EXCEPT ![n].at = pc]
Kind(n) == requests[n].kind
Term(n) == requests[n].term

\* create: the command runs before the terminal is on the list.
Run(n) ==
    /\ Live /\ requests[n].at = "run"
    /\ \/ proc' = [proc EXCEPT ![n] = "running"] /\ At(n, "register")
       \/ UNCHANGED proc /\ At(n, "reply")
    /\ UNCHANGED <<hostVars, connVars, reader, shown, listed, swapped, reaped,
                   toAgent, fromAgent, agent>>

Register(n) ==
    /\ Live /\ requests[n].at = "register"
    /\ listed' = listed \cup {n}
    /\ At(n, "reply")
    /\ UNCHANGED <<hostVars, connVars, reader, shown, swapped, proc, reaped,
                   toAgent, fromAgent, agent>>

Lookup(n) ==
    /\ Live /\ requests[n].at = "lookup"
    /\ At(n, IF Term(n) \in listed THEN Kind(n) ELSE "reply")
    /\ listed' = IF Kind(n) = "release" THEN listed \ {Term(n)} ELSE listed
    /\ UNCHANGED <<hostVars, connVars, reader, shown, swapped, proc, reaped,
                   toAgent, fromAgent, agent>>

WaitForExit(n) ==
    /\ Live /\ requests[n].at = "wait" /\ Term(n) \in reaped
    /\ At(n, "reply")
    /\ UNCHANGED <<hostVars, connVars, reader, shown, termVars, toAgent, fromAgent, agent>>

Kill(n) ==
    /\ Live /\ requests[n].at \in {"kill", "release"}
    /\ proc' = Killed({Term(n)})
    /\ At(n, "reply")
    /\ UNCHANGED <<hostVars, connVars, reader, shown, listed, swapped, reaped,
                   toAgent, fromAgent, agent>>

Reply(n) ==
    /\ Live /\ requests[n].at = "reply"
    /\ At(n, "answered")
    /\ toAgent' = IF agent.alive THEN Append(toAgent, [kind |-> "reply", id |-> n]) ELSE toAgent
    /\ UNCHANGED <<hostVars, connVars, reader, shown, termVars, fromAgent, agent>>

\* The goroutine of a terminal waits for its command.
Reap(n) ==
    /\ Live /\ proc[n] = "dead" /\ n \notin reaped
    /\ reaped' = reaped \cup {n}
    /\ UNCHANGED <<hostVars, connVars, reader, shown, requests, listed, swapped, proc,
                   toAgent, fromAgent, agent>>

\* External: a command may end by itself.
CommandEnds(n) ==
    /\ Live /\ proc[n] = "running"
    /\ proc' = [proc EXCEPT ![n] = "dead"]
    /\ UNCHANGED <<hostVars, connVars, reader, shown, requests, listed, swapped, reaped,
                   toAgent, fromAgent, agent>>

-----------------------------------------------------------------------------
\* External: the agent.  A session's messages need a session: calls 1 and 2 are the
\* handshake.  A chunk of text carries its number.
AgentReads ==
    /\ Live /\ agent.alive /\ toAgent # <<>>
    /\ toAgent' = Tail(toAgent)
    /\ agent' = IF Head(toAgent).kind = "call"
                THEN [agent EXCEPT !.owes = @ \cup {Head(toAgent).id}]
                ELSE [agent EXCEPT !.knows = @ \cup {Head(toAgent).id}]
    /\ UNCHANGED <<hostVars, connVars, reader, shown, requests, termVars, fromAgent>>

Sends(kind, id) == fromAgent' = Append(fromAgent, [kind |-> kind, id |-> id])

AgentAnswers ==
    /\ Live /\ agent.alive
    /\ \E id \in agent.owes, kind \in {"result", "error"} :
          /\ Sends(kind, id)
          /\ agent' = [agent EXCEPT !.owes = @ \ {id}, !.answered = @ \cup {id}, 
                                    !.due = IF id > 2 THEN agent.said ELSE @]
    /\ UNCHANGED <<hostVars, connVars, reader, shown, requests, termVars, toAgent>>

AgentRepeats ==
    /\ Live /\ agent.alive /\ agent.repeats < limits.repeats
    /\ \E id \in agent.answered : Sends("result", id)
    /\ agent' = [agent EXCEPT !.repeats = @ + 1]
    /\ UNCHANGED <<hostVars, connVars, reader, shown, requests, termVars, toAgent>>

AgentSays ==
    /\ Live /\ agent.alive /\ agent.said < limits.chunks /\ 2 \in agent.answered
    /\ Sends("update", agent.said + 1)
    /\ agent' = [agent EXCEPT !.said = @ + 1]
    /\ UNCHANGED <<hostVars, connVars, reader, shown, requests, termVars, toAgent>>

\* Commands are asked for during a turn; terminals are named once they are known.
AgentRequests ==
    /\ Live /\ agent.alive /\ \E id \in agent.owes : id > 2
    /\ \E n \in 1..limits.requests :
          /\ Kind(n) = "none" /\ \A m \in 1..(n - 1) : Kind(m) # "none"
          /\ \/ /\ Cardinality({m \in Requests : Kind(m) = "create"}) < limits.creates
                /\ requests' = [requests EXCEPT ![n] = [kind |-> "create", term |-> n, at |-> "sent"]]
             \/ \E k \in agent.knows, kind \in {"wait", "kill", "release"} :
                   /\ Kind(k) = "create"
                   /\ requests' = [requests EXCEPT ![n] = [kind |-> kind, term |-> k, at |-> "sent"]]
          /\ Sends("request", n)
    /\ UNCHANGED <<hostVars, connVars, reader, shown, termVars, toAgent, agent>>

AgentDies ==
    /\ Live /\ agent.alive
    /\ agent' = [agent EXCEPT !.alive = FALSE]
    /\ UNCHANGED <<hostVars, connVars, reader, shown, requests, termVars, toAgent, fromAgent>>

Host == Call \/ Write \/ Answered \/ Expired \/ Ended \/ ReleaseAll \/ KillAll \/ KillAgent
Serve == Read \/ Deliver \/ EndOfFile
Handle(n) == Run(n) \/ Register(n) \/ Lookup(n) \/ WaitForExit(n) \/ Kill(n) \/ Reply(n)

Next ==
    \/ Host \/ Prompt \/ Quit \/ Exit \/ Serve
    \/ \E n \in Requests : Handle(n) \/ Reap(n) \/ CommandEnds(n)
    \/ AgentReads \/ AgentAnswers \/ AgentRepeats \/ AgentSays \/ AgentRequests \/ AgentDies

Spec == Init /\ [][Next]_vars

System == Host \/ Serve \/ \E n \in Requests : Handle(n) \/ Reap(n)

\* The host's own steps, the reader, the goroutines and the timers go on; the
\* agent, its commands and the user need not.  None of these steps can be repeated
\* without the agent or the user, so that one fairness is enough.
FairSpec == Spec /\ WF_vars(System)

-----------------------------------------------------------------------------
\* Types; nothing is shown that was not said.
TypeOK ==
    /\ step \in Handshake \cup {"loop", "prompt", "release", "kill", "stop", "wait", "exited"}
    /\ prompts \in 0..MaxPrompts
    /\ call.id \in 0..(MaxPrompts + 2) /\ call.at \in {"none", "registered", "waiting"}
    /\ pending \subseteq Calls /\ chan \in [Calls -> {"empty", "result", "error"}]
    /\ reader.at \in {"read", "result", "error", "over"} /\ shown \in 0..agent.said
    /\ listed \subseteq Requests /\ swapped \subseteq Requests /\ reaped \subseteq Requests
    /\ proc \in [Requests -> {"none", "running", "dead"}]

\* The reader, on which every message depends, never waits for a caller that does not
\* listen: an answer that comes twice, or after the deadline, has nowhere to go and is
\* dropped (deliver).
ReaderNeverBlocks == reader.at \in {"result", "error"} => chan[reader.id] = "empty"

\* Late and repeated answers leave the reader free, and their callers' channels clean.
ReaderFree == TypeOK /\ ReaderNeverBlocks

\* As long as the session lives, a command whose terminal has left the list is being
\* killed by whoever took it off: release or ReleaseAll, whatever create, wait and kill
\* do meanwhile.  (A Ctrl-C at that moment leaves it running: NothingOutlives.)
UnlistedIsDead ==
    Live => \A n \in Requests :
        proc[n] = "running" /\ requests[n].at \in {"reply", "answered"} =>
            \/ n \in listed
            \/ step = "kill" /\ n \in swapped
            \/ \E m \in Requests : requests[m].at = "release" /\ Term(m) = n

\* The session keeps what AgentTurns promises.
Turns == INSTANCE AgentTurns WITH
    turn <- IF step = "prompt" /\ call.at # "none"
            THEN IF call.id \in agent.answered THEN "answered" ELSE "asked"
            ELSE "idle",
    said <- agent.said, shown <- shown, due <- agent.due,
    over <- ~agent.alive \/ step = "exited"
KeepsTurns == Turns!Spec

\* A wait for a command ends once the agent has asked to kill it: the request is read
\* and answered although an earlier one is not.  And the handshake ends, with an agent
\* that says nothing too (#330).
WaitsEnd ==
    []<>/\ step \notin Handshake
        /\ \A n, m \in Requests :
              requests[n].at = "wait" /\ Kind(m) \in {"kill", "release"} /\ Term(m) = Term(n)
                  => step = "exited"

\* A call reports the end of the agent only if no answer has been delivered ("agent
\* exited before answering").  Violated: both are ready, and either is taken.
AnswerIsReturned == [][step = "prompt" /\ Ended => chan[call.id] = "empty"]_vars

\* "An agent that forgot a release should not leave a process behind" (ReleaseAll).
\* Violated: by a create that registers behind ReleaseAll, and by Ctrl-C at any step
\* before ReleaseAll has killed what it took off the list.
NothingOutlives == step = "exited" => \A n \in Requests : proc[n] # "running"
=============================================================================
