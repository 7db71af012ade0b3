------------------------- MODULE PluginHost_proofs -------------------------
(***************************************************************************)
(* Proofs about PluginHost, for any plugins, names and offers:             *)
(*                                                                         *)
(*   ProcessesInHand      a plugin has one process at most, and it is a    *)
(*                        client or about to be (from Owners: whoever      *)
(*                        starts a plugin has its mutex)                   *)
(*   NamesKeepTheirOwner  a name means one plugin for the rest of the      *)
(*                        session (from Unheard: the index asks a plugin   *)
(*                        once, and no name is one's that is not asked)    *)
(***************************************************************************)
EXTENDS PluginHost, FiniteSetTheorems, WellFoundedInduction, TLAPS

\* Plugins are numbered from 1; "not asked" is the name of no command.
Setting ==
  /\ Plugin \subseteq Nat \ {0} /\ Cached \subseteq Plugin
  /\ Offers \in [Plugin -> SUBSET Name]
  /\ Name \cap Unasked = {}

Asking == {"lock", "ensure", "describe"}

CallersTyped ==
  /\ pc \in [Caller -> Asking \cup {"next", "list", "idle", "done", "discover", "close", "closed"}]
  /\ todo \in [Caller -> SUBSET Plugin] /\ on \in [Caller -> Plugin \cup {None}]
  /\ known \subseteq Plugin /\ installed \subseteq Plugin
  /\ \A c \in Caller : pc[c] \in Asking => on[c] \in Plugin
  /\ pc["index"] \in Asking \cup {"next", "done"}
  /\ pc["warm"] \in Asking \cup {"next", "list"}
StatesTyped ==
  /\ psmu \in [Plugin -> Caller \cup {Nobody}]
  /\ client \in [Plugin -> {"none", "live", "dead"}]
  /\ cooling \in [Plugin -> BOOLEAN]
  /\ procs \in [Plugin -> Int]
IndexTyped ==
  /\ specs \in [Plugin -> SUBSET (Name \cup Unasked)]
  /\ byName \in [Name -> Plugin \cup {None}]

\* Who is past Lock, and only they, has the plugin's mutex; nobody describes a plugin
\* that has a client.
Owners ==
  \A c \in Caller, p \in Plugin :
     /\ psmu[p] = c <=> pc[c] \in {"ensure", "describe"} /\ on[c] = p
     /\ pc[c] = "describe" /\ on[c] = p => client[p] = "none"

\* The processes of a plugin: the one that is being described, and the client's.
Starting(p) == \E c \in Caller : pc[c] = "describe" /\ on[c] = p
Counted ==
  \A p \in Plugin :
     procs[p] = (IF Starting(p) THEN 1 ELSE 0) + (IF client[p] = "live" THEN 1 ELSE 0)

\* The plugins that are to be asked, or are being asked, have not been.
Unheard ==
  \A p \in Plugin :
     \/ p \in todo["index"]
     \/ pc["index"] \in Asking /\ on["index"] = p
     => specs[p] = Unasked
AskedOnce ==
  pc["index"] \in Asking => on["index"] \notin todo["index"]

LEMMA Names == ASSUME Setting PROVE None \notin Plugin
BY DEF Setting, None

-----------------------------------------------------------------------------
(* The index                                                               *)

LEMMA Least ==
  ASSUME NEW S, S \subseteq Nat, S # {}
  PROVE  \E n \in S : \A m \in S : n <= m
<1>1. \E n \in S : \A m \in S : ~(m < n)
  <2>1. PICK n \in S : \A m \in S : ~(<<m, n>> \in OpToRel(<, Nat))
    BY WFMin, NatLessThanWellFounded, Zenon
  <2> QED BY <2>1, Zenon DEF OpToRel
<1> QED BY <1>1

Offering(sp, n) == {p \in Plugin : n \in sp[p]}

\* What Claim gives a name: its owner, or the first of those that offer it.
LEMMA Claims ==
  ASSUME Setting, NEW old, NEW sp, NEW n
  PROVE  /\ n \in Reserved \/ old[n] # None \/ Offering(sp, n) = {} => Claim(old, sp, n) = old[n]
         /\ ~(n \in Reserved \/ old[n] # None \/ Offering(sp, n) = {}) =>
               Claim(old, sp, n) \in Offering(sp, n)
<1> DEFINE offering == Offering(sp, n)
<1>1. CASE n \in Reserved \/ old[n] # None \/ offering = {}
  BY <1>1 DEF Claim, Offering
<1>2. CASE ~(n \in Reserved \/ old[n] # None \/ offering = {})
  <2>1. offering \subseteq Nat /\ offering # {}
    BY <1>2 DEF Setting, Offering
  <2>2. \E p \in offering : \A q \in offering : p <= q
    BY <2>1, Least
  <2>3. Claim(old, sp, n) = CHOOSE p \in offering : \A q \in offering : p <= q
    BY <1>2 DEF Claim, Offering
  <2> QED BY <1>2, <2>2, <2>3
<1> QED BY <1>1, <1>2

LEMMA SetCommandsTyped ==
  ASSUME Setting, IndexTyped, NEW p \in Plugin, NEW cs \in SUBSET Name, SetCommands(p, cs)
  PROVE  IndexTyped'
<1> DEFINE old == [m \in Name |-> IF byName[m] = p THEN None ELSE byName[m]]
<1>1. specs' \in [Plugin -> SUBSET (Name \cup Unasked)]
  BY DEF SetCommands, IndexTyped
<1>2. \A n \in Name : old[n] \in Plugin \cup {None}
  BY DEF IndexTyped
<1>3. byName' = [n \in Name |-> Claim(old, specs', n)]
  BY DEF SetCommands
<1> HIDE DEF old
<1>4. ASSUME NEW n \in Name PROVE Claim(old, specs', n) \in Plugin \cup {None}
  BY <1>2, Claims DEF Offering
<1> QED BY <1>1, <1>3, <1>4 DEF IndexTyped

\* When a plugin that has not been asked answers, every name keeps its owner, and the
\* index is whole again.
LEMMA SetCommandsClaims ==
  ASSUME Setting, IndexTyped, NamesAreClaimed, NEW p \in Plugin, NEW cs \in SUBSET Name,
         specs[p] = Unasked, SetCommands(p, cs)
  PROVE  /\ NamesAreClaimed'
         /\ \A n \in Name : byName[n] # None => byName'[n] = byName[n]
<1> DEFINE old == [m \in Name |-> IF byName[m] = p THEN None ELSE byName[m]]
           Now(n) == Offering(specs, n)
           Then(n) == Offering(specs', n)
<1>1. \A n \in Name : p \notin Now(n)
  BY DEF Setting, Offering
<1>2. \A n \in Name : byName[n] # p
  BY <1>1, Names DEF NamesAreClaimed, Offering
<1>3. \A n \in Name : old[n] = byName[n]
  BY <1>2
<1>4. \A n \in Name : Now(n) \subseteq Then(n)
  BY <1>1 DEF SetCommands, IndexTyped, Offering
<1>5. \A n \in Name : byName'[n] = Claim(old, specs', n)
  BY DEF SetCommands
<1> HIDE DEF old
<1>6. ASSUME NEW n \in Name
      PROVE  /\ n \in Reserved \/ byName[n] # None \/ Then(n) = {} => byName'[n] = byName[n]
             /\ ~(n \in Reserved \/ byName[n] # None \/ Then(n) = {}) => byName'[n] \in Then(n)
  BY <1>3, <1>5, Claims
<1>7. \A n \in Name :
        IF n \in Reserved \/ Now(n) = {} THEN byName[n] = None ELSE byName[n] \in Now(n)
  BY DEF NamesAreClaimed, Offering
<1>8. ASSUME NEW n \in Name
      PROVE  IF n \in Reserved \/ Then(n) = {} THEN byName'[n] = None ELSE byName'[n] \in Then(n)
  <2>1. CASE n \in Reserved
    BY <1>6, <1>7, <2>1
  <2>2. CASE n \notin Reserved /\ Now(n) = {}
    BY <1>6, <1>7, <2>2
  <2>3. CASE n \notin Reserved /\ Now(n) # {}
    BY <1>4, <1>6, <1>7, <2>3, Names
  <2> QED BY <2>1, <2>2, <2>3
<1> QED BY <1>6, <1>8 DEF NamesAreClaimed, Offering

-----------------------------------------------------------------------------
(* Types                                                                   *)

LEMMA EnsureSteps ==
  ASSUME Setting, CallersTyped, NEW c \in Caller, Ensure(c)
  PROVE  /\ pc[c] \in Asking /\ on[c] \in Plugin
         /\ UNCHANGED <<hmu, installed, known, todo, ops>>
         /\ \/ /\ \E to \in {"ensure", "describe"} : Goes(c, to)
               /\ UNCHANGED <<on, index>>
            \/ UNCHANGED <<pc, on, index>>
            \/ \E ok \in BOOLEAN : Answer(c, ok)
<1>1. pc[c] \in Asking /\ on[c] \in Plugin
  BY DEF Ensure, Lock, Reuse, NoticeCrash, BackOff, Launch, Described, LaunchFails, Asking, CallersTyped
<1>2. Lock(c) \/ Launch(c) => (\E to \in {"ensure", "describe"} : Goes(c, to)) /\ UNCHANGED <<on, index>>
  BY DEF Lock, Launch
<1>3. NoticeCrash(c) => UNCHANGED <<pc, on, index>>
  BY DEF NoticeCrash, callers
<1>4. Reuse(c) \/ BackOff(c) \/ Described(c) \/ LaunchFails(c) => \E ok \in BOOLEAN : Answer(c, ok)
  BY DEF Reuse, BackOff, Described, LaunchFails
<1>5. UNCHANGED <<hmu, installed, known, todo, ops>>
  BY DEF Ensure, Lock, Reuse, NoticeCrash, BackOff, Launch, Described, LaunchFails, locks, callers
<1> QED BY <1>1, <1>2, <1>3, <1>4, <1>5 DEF Ensure

LEMMA CallersStep ==
  Setting /\ CallersTyped /\ IndexTyped /\ [Next]_vars => CallersTyped'
<1> SUFFICES ASSUME Setting, CallersTyped, IndexTyped, [Next]_vars PROVE CallersTyped'
  OBVIOUS
<1> USE DEF CallersTyped, Asking
<1>1. CASE List
  BY <1>1 DEF List, Goes, Caller
<1>2. ASSUME NEW c \in Caller, Visit(c) PROVE CallersTyped'
  <2> PICK p \in todo[c] : /\ todo' = [todo EXCEPT ![c] = @ \ {p}]
                           /\ on' = [on EXCEPT ![c] = p]
    BY <1>2 DEF Visit
  <2>1. p \in Plugin
    OBVIOUS
  <2>2. c # "main" /\ pc[c] = "next" /\ pc' = [pc EXCEPT ![c] = "lock"] /\ UNCHANGED <<known, installed>>
    BY <1>2 DEF Visit, Goes
  <2> QED BY <2>1, <2>2 DEF Caller
<1>3. CASE RunCommand
  <2> PICK n \in Name : byName[n] \in known /\ on' = [on EXCEPT !["main"] = byName[n]]
    BY <1>3 DEF RunCommand
  <2>1. pc' = [pc EXCEPT !["main"] = "lock"] /\ UNCHANGED <<todo, known, installed>>
    BY <1>3 DEF RunCommand, Goes
  <2> QED BY <2>1 DEF Caller
<1>4. CASE SaveCache
  BY <1>4 DEF SaveCache, Goes, Caller
<1>5. ASSUME NEW c \in Caller, Ensure(c) PROVE CallersTyped'
  <2>1. /\ pc[c] \in Asking /\ on[c] \in Plugin
        /\ UNCHANGED <<installed, known, todo>>
        /\ \/ /\ \E to \in {"ensure", "describe"} : Goes(c, to)
              /\ UNCHANGED on
           \/ UNCHANGED <<pc, on>>
           \/ \E ok \in BOOLEAN : Answer(c, ok)
    BY <1>5, EnsureSteps
  <2>2. ASSUME NEW to \in {"ensure", "describe"}, Goes(c, to), UNCHANGED on PROVE CallersTyped'
    BY <2>1, <2>2 DEF Goes
  <2>3. ASSUME NEW ok, Answer(c, ok) PROVE CallersTyped'
    BY <2>1, <2>3 DEF Answer, Goes, Caller
  <2>4. CASE UNCHANGED <<pc, on>>
    BY <2>1, <2>4
  <2> QED BY <2>1, <2>2, <2>3, <2>4
<1>6. CASE Discover \/ Close
  BY <1>6 DEF Discover, Close, Goes, Caller
<1>7. CASE Shutdown
  BY <1>7 DEF Shutdown
<1>8. CASE Unlock
  BY <1>8 DEF Unlock, Goes, Caller
<1>9. CASE Uninstall
  BY <1>9 DEF Uninstall, callers
<1>10. CASE Crash \/ Cool \/ Expire \/ UNCHANGED vars
  BY <1>10 DEF Crash, Cool, Expire, vars, callers
<1> QED BY <1>1, <1>2, <1>3, <1>4, <1>5, <1>6, <1>7, <1>8, <1>9, <1>10 DEF Next, System, Environment

LEMMA StatesStep ==
  Setting /\ CallersTyped /\ StatesTyped /\ [Next]_vars => StatesTyped'
<1> SUFFICES ASSUME Setting, CallersTyped, StatesTyped, [Next]_vars PROVE StatesTyped'
  OBVIOUS
<1> USE DEF StatesTyped
<1>1. ASSUME NEW c \in Caller, Ensure(c) PROVE StatesTyped'
  <2>1. on[c] \in Plugin
    BY <1>1, EnsureSteps
  <2>2. psmu' \in [Plugin -> Caller \cup {Nobody}]
    BY <1>1, <2>1 DEF Ensure, Lock, Reuse, NoticeCrash, BackOff, Launch, Described, LaunchFails,
       Freed, Held, locks
  <2>3. client' \in [Plugin -> {"none", "live", "dead"}]
    BY <1>1, <2>1 DEF Ensure, Lock, Reuse, NoticeCrash, BackOff, Launch, Described, LaunchFails, states
  <2>4. cooling' \in [Plugin -> BOOLEAN]
    BY <1>1, <2>1 DEF Ensure, Lock, Reuse, NoticeCrash, BackOff, Launch, Described, LaunchFails,
       states, Noted
  <2>5. procs' \in [Plugin -> Int]
    <3>1. CASE Launch(c) \/ LaunchFails(c)
      <4> PICK p \in Plugin : procs' = [procs EXCEPT ![p] = @ + 1] \/ procs' = [procs EXCEPT ![p] = @ - 1]
        BY <2>1, <3>1 DEF Launch, LaunchFails, Kill
      <4>1. procs[p] + 1 \in Int /\ procs[p] - 1 \in Int
        OBVIOUS
      <4> QED BY <4>1
    <3>2. CASE Lock(c) \/ Reuse(c) \/ NoticeCrash(c) \/ BackOff(c) \/ Described(c)
      BY <3>2 DEF Lock, Reuse, NoticeCrash, BackOff, Described, states
    <3> QED BY <1>1, <3>1, <3>2 DEF Ensure
  <2> QED BY <2>2, <2>3, <2>4, <2>5
<1>2. CASE Shutdown
  <2> PICK p \in todo["main"] :
         /\ procs' = IF client[p] = "live" THEN [procs EXCEPT ![p] = @ - 1] ELSE procs
         /\ client' = [client EXCEPT ![p] = "none"]
    BY <1>2 DEF Shutdown
  <2>1. p \in Plugin
    BY DEF CallersTyped, Caller
  <2>2. UNCHANGED <<psmu, cooling>>
    BY <1>2 DEF Shutdown, locks
  <2> QED BY <2>1, <2>2
<1>3. CASE Crash \/ Cool
  <2>1. CASE Crash
    <3> PICK p \in Plugin : /\ client' = [client EXCEPT ![p] = "dead"]
                            /\ procs' = [procs EXCEPT ![p] = @ - 1]
      BY <2>1 DEF Crash
    <3> QED BY <2>1 DEF Crash, locks
  <2>2. CASE Cool
    BY <2>2 DEF Cool, locks
  <2> QED BY <1>3, <2>1, <2>2
<1>4. ASSUME NEW c \in Caller, Visit(c) PROVE UNCHANGED <<psmu, client, cooling, procs>>
  BY <1>4 DEF Visit, locks, states
<1>5. List \/ SaveCache \/ Unlock \/ RunCommand \/ Discover \/ Close \/ Uninstall \/ Expire
         => UNCHANGED <<psmu, client, cooling, procs>>
  BY DEF List, SaveCache, Unlock, RunCommand, Discover, Close, Uninstall, Expire, locks, states
<1>6. CASE UNCHANGED <<psmu, client, cooling, procs>>
  BY <1>6
<1>7. CASE UNCHANGED vars
  BY <1>7 DEF vars, locks, states
<1> QED BY <1>1, <1>2, <1>3, <1>4, <1>5, <1>6, <1>7 DEF Next, System, Environment

\* The index changes only when the goroutine that fills it has an answer.
LEMMA IndexFrame ==
  ASSUME Setting, CallersTyped, [Next]_vars
  PROVE  \/ /\ pc["index"] \in Asking /\ on["index"] \in Plugin
            /\ \E cs \in SUBSET Name : SetCommands(on["index"], cs)
            /\ pc' = [pc EXCEPT !["index"] = "next"] /\ UNCHANGED todo
         \/ UNCHANGED <<specs, byName>>
<1>1. ASSUME NEW c \in Caller, Ensure(c), ~UNCHANGED <<specs, byName>>
      PROVE  /\ pc["index"] \in Asking /\ on["index"] \in Plugin
             /\ \E cs \in SUBSET Name : SetCommands(on["index"], cs)
             /\ pc' = [pc EXCEPT !["index"] = "next"] /\ UNCHANGED todo
  <2>1. /\ pc[c] \in Asking /\ on[c] \in Plugin /\ UNCHANGED todo
        /\ \E ok \in BOOLEAN : Answer(c, ok)
    BY <1>1, EnsureSteps DEF index
  <2> PICK ok \in BOOLEAN : Answer(c, ok)
    BY <2>1
  <2>2. c = "index"
    BY <1>1 DEF Answer, index
  <2>3. (IF ok THEN Offers[on[c]] ELSE {}) \in SUBSET Name
    BY <2>1 DEF Setting
  <2> QED BY <2>1, <2>2, <2>3 DEF Answer, Goes
<1>2. ASSUME NEW c \in Caller, Visit(c) PROVE UNCHANGED <<specs, byName>>
  BY <1>2 DEF Visit, index
<1>3. (\/ List \/ SaveCache \/ Unlock \/ RunCommand \/ Discover \/ Close \/ Uninstall \/ Expire
       \/ Shutdown \/ Crash \/ Cool \/ UNCHANGED vars)
         => UNCHANGED <<specs, byName>>
  BY DEF List, SaveCache, Unlock, RunCommand, Discover, Close, Uninstall, Expire, Shutdown, Crash,
     Cool, index, vars
<1> QED BY <1>1, <1>2, <1>3 DEF Next, System, Environment

LEMMA IndexStep == Setting /\ CallersTyped /\ IndexTyped /\ [Next]_vars => IndexTyped'
BY IndexFrame, SetCommandsTyped DEF IndexTyped

-----------------------------------------------------------------------------
(* Processes                                                               *)

\* Of the callers only the one in Ensure moves to, in or from a plugin's mutex.
LEMMA OwnersFrame ==
  ASSUME CallersTyped, [Next]_vars
  PROVE  \/ \E c \in Caller : Ensure(c)
         \/ /\ UNCHANGED psmu
            /\ \A c \in Caller :
                  pc[c] \in {"ensure", "describe"} \/ pc'[c] \in {"ensure", "describe"}
                     => pc'[c] = pc[c] /\ on'[c] = on[c]
<1>1. ASSUME NEW d \in Caller, Visit(d)
      PROVE  /\ UNCHANGED psmu
             /\ \A c \in Caller :
                  pc[c] \in {"ensure", "describe"} \/ pc'[c] \in {"ensure", "describe"}
                     => pc'[c] = pc[c] /\ on'[c] = on[c]
  <2> PICK p : on' = [on EXCEPT ![d] = p]
    BY <1>1 DEF Visit
  <2> QED BY <1>1 DEF Visit, Goes, CallersTyped, locks
<1>2. CASE RunCommand
  <2> PICK n : on' = [on EXCEPT !["main"] = byName[n]]
    BY <1>2 DEF RunCommand
  <2> QED BY <1>2 DEF RunCommand, Goes, CallersTyped, locks
<1>3. CASE List \/ SaveCache \/ Discover \/ Close \/ Unlock
  BY <1>3 DEF List, SaveCache, Discover, Close, Unlock, Goes, CallersTyped, locks
<1>4. CASE Shutdown \/ Uninstall \/ Crash \/ Cool \/ Expire \/ UNCHANGED vars
  BY <1>4 DEF Shutdown, Uninstall, Crash, Cool, Expire, vars, callers, locks
<1> QED BY <1>1, <1>2, <1>3, <1>4 DEF Next, System, Environment

\* What an answer does to the callers.
LEMMA Answers ==
  ASSUME CallersTyped, NEW c \in Caller, NEW ok, Answer(c, ok)
  PROVE  /\ pc'[c] \in {"idle", "next"}
         /\ \A d \in Caller : d # c => pc'[d] = pc[d] /\ on'[d] = on[d]
BY DEF Answer, Goes, CallersTyped

LEMMA OwnersStep ==
  Setting /\ CallersTyped /\ StatesTyped /\ Owners /\ [Next]_vars => Owners'
<1> SUFFICES ASSUME Setting, CallersTyped, StatesTyped, Owners, [Next]_vars PROVE Owners'
  OBVIOUS
<1>0. Nobody \notin Caller
  BY DEF Nobody, Caller
<1>1. ASSUME NEW c \in Caller, Ensure(c) PROVE Owners'
  <2> DEFINE p == on[c]
  <2>1. p \in Plugin
    BY <1>1, EnsureSteps
  <2>2. CASE Lock(c)
    <3>1. /\ psmu[p] = Nobody /\ psmu' = [psmu EXCEPT ![p] = c]
          /\ pc[c] = "lock" /\ pc' = [pc EXCEPT ![c] = "ensure"]
          /\ UNCHANGED <<on, client>>
      BY <2>2 DEF Lock, Goes, states
    <3> QED BY <1>0, <2>1, <3>1 DEF Owners, CallersTyped, StatesTyped
  <2>3. ASSUME NEW ok, Answer(c, ok), psmu' = Freed(p), pc[c] \in {"ensure", "describe"},
               client' = client \/ (pc[c] = "describe" /\ client' = [client EXCEPT ![p] = "live"])
        PROVE  Owners'
    <3>1. psmu[p] = c
      BY <2>1, <2>3 DEF Owners
    <3>2. psmu' = [psmu EXCEPT ![p] = Nobody]
      BY <2>3 DEF Freed
    <3>3. /\ pc'[c] \notin {"ensure", "describe"}
          /\ \A d \in Caller : d # c => pc'[d] = pc[d] /\ on'[d] = on[d]
      BY <2>3, Answers
    <3>4. \A d \in Caller : d # c => ~(pc[d] = "describe" /\ on[d] = p)
      BY <2>1, <3>1 DEF Owners
    <3>5. \A q \in Plugin : q # p => client'[q] = client[q] /\ psmu'[q] = psmu[q]
      BY <2>3, <3>2 DEF StatesTyped
    <3>6. psmu'[p] = Nobody
      BY <2>1, <3>2 DEF StatesTyped
    <3>7. ASSUME NEW d \in Caller, NEW q \in Plugin
          PROVE  /\ psmu'[q] = d <=> pc'[d] \in {"ensure", "describe"} /\ on'[d] = q
                 /\ pc'[d] = "describe" /\ on'[d] = q => client'[q] = "none"
      <4>1. CASE d = c
        <5>1. psmu'[q] # c
          BY <1>0, <2>1, <2>3, <3>1, <3>5, <3>6 DEF Owners
        <5> QED BY <3>3, <4>1, <5>1
      <4>2. CASE d # c /\ q = p
        <5>1. ~(pc[d] \in {"ensure", "describe"} /\ on[d] = p)
          BY <2>1, <3>1, <4>2 DEF Owners
        <5> QED BY <1>0, <3>3, <3>6, <4>2, <5>1
      <4>3. CASE d # c /\ q # p
        BY <3>3, <3>5, <4>3 DEF Owners
      <4> QED BY <4>1, <4>2, <4>3
    <3> QED BY <3>7 DEF Owners
  <2>4. CASE Reuse(c) \/ BackOff(c)
    BY <2>3, <2>4 DEF Reuse, BackOff, states
  <2>5. CASE Described(c) \/ LaunchFails(c)
    BY <2>3, <2>5 DEF Described, LaunchFails
  <2>6. CASE NoticeCrash(c)
    <3>1. /\ UNCHANGED <<psmu, pc, on>> /\ client' = [client EXCEPT ![p] = "none"]
      BY <2>6 DEF NoticeCrash, locks, callers
    <3> QED BY <2>1, <3>1 DEF Owners, StatesTyped
  <2>7. CASE Launch(c)
    <3>1. /\ UNCHANGED <<psmu, on, client>> /\ pc[c] = "ensure" /\ pc' = [pc EXCEPT ![c] = "describe"]
          /\ client[p] = "none"
      BY <2>7 DEF Launch, Held, Goes
    <3> QED BY <2>1, <3>1 DEF Owners, CallersTyped
  <2> QED BY <1>1, <2>2, <2>4, <2>5, <2>6, <2>7 DEF Ensure
<1>2. ASSUME ~(\E c \in Caller : Ensure(c)) PROVE Owners'
  <2>1. /\ UNCHANGED psmu
        /\ \A c \in Caller :
              pc[c] \in {"ensure", "describe"} \/ pc'[c] \in {"ensure", "describe"}
                 => pc'[c] = pc[c] /\ on'[c] = on[c]
    BY <1>2, OwnersFrame
  <2>2. \A p \in Plugin : client[p] = "none" => client'[p] = "none"
    <3>1. CASE Shutdown
      <4> PICK p : client' = [client EXCEPT ![p] = "none"]
        BY <3>1 DEF Shutdown
      <4> QED BY DEF StatesTyped
    <3>2. CASE Crash
      <4> PICK p \in Plugin : client[p] = "live" /\ client' = [client EXCEPT ![p] = "dead"]
        BY <3>2 DEF Crash
      <4> QED BY DEF StatesTyped
    <3>3. ASSUME NEW c \in Caller, Visit(c) PROVE UNCHANGED client
      BY <3>3 DEF Visit, states
    <3>4. (\/ List \/ SaveCache \/ Unlock \/ RunCommand \/ Discover \/ Close \/ Uninstall \/ Expire
           \/ Cool \/ UNCHANGED vars)
          => UNCHANGED client
      BY DEF List, SaveCache, Unlock, RunCommand, Discover, Close, Uninstall, Expire, Cool, states, vars
    <3> QED BY <1>2, <3>1, <3>2, <3>3, <3>4 DEF Next, System, Environment
  <2> QED BY <2>1, <2>2 DEF Owners
<1> QED BY <1>1, <1>2

LEMMA CountedStep ==
  Setting /\ CallersTyped /\ StatesTyped /\ Owners /\ Counted /\ [Next]_vars => Counted'
<1> SUFFICES ASSUME Setting, CallersTyped, StatesTyped, Owners, Counted, [Next]_vars PROVE Counted'
  OBVIOUS
<1>1. ASSUME NEW c \in Caller, Ensure(c) PROVE Counted'
  <2> PICK p \in Plugin : p = on[c]
    BY <1>1, EnsureSteps
  <2>1. \A d \in Caller : d # c => pc'[d] = pc[d] /\ on'[d] = on[d]
    <3>1. ASSUME NEW ok, Answer(c, ok) PROVE \A d \in Caller : d # c => pc'[d] = pc[d] /\ on'[d] = on[d]
      BY <3>1, Answers
    <3> QED BY <1>1, <3>1, EnsureSteps DEF Goes, CallersTyped
  <2>2. on'[c] = p \/ pc'[c] # "describe"
    <3>1. ASSUME NEW ok, Answer(c, ok) PROVE pc'[c] # "describe"
      BY <3>1, Answers
    <3> QED BY <1>1, <3>1, EnsureSteps
  \* Nobody else describes a plugin once c has its mutex.
  <2>3. pc[c] \in {"ensure", "describe"} =>
           \A d \in Caller : pc[d] = "describe" /\ on[d] = p => d = c
    BY DEF Owners
  <2>4. pc[c] \in {"ensure", "describe"} =>
           /\ Starting(p) <=> pc[c] = "describe"
           /\ Starting(p)' <=> pc'[c] = "describe"
    BY <2>1, <2>2, <2>3 DEF Starting
  <2>5. \A q \in Plugin : q # p => (Starting(q)' <=> Starting(q))
    BY <2>1, <2>2 DEF Starting
  <2>6. pc[c] = "describe" => client[p] = "none"
    BY DEF Owners
  <2>7. procs[p] = (IF Starting(p) THEN 1 ELSE 0) + (IF client[p] = "live" THEN 1 ELSE 0)
    BY DEF Counted
  <2>8. ASSUME \A q \in Plugin : q # p => client'[q] = client[q] /\ procs'[q] = procs[q],
               procs'[p] = (IF Starting(p)' THEN 1 ELSE 0) + (IF client'[p] = "live" THEN 1 ELSE 0)
        PROVE  Counted'
    BY <2>5, <2>8 DEF Counted
  <2>9. CASE Lock(c)
    <3>1. /\ UNCHANGED <<client, procs, on>> /\ pc[c] = "lock" /\ pc'[c] = "ensure"
      BY <2>9 DEF Lock, Goes, states, CallersTyped
    <3>2. Starting(p)' <=> Starting(p)
      BY <2>1, <3>1 DEF Starting
    <3> QED BY <2>7, <2>8, <3>1, <3>2
  <2>10. CASE NoticeCrash(c)
    <3>1. /\ UNCHANGED <<pc, on, procs>> /\ pc[c] = "ensure" /\ client[p] = "dead"
          /\ client' = [client EXCEPT ![p] = "none"]
      BY <2>10 DEF NoticeCrash, callers
    <3>2. Starting(p)' <=> Starting(p)
      BY <3>1 DEF Starting
    <3> QED BY <2>7, <2>8, <3>1, <3>2 DEF StatesTyped
  <2>11. CASE Reuse(c) \/ BackOff(c)
    <3>1. UNCHANGED <<client, procs>> /\ pc[c] = "ensure" /\ \E ok : Answer(c, ok)
      BY <2>11 DEF Reuse, BackOff, states
    <3>2. pc'[c] # "describe"
      BY <3>1, Answers
    <3> QED BY <2>4, <2>7, <2>8, <3>1, <3>2
  <2>12. CASE Launch(c)
    <3>1. /\ UNCHANGED <<on, client>> /\ pc[c] = "ensure" /\ pc'[c] = "describe"
          /\ client[p] = "none" /\ procs' = [procs EXCEPT ![p] = @ + 1]
      BY <2>12 DEF Launch, Goes, CallersTyped
    <3> QED BY <2>4, <2>7, <2>8, <3>1 DEF StatesTyped
  <2>13. CASE Described(c)
    <3>1. /\ UNCHANGED procs /\ pc[c] = "describe" /\ client' = [client EXCEPT ![p] = "live"]
          /\ Answer(c, TRUE)
      BY <2>13 DEF Described
    <3>2. pc'[c] # "describe"
      BY <3>1, Answers
    <3> QED BY <2>4, <2>6, <2>7, <2>8, <3>1, <3>2 DEF StatesTyped
  <2>14. CASE LaunchFails(c)
    <3>1. /\ UNCHANGED client /\ pc[c] = "describe" /\ procs' = [procs EXCEPT ![p] = @ - 1]
          /\ Answer(c, FALSE)
      BY <2>14 DEF LaunchFails, Kill
    <3>2. pc'[c] # "describe"
      BY <3>1, Answers
    <3> QED BY <2>4, <2>6, <2>7, <2>8, <3>1, <3>2 DEF StatesTyped
  <2> QED BY <1>1, <2>9, <2>10, <2>11, <2>12, <2>13, <2>14 DEF Ensure
<1>2. ASSUME ~(\E c \in Caller : Ensure(c)) PROVE Counted'
  <2>1. \A c \in Caller :
           pc[c] \in {"ensure", "describe"} \/ pc'[c] \in {"ensure", "describe"}
              => pc'[c] = pc[c] /\ on'[c] = on[c]
    BY <1>2, OwnersFrame
  <2>2. \A p \in Plugin : Starting(p)' <=> Starting(p)
    BY <2>1 DEF Starting
  <2>3. CASE Shutdown
    <3> PICK p \in todo["main"] :
           /\ procs' = IF client[p] = "live" THEN [procs EXCEPT ![p] = @ - 1] ELSE procs
           /\ client' = [client EXCEPT ![p] = "none"]
      BY <2>3 DEF Shutdown
    <3>1. p \in Plugin
      BY DEF CallersTyped, Caller
    <3> QED BY <2>2, <3>1 DEF Counted, StatesTyped
  <2>4. CASE Crash
    <3> PICK p \in Plugin : /\ client[p] = "live" /\ client' = [client EXCEPT ![p] = "dead"]
                            /\ procs' = [procs EXCEPT ![p] = @ - 1]
      BY <2>4 DEF Crash
    <3> QED BY <2>2 DEF Counted, StatesTyped
  <2>5. ASSUME NEW c \in Caller, Visit(c) PROVE UNCHANGED <<client, procs>>
    BY <2>5 DEF Visit, states
  <2>6. (\/ List \/ SaveCache \/ Unlock \/ RunCommand \/ Discover \/ Close \/ Uninstall \/ Expire
         \/ Cool \/ UNCHANGED vars)
        => UNCHANGED <<client, procs>>
    BY DEF List, SaveCache, Unlock, RunCommand, Discover, Close, Uninstall, Expire, Cool, states, vars
  <2>7. CASE UNCHANGED <<client, procs>>
    BY <2>2, <2>7 DEF Counted
  <2> QED BY <1>2, <2>3, <2>4, <2>5, <2>6, <2>7 DEF Next, System, Environment
<1> QED BY <1>1, <1>2

-----------------------------------------------------------------------------
(* Names                                                                   *)

\* A plugin is asked at most once: it leaves what is to be done when it is visited, and
\* what has been heard from it is recorded when its visit ends.
LEMMA AskedStep ==
  Setting /\ CallersTyped /\ IndexTyped /\ Unheard /\ AskedOnce /\ [Next]_vars
     => Unheard' /\ AskedOnce'
<1> SUFFICES ASSUME Setting, CallersTyped, IndexTyped, Unheard, AskedOnce, [Next]_vars
             PROVE  Unheard' /\ AskedOnce'
  OBVIOUS
<1>1. CASE /\ pc["index"] \in Asking /\ on["index"] \in Plugin
           /\ \E cs \in SUBSET Name : SetCommands(on["index"], cs)
           /\ pc' = [pc EXCEPT !["index"] = "next"] /\ UNCHANGED todo
  <2>1. pc'["index"] = "next"
    BY <1>1 DEF CallersTyped, Caller
  <2>2. ASSUME NEW q \in Plugin, q # on["index"] PROVE specs'[q] = specs[q]
    BY <1>1, <2>2 DEF SetCommands, IndexTyped
  <2>3. on["index"] \notin todo["index"]
    BY <1>1 DEF AskedOnce
  <2> QED BY <1>1, <2>1, <2>2, <2>3 DEF Unheard, AskedOnce, Asking
<1>2. ASSUME UNCHANGED <<specs, byName>>,
             todo'["index"] \subseteq todo["index"],
             pc'["index"] \in Asking => pc["index"] \in Asking /\ on'["index"] = on["index"]
      PROVE  Unheard' /\ AskedOnce'
  BY <1>2 DEF Unheard, AskedOnce
<1>3. CASE UNCHANGED <<specs, byName>> /\ Visit("index")
  <2> PICK p \in todo["index"] : /\ todo' = [todo EXCEPT !["index"] = @ \ {p}]
                                 /\ on' = [on EXCEPT !["index"] = p]
    BY <1>3 DEF Visit
  <2>1. /\ todo'["index"] = todo["index"] \ {p} /\ on'["index"] = p /\ p \in Plugin
    BY DEF CallersTyped, Caller
  <2> QED BY <1>3, <2>1 DEF Unheard, AskedOnce
<1>4. ASSUME NEW c \in Caller, c # "index", Visit(c) PROVE Unheard' /\ AskedOnce'
  <2> PICK p : on' = [on EXCEPT ![c] = p]
    BY <1>4 DEF Visit
  <2>1. /\ todo'["index"] = todo["index"] /\ on'["index"] = on["index"] /\ pc'["index"] = pc["index"]
    BY <1>4 DEF Visit, Goes, CallersTyped, Caller
  <2> QED BY <1>2, <1>4, <2>1 DEF Visit, index
<1>5. ASSUME NEW c \in Caller, Ensure(c), UNCHANGED <<specs, byName>> PROVE Unheard' /\ AskedOnce'
  <2>1. UNCHANGED todo /\ pc[c] \in Asking
    BY <1>5, EnsureSteps
  <2>2. pc'["index"] \in Asking => pc["index"] \in Asking /\ on'["index"] = on["index"]
    <3>1. ASSUME NEW ok, Answer(c, ok)
          PROVE  pc'["index"] \in Asking => pc["index"] \in Asking /\ on'["index"] = on["index"]
      BY <3>1, Answers DEF Asking, Caller
    <3>2. ASSUME NEW to, Goes(c, to), UNCHANGED on
          PROVE  pc'["index"] \in Asking => pc["index"] \in Asking /\ on'["index"] = on["index"]
      BY <2>1, <3>2 DEF Goes, CallersTyped, Caller
    <3> QED BY <1>5, <3>1, <3>2, EnsureSteps
  <2> QED BY <1>2, <1>5, <2>1, <2>2
<1>6. ASSUME RunCommand PROVE Unheard' /\ AskedOnce'
  <2> PICK n : on' = [on EXCEPT !["main"] = byName[n]]
    BY <1>6 DEF RunCommand
  <2>1. /\ UNCHANGED todo /\ on'["index"] = on["index"] /\ pc'["index"] = pc["index"]
    BY <1>6 DEF RunCommand, Goes, CallersTyped, Caller
  <2> QED BY <1>2, <1>6, <2>1 DEF RunCommand, index
<1>7. ASSUME List \/ SaveCache \/ Unlock \/ Discover \/ Close PROVE Unheard' /\ AskedOnce'
  <2>1. todo'["index"] = todo["index"]
    BY <1>7 DEF List, SaveCache, Unlock, Discover, Close, CallersTyped, Caller
  <2>2. UNCHANGED <<specs, byName, on>>
    BY <1>7 DEF List, SaveCache, Unlock, Discover, Close, index
  <2>3. pc'["index"] \in Asking => pc["index"] \in Asking
    BY <1>7 DEF List, SaveCache, Unlock, Discover, Close, Goes, Asking, CallersTyped, Caller
  <2> QED BY <1>2, <2>1, <2>2, <2>3
<1>8. ASSUME Shutdown PROVE Unheard' /\ AskedOnce'
  <2> PICK p : todo' = [todo EXCEPT !["main"] = @ \ {p}]
    BY <1>8 DEF Shutdown
  <2>1. todo'["index"] = todo["index"]
    BY DEF CallersTyped, Caller
  <2> QED BY <1>2, <1>8, <2>1 DEF Shutdown, index
<1>9. ASSUME Uninstall \/ Crash \/ Cool \/ Expire \/ UNCHANGED vars PROVE Unheard' /\ AskedOnce'
  BY <1>2, <1>9 DEF Uninstall, Crash, Cool, Expire, callers, index, vars
<1> QED
  BY <1>1, <1>3, <1>4, <1>5, <1>6, <1>7, <1>8, <1>9, IndexFrame DEF Next, System, Environment

LEMMA NamesStep ==
  Setting /\ CallersTyped /\ IndexTyped /\ Unheard /\ NamesAreClaimed /\ [Next]_vars
     => NamesAreClaimed' /\ \A n \in Name : byName[n] # None => byName'[n] = byName[n]
<1> SUFFICES ASSUME Setting, CallersTyped, IndexTyped, Unheard, NamesAreClaimed, [Next]_vars
             PROVE  NamesAreClaimed' /\ \A n \in Name : byName[n] # None => byName'[n] = byName[n]
  OBVIOUS
<1>1. CASE /\ pc["index"] \in Asking /\ on["index"] \in Plugin
           /\ \E cs \in SUBSET Name : SetCommands(on["index"], cs)
  <2>1. specs[on["index"]] = Unasked
    BY <1>1 DEF Unheard
  <2> QED BY <1>1, <2>1, SetCommandsClaims
<1>2. CASE UNCHANGED <<specs, byName>>
  BY <1>2 DEF NamesAreClaimed
<1> QED BY <1>1, <1>2, IndexFrame

-----------------------------------------------------------------------------
(* Theorems                                                                *)

Hosted ==
  /\ CallersTyped /\ StatesTyped /\ IndexTyped
  /\ Owners /\ Counted /\ Unheard /\ AskedOnce /\ NamesAreClaimed

LEMMA HostedStarts == Setting /\ Init => Hosted
<1> SUFFICES ASSUME Setting, Init PROVE Hosted
  OBVIOUS
<1>1. CallersTyped
  <2>1. pc \in [Caller -> Asking \cup {"next", "list", "idle", "done", "discover", "close", "closed"}]
        /\ \A c \in Caller : pc[c] \notin Asking
    BY DEF Init, Asking
  <2>2. pc["index"] = "next" /\ pc["warm"] = "list"
    BY DEF Init, Caller
  <2> QED BY <2>1, <2>2 DEF Init, CallersTyped, Setting
<1>2. StatesTyped
  BY DEF Init, StatesTyped
<1>3. IndexTyped
  BY DEF Init, IndexTyped, Setting
<1>4. \A c \in Caller : pc[c] \notin Asking
  BY DEF Init, Asking
<1>5. Owners
  BY <1>4 DEF Init, Owners, Asking, Nobody, Caller
<1>6. Counted
  BY <1>4 DEF Init, Counted, Starting, Asking
<1>7. Unheard /\ AskedOnce
  BY <1>4 DEF Init, Unheard, AskedOnce, Caller
<1>8. NamesAreClaimed
  <2> SUFFICES ASSUME NEW n \in Name
               PROVE  IF n \in Reserved \/ {p \in Plugin : n \in specs[p]} = {} THEN byName[n] = None
                      ELSE byName[n] \in {p \in Plugin : n \in specs[p]}
    BY DEF NamesAreClaimed
  <2>1. {p \in Plugin : n \in specs[p]} = {p \in Cached : n \in Offers[p]}
    BY DEF Init, Setting
  <2> QED BY <2>1 DEF Init
<1> QED BY <1>1, <1>2, <1>3, <1>5, <1>6, <1>7, <1>8 DEF Hosted

LEMMA HostedStep == Setting /\ Hosted /\ [Next]_vars => Hosted'
BY CallersStep, StatesStep, IndexStep, OwnersStep, CountedStep, AskedStep, NamesStep DEF Hosted

LEMMA HostedKept == ASSUME Setting PROVE Spec => []Hosted
<1>1. Init => Hosted
  BY HostedStarts
<1>2. Hosted /\ [Next]_vars => Hosted'
  BY HostedStep
<1> QED BY <1>1, <1>2, PTL DEF Spec

\* pluginState.ensure, and whoever shuts a plugin down: no plugin has two processes, and
\* every process there is is the client of its plugin or about to be, whoever asks for
\* the plugin at the same time and however its launches and its process fail.
THEOREM OneProcessEach == ASSUME Setting PROVE Spec => []ProcessesInHand
<1>1. Hosted => ProcessesInHand
  <2> SUFFICES ASSUME Hosted, NEW p \in Plugin
               PROVE  /\ procs[p] = Cardinality({c \in Caller : pc[c] = "describe" /\ on[c] = p})
                                    + (IF client[p] = "live" THEN 1 ELSE 0)
                      /\ procs[p] <= 1
    BY DEF ProcessesInHand, EveryProcessIsHeld, OneProcess
  <2> DEFINE S == {c \in Caller : pc[c] = "describe" /\ on[c] = p}
  <2>1. procs[p] = (IF Starting(p) THEN 1 ELSE 0) + (IF client[p] = "live" THEN 1 ELSE 0)
    BY DEF Hosted, Counted
  <2>2. CASE Starting(p)
    <3> PICK c \in Caller : pc[c] = "describe" /\ on[c] = p
      BY <2>2 DEF Starting
    <3>1. S = {c}
      BY DEF Hosted, Owners
    <3>2. client[p] = "none"
      BY DEF Hosted, Owners
    <3>3. Cardinality(S) = 1
      BY <3>1, FS_Singleton
    <3> QED BY <2>1, <2>2, <3>2, <3>3
  <2>3. CASE ~Starting(p)
    <3>1. S = {}
      BY <2>3 DEF Starting
    <3>2. Cardinality(S) = 0
      BY <3>1, FS_EmptySet
    <3> QED BY <2>1, <2>3, <3>2
  <2> QED BY <2>2, <2>3
<1> QED BY <1>1, HostedKept, PTL

\* CommandIndex.setCommands: the index is whole after every answer, and a name that has an
\* owner keeps it, whatever is offered by the plugins that answer later.
THEOREM OwnersKeepTheirNames == ASSUME Setting PROVE Spec => NamesKeepTheirOwner
<1>1. Hosted => NamesAreClaimed
  BY DEF Hosted
<1>2. Hosted /\ [Next]_vars => [\A n \in Name : byName[n] # None => byName'[n] = byName[n]]_vars
  BY NamesStep DEF Hosted
<1> QED BY <1>1, <1>2, HostedKept, PTL DEF Spec, NamesKeepTheirOwner
=============================================================================
