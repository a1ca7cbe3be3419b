---------------------------- MODULE Resident_proofs ----------------------------
(* Proofs about Resident for any servers, shims and CLIs and any number of     *)
(* deaths.                                                                     *)
EXTENDS Resident, TLAPS

\* A listener is open from its listen(2) to its close.
Listeners == listening = {s \in Servers : srv[s] \in {"perms", "boot", "serve", "leave", "close"}}

\* The name is the socket of a server that has bound it and not removed it, or of one
\* that was killed.
NameOwned ==
  path # NoServer =>
    srv[path] \in {"listen", "perms", "boot", "serve", "leave", "clean"}
                    \union (IF deaths = 0 THEN {} ELSE {"gone"})

\* Before a departure and a hasty probe, nobody has found a leftover, the name goes
\* to the first to bind it, and whoever lost the race finds it there.
FirstOwns ==
  Departed = {} /\ ~hasty =>
    /\ \A s \in Servers : srv[s] \notin {"unlink", "rebind"}
    /\ \A s \in Claimed : path = s
    /\ path # NoServer => path \in Claimed
    /\ \A s \in Servers : srv[s] = "probe" => path # NoServer

OwnerInv == TypeOK /\ Listeners /\ NameOwned /\ FirstOwns
-----------------------------------------------------------------------------
LEMMA InitOK == Init => OwnerInv
<1> SUFFICES ASSUME Init PROVE OwnerInv
  OBVIOUS
<1> USE DEF Init
<1>1. TypeOK
  <2>1. deaths \in 0 .. MaxDeaths  BY ResidentAssumption
  <2>2. srv \in [Servers -> SrvStates] /\ cli \in [Clients -> CliStates]
    BY DEF SrvStates, CliStates
  <2>3. wait \in [Servers -> {"sleep", "notify"}]  OBVIOUS
  <2>4. permit \in [Servers -> BOOLEAN] /\ quiet \in [Servers -> BOOLEAN] /\ hasty \in BOOLEAN
    OBVIOUS
  <2>5. /\ backlog \in [Servers -> SUBSET (Clients \union Servers)]
        /\ conns \in [Servers -> SUBSET (Clients \union Servers)]
    OBVIOUS
  <2> QED  BY <2>1, <2>2, <2>3, <2>4, <2>5 DEF TypeOK
<1>2. \A s \in Servers : srv[s] = "unborn"  OBVIOUS
<1>3. Listeners  BY <1>2 DEF Listeners
<1>4. NameOwned  BY DEF NameOwned
<1>5. FirstOwns  BY <1>2 DEF FirstOwns, Claimed
<1> QED  BY <1>1, <1>3, <1>4, <1>5 DEF OwnerInv

\* Connections, and what the serve loop waits on, say nothing of the name.
LEMMA NameUntouched ==
  ASSUME OwnerInv, TypeOK', UNCHANGED <<path, srv, listening, deaths, hasty>>
  PROVE  OwnerInv'
BY DEF OwnerInv, Listeners, NameOwned, FirstOwns, Claimed, Departed

LEMMA TypeStep == ASSUME TypeOK, [Next]_vars PROVE TypeOK'
<1> USE DEF TypeOK, SrvStates, CliStates, loopVars
<1>1. CASE UNCHANGED vars  BY <1>1 DEF vars
<1>2. ASSUME NEW s \in Servers, Bind(s) \/ Listen(s) \/ Unlink(s) \/ Rebind(s) \/ Boot(s) \/ BootFails(s)
      PROVE  TypeOK'
  BY <1>2 DEF Bind, Listen, Unlink, Rebind, Boot, BootFails, BindAt
<1>3. ASSUME NEW s \in Servers, Probe(s) PROVE TypeOK'
  <2>1. CASE Reachable
    <3>1. path \in Servers  BY <2>1 DEF Reachable
    <3> QED  BY <1>3, <2>1, <3>1 DEF Probe
  <2>2. CASE ~Reachable  BY <1>3, <2>2 DEF Probe
  <2> QED  BY <2>1, <2>2
<1>4. ASSUME NEW s \in Servers, Perms(s) \/ BootClose(s) \/ Leave(s) PROVE TypeOK'
  BY <1>4 DEF Perms, BootClose, Leave, CloseListener
<1>5. ASSUME NEW s \in Servers, Accept(s) \/ ConnEnds(s) PROVE TypeOK'
  <2>1. CASE Accept(s)  BY <2>1 DEF Accept, LoopTop
  <2>2. CASE ConnEnds(s)
    <3>1. PICK c \in conns[s] :
            /\ conns' = [conns EXCEPT ![s] = @ \ {c}]
            /\ permit' = [permit EXCEPT ![s] = @ \/ conns[s] = {c}]
      BY <2>2 DEF ConnEnds
    <3>2. permit' \in [Servers -> BOOLEAN]
      <4> DEFINE woken == permit[s] \/ conns[s] = {c}
      <4>1. woken \in BOOLEAN  OBVIOUS
      <4>2. permit' = [permit EXCEPT ![s] = woken]  BY <3>1
      <4> HIDE DEF woken
      <4> QED  BY <4>1, <4>2
    <3>3. conns' \in [Servers -> SUBSET (Clients \union Servers)]  BY <3>1
    <3> QED  BY <2>2, <3>2, <3>3 DEF ConnEnds
  <2> QED  BY <1>5, <2>1, <2>2
<1>6. ASSUME NEW s \in Servers, IdleTime(s) \/ IdleFires(s) PROVE TypeOK'
  BY <1>6 DEF IdleTime, IdleFires
<1>7. ASSUME NEW s \in Servers, Shutdown(s) \/ Clean(s) \/ Kill(s) PROVE TypeOK'
  <2>1. deaths < MaxDeaths => deaths + 1 \in 0 .. MaxDeaths  BY ResidentAssumption
  <2> QED  BY <1>7, <2>1 DEF Shutdown, Clean, Kill, Hangup
<1>8. ASSUME NEW c \in Clients, Connect(c) \/ Spawn(c) \/ Poll(c) \/ NotReady(c) \/ Close(c)
      PROVE  TypeOK'
  <2>1. CASE Connects(c)
    <3>1. path \in Servers  BY <2>1 DEF Connects, Reachable
    <3> QED  BY <2>1, <3>1 DEF Connects
  <2>2. CASE ~Connects(c)
    BY <1>8, <2>2 DEF Connect, Spawn, Poll, NotReady, Close, GiveUp
  <2> QED  BY <2>1, <2>2
<1> QED  BY <1>1, <1>2, <1>3, <1>4, <1>5, <1>6, <1>7, <1>8 DEF Next, ServerStep, ClientStep

-----------------------------------------------------------------------------
(* The steps that move a server, the name or a listener.                       *)

LEMMA BindsOK ==
  ASSUME OwnerInv, TypeOK', NEW s \in Servers, Bind(s) \/ Rebind(s)
  PROVE  OwnerInv'
<1> USE DEF OwnerInv
<1>1. PICK busy \in {"probe", "refused"} :
        /\ BindAt(s, "listen", busy)
        /\ srv[s] \in {"bind", "rebind"} /\ (busy = "refused" => srv[s] = "rebind")
        /\ UNCHANGED <<listening, deaths, hasty>>
  BY DEF Bind, Rebind
<1>2. CASE path = NoServer
  <2>1. path' = s /\ srv' = [srv EXCEPT ![s] = "listen"]  BY <1>1, <1>2 DEF BindAt
  <2>2. Listeners'  BY <1>1, <2>1 DEF Listeners, TypeOK
  <2>3. NameOwned'  BY <1>1, <2>1 DEF NameOwned, TypeOK
  <2>4. FirstOwns'
    <3>1. Departed' = Departed  BY <1>1, <2>1 DEF Departed, TypeOK
    <3>2. Claimed' = Claimed \union {s}  BY <2>1 DEF Claimed, TypeOK
    <3>3. path' # NoServer  BY <2>1, ResidentAssumption
    <3>4. Departed = {} /\ ~hasty => Claimed = {}
      BY <1>2, ResidentAssumption DEF FirstOwns, Claimed
    <3> QED  BY <1>1, <2>1, <3>1, <3>2, <3>3, <3>4 DEF FirstOwns, TypeOK
  <2> QED  BY <2>2, <2>3, <2>4
<1>3. CASE path # NoServer
  <2>1. path' = path /\ srv' = [srv EXCEPT ![s] = busy]  BY <1>1, <1>3 DEF BindAt
  <2>2. Listeners'  BY <1>1, <2>1 DEF Listeners, TypeOK
  <2>3. path # s  BY <1>1, <1>3 DEF NameOwned
  <2>4. NameOwned'  BY <1>1, <2>1, <2>3 DEF NameOwned, TypeOK
  <2>5. FirstOwns'
    <3>1. Departed' = Departed /\ Claimed' = Claimed
      BY <1>1, <2>1 DEF Departed, Claimed, TypeOK
    <3> QED  BY <1>1, <1>3, <2>1, <3>1 DEF FirstOwns, TypeOK
  <2> QED  BY <2>2, <2>4, <2>5
<1> QED  BY <1>2, <1>3

\* A probe takes a name for a leftover only when it hit a socket between its bind
\* and its listen, or when somebody had departed.
LEMMA ProbeOK ==
  ASSUME OwnerInv, TypeOK', NEW s \in Servers, Probe(s)
  PROVE  OwnerInv'
<1> USE DEF OwnerInv
<1>1. /\ srv[s] = "probe" /\ UNCHANGED <<path, listening, deaths>>
      /\ srv' = [srv EXCEPT ![s] = IF Reachable THEN "refused" ELSE "unlink"]
      /\ Reachable => hasty' = hasty
      /\ ~Reachable => hasty' = (hasty \/ \E t \in Servers : path = t /\ srv[t] = "listen")
  BY DEF Probe
<1>2. Listeners'  BY <1>1 DEF Listeners, TypeOK
<1>3. path # s  BY <1>1, ResidentAssumption DEF NameOwned
<1>4. NameOwned'  BY <1>1, <1>3 DEF NameOwned, TypeOK
<1>5. Departed' = Departed /\ Claimed' = Claimed  BY <1>1 DEF Departed, Claimed, TypeOK
<1>6. ASSUME Departed = {}, ~hasty' PROVE Reachable
  <2>1. ~hasty  BY <1>1, <1>6
  <2>2. path # NoServer /\ path \in Claimed  BY <1>1, <1>6, <2>1 DEF FirstOwns
  <2>3. srv[path] # "listen" \/ Reachable  BY <1>1, <1>6, <2>2 DEF Claimed
  <2> QED  BY <2>2, <2>3 DEF Claimed, Listeners, Reachable
<1>7. FirstOwns'
  <2> SUFFICES ASSUME Departed = {}, ~hasty'
               PROVE  /\ \A t \in Servers : srv'[t] \notin {"unlink", "rebind"}
                      /\ \A t \in Claimed : path = t
                      /\ path # NoServer => path \in Claimed
                      /\ \A t \in Servers : srv'[t] = "probe" => path # NoServer
    BY <1>1, <1>5 DEF FirstOwns
  <2>1. ~hasty /\ srv' = [srv EXCEPT ![s] = "refused"]  BY <1>1, <1>6
  <2> QED  BY <2>1 DEF FirstOwns, TypeOK
<1> QED  BY <1>2, <1>4, <1>7

\* A start goes on: the name stays with whoever has it.
LEMMA GoesOnOK ==
  ASSUME OwnerInv, TypeOK', NEW s \in Servers, Listen(s) \/ Boot(s) \/ (Perms(s) /\ path # NoServer)
  PROVE  OwnerInv'
<1> USE DEF OwnerInv
<1>1. PICK from \in {"listen", "perms", "boot"}, to \in {"perms", "boot", "serve"} :
        /\ srv[s] = from /\ srv' = [srv EXCEPT ![s] = to]
        /\ UNCHANGED <<path, deaths, hasty>>
        /\ listening' = IF from = "listen" THEN listening \union {s} ELSE listening
  BY DEF Listen, Boot, Perms
<1>2. Listeners'  BY <1>1 DEF Listeners, TypeOK
<1>3. NameOwned'  BY <1>1 DEF NameOwned, TypeOK
<1>4. Departed' = Departed /\ Claimed' = Claimed  BY <1>1 DEF Departed, Claimed, TypeOK
<1>5. FirstOwns'  BY <1>1, <1>4 DEF FirstOwns, TypeOK
<1> QED  BY <1>2, <1>3, <1>5

\* After a departure nothing is said of who claims: only the name and the listeners count.
LEMMA DepartsOK ==
  ASSUME OwnerInv, TypeOK', Departed' # {}, Listeners', NameOwned'
  PROVE  OwnerInv'
BY DEF OwnerInv, FirstOwns

\* Whoever leaves removes the name or never had it.

LEMMA LeavesOK ==
  ASSUME OwnerInv, TypeOK', NEW s \in Servers,
         \/ Perms(s) /\ path = NoServer
         \/ BootFails(s)
         \/ BootClose(s)
         \/ IdleFires(s) /\ conns[s] = {}
         \/ Shutdown(s)
         \/ Leave(s)
         \/ Clean(s)
         \/ Kill(s)
  PROVE  OwnerInv'
<1> USE DEF OwnerInv
<1> DEFINE To(to) ==
      /\ srv' = [srv EXCEPT ![s] = to]
      /\ IF to \in {"leave", "close"} THEN listening' = listening /\ srv[s] \in {"serve", "boot"}
         ELSE listening' = listening \ {s}
<1>1. PICK to \in {"leave", "clean", "close", "gone"} : To(to)
  <2>1. CASE (Perms(s) /\ path = NoServer) \/ BootClose(s) \/ Kill(s)
    <3>1. To("gone")  BY <2>1 DEF Perms, BootClose, Kill, CloseListener
    <3> QED  BY <3>1
  <2>2. CASE BootFails(s)
    <3>1. To("close")  BY <2>2 DEF BootFails
    <3> QED  BY <3>1
  <2>3. CASE (IdleFires(s) /\ conns[s] = {}) \/ Shutdown(s)
    <3>1. To("leave")  BY <2>3 DEF IdleFires, Shutdown
    <3> QED  BY <3>1
  <2>4. CASE Leave(s) \/ Clean(s)
    <3>1. To("clean") \/ To("gone")
      <4>1. CASE Leave(s)  BY <4>1 DEF Leave, CloseListener
      <4>2. CASE Clean(s)
        <5>1. s \notin listening  BY <4>2 DEF Clean, Listeners
        <5> QED  BY <4>2, <5>1 DEF Clean
      <4> QED  BY <2>4, <4>1, <4>2
    <3> QED  BY <3>1
  <2> QED  BY <2>1, <2>2, <2>3, <2>4
<1>2. Departed' # {}
  <2>1. s \in Departed'  BY <1>1 DEF Departed, TypeOK
  <2> QED  BY <2>1
<1>4. Listeners'  BY <1>1 DEF Listeners, TypeOK
<1>5. NameOwned'
  <2>1. CASE Kill(s)
    <3>1. deaths' # 0 /\ path' = path  BY <2>1 DEF Kill, TypeOK
    <3>2. to = "gone"  BY <1>1, <2>1 DEF Kill, TypeOK
    <3> QED  BY <1>1, <3>1, <3>2 DEF NameOwned, TypeOK
  <2>2. CASE path' = NoServer  BY <2>2 DEF NameOwned
  <2>3. CASE BootClose(s)
    <3>1. path' = path /\ path # s /\ deaths' = deaths
      BY <2>3, ResidentAssumption DEF BootClose, NameOwned
    <3> QED  BY <1>1, <3>1 DEF NameOwned, TypeOK
  <2>4. CASE Leave(s) \/ Shutdown(s) \/ (IdleFires(s) /\ conns[s] = {})
    <3>1. path' = path /\ srv'[s] \in {"leave", "clean"} /\ deaths \in Nat
      BY <2>4, ResidentAssumption DEF Leave, Shutdown, IdleFires, TypeOK
    <3>2. deaths' = deaths \/ deaths' = deaths + 1  BY <2>4 DEF Leave, Shutdown, IdleFires
    <3> QED  BY <1>1, <3>1, <3>2 DEF NameOwned, TypeOK
  <2>5. \/ Perms(s) /\ path = NoServer
        \/ BootFails(s)
        \/ Clean(s)
        => path' = NoServer
    BY DEF Perms, BootFails, Clean
  <2> QED  BY <2>1, <2>2, <2>3, <2>4, <2>5
<1> QED  BY <1>2, <1>4, <1>5, DepartsOK

\* The name of a leftover is removed, whosever it has become by then.
LEMMA UnlinkOK ==
  ASSUME OwnerInv, TypeOK', NEW s \in Servers, Unlink(s)
  PROVE  OwnerInv'
<1> USE DEF OwnerInv
<1>1. PICK to \in {"refused", "rebind"} :
        srv[s] = "unlink" /\ srv' = [srv EXCEPT ![s] = to] /\ path' = NoServer
  BY DEF Unlink
<1>2. UNCHANGED <<listening, deaths, hasty>>  BY DEF Unlink
<1>3. Listeners'  BY <1>1, <1>2 DEF Listeners, TypeOK
<1>4. NameOwned'  BY <1>1 DEF NameOwned
<1>5. Departed' = Departed  BY <1>1 DEF Departed, TypeOK
<1>6. FirstOwns'  BY <1>1, <1>2, <1>5 DEF FirstOwns
<1> QED  BY <1>3, <1>4, <1>6

\* A client that spawns a server starts it; nothing else of a client's touches one.
LEMMA ClientOK ==
  ASSUME OwnerInv, TypeOK', NEW c \in Clients, ClientStep(c) \/ Close(c)
  PROVE  OwnerInv'
<1> USE DEF OwnerInv
<1>1. CASE Spawn(c)
  <2>1. CASE srv' = srv
    <3>1. UNCHANGED <<path, srv, listening, deaths, hasty>>  BY <1>1, <2>1 DEF Spawn
    <3> QED  BY <3>1, NameUntouched
  <2>2. CASE srv' # srv
    <3>1. PICK s \in Servers : srv[s] = "unborn" /\ srv' = [srv EXCEPT ![s] = "bind"]
      BY <1>1, <2>2 DEF Spawn
    <3>2. UNCHANGED <<path, listening, deaths, hasty>>  BY <1>1 DEF Spawn
    <3>3. Listeners'  BY <3>1, <3>2 DEF Listeners, TypeOK
    <3>4. path # s  BY <3>1, ResidentAssumption DEF NameOwned
    <3>5. NameOwned'  BY <3>1, <3>2, <3>4 DEF NameOwned, TypeOK
    <3>6. Departed' = Departed /\ Claimed' = Claimed  BY <3>1 DEF Departed, Claimed, TypeOK
    <3>7. FirstOwns'  BY <3>1, <3>2, <3>6 DEF FirstOwns, TypeOK
    <3> QED  BY <3>3, <3>5, <3>7
  <2> QED  BY <2>1, <2>2
<1>2. CASE ~Spawn(c)
  <2>1. UNCHANGED <<path, srv, listening, deaths, hasty>>
    BY <1>2 DEF ClientStep, Connect, Connects, Poll, NotReady, Close
  <2> QED  BY <2>1, NameUntouched
<1> QED  BY <1>1, <1>2

LEMMA StepOK == ASSUME OwnerInv, [Next]_vars PROVE OwnerInv'
<1>1. TypeOK'  BY TypeStep DEF OwnerInv
<1>2. ASSUME NEW s \in Servers, ServerStep(s) \/ Shutdown(s) \/ Kill(s) PROVE OwnerInv'
  <2>1. CASE Accept(s) \/ ConnEnds(s) \/ IdleTime(s) \/ (IdleFires(s) /\ conns[s] # {})
    <3>1. UNCHANGED <<path, srv, listening, deaths, hasty>>
      <4>1. CASE Accept(s) \/ ConnEnds(s) \/ IdleTime(s)  BY <4>1 DEF Accept, ConnEnds, IdleTime
      <4>2. CASE IdleFires(s) /\ conns[s] # {}
        <5>1. srv[s] = "serve" /\ srv' = [srv EXCEPT ![s] = "serve"]  BY <4>2 DEF IdleFires
        <5>2. srv' = srv  BY <5>1 DEF OwnerInv, TypeOK
        <5> QED  BY <4>2, <5>2 DEF IdleFires
      <4> QED  BY <2>1, <4>1, <4>2
    <3> QED  BY <1>1, <3>1, NameUntouched
  <2>2. CASE Bind(s) \/ Rebind(s)  BY <1>1, <2>2, BindsOK
  <2>3. CASE Probe(s)  BY <1>1, <2>3, ProbeOK
  <2>4. CASE Unlink(s)  BY <1>1, <2>4, UnlinkOK
  <2>5. CASE Listen(s) \/ Boot(s) \/ (Perms(s) /\ path # NoServer)  BY <1>1, <2>5, GoesOnOK
  <2> QED  BY <1>1, <1>2, <2>1, <2>2, <2>3, <2>4, <2>5, LeavesOK DEF ServerStep
<1>3. ASSUME NEW c \in Clients, ClientStep(c) \/ Close(c) PROVE OwnerInv'
  BY <1>1, <1>3, ClientOK
<1>4. CASE UNCHANGED vars
  <2>1. UNCHANGED <<path, srv, listening, deaths, hasty>>  BY <1>4 DEF vars
  <2> QED  BY <1>1, <2>1, NameUntouched
<1> QED  BY <1>2, <1>3, <1>4 DEF Next

-----------------------------------------------------------------------------
(* The theorems.                                                               *)

\* The type, who listens, whose the name may be, and who has claimed it.
THEOREM OwnerInvariance == Spec => []OwnerInv
<1>1. Init => OwnerInv  BY InitOK
<1>2. OwnerInv /\ [Next]_vars => OwnerInv'  BY StepOK
<1> QED  BY <1>1, <1>2, PTL DEF Spec

\* However many processes start at once: until one departs, and unless a probe hits a
\* socket between its bind and its listen, the name is that of the only server that has
\* claimed it; and unless a process is killed, the name is not that of an ended one
\* (socket.rs bind_or_probe, PidfileGuard).
THEOREM OneOwnerAtATime == Spec => []OneOwner
<1>1. OwnerInv => OneOwner
  BY DEF OwnerInv, FirstOwns, NameOwned, OneOwner
<1> QED  BY <1>1, OwnerInvariance, PTL
===============================================================================
