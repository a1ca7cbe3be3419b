------------------------------- MODULE Resident -------------------------------
(* One resident daemon per database: the processes that start as `--serve`,   *)
(* claim a Unix socket by its name in the file system, serve and leave        *)
(* (daemon/src/socket.rs, serve.rs, Daemon::run_serve), and the shims that     *)
(* attach to the daemon, start one when none listens, and fall back to serving *)
(* in process (shim.rs, sync_cli.rs). Every access to the file system, every   *)
(* await and every process exit is a step, because starters are processes of   *)
(* their own. A connection is named by the process that made it.              *)
EXTENDS Naturals, FiniteSets

CONSTANTS Servers,      \* processes that may be started with --serve, each once
          Shims,        \* processes that Claude Code starts without arguments
          Cli,          \* processes started with --sync
          NoServer,
          MaxDeaths     \* bound on SIGKILLs and SIGTERMs

ASSUME ResidentAssumption ==
  /\ Shims \intersect Cli = {}
  /\ Servers \intersect (Shims \union Cli) = {}
  /\ NoServer \notin Servers
  /\ MaxDeaths \in Nat

Clients == Shims \union Cli

VARIABLES path,       \* whose socket the file run/nomai.sock is
          srv,        \* where each server process is
          listening,  \* the servers whose listener is open
          backlog,    \* connections the kernel has queued on a listener
          conns,      \* connections accepted and not ended (`active` is their number)
          wait,       \* what the serve loop sleeps on, from `active` as read at its top
          permit,     \* a stored idle_notify
          quiet,      \* idle_timeout has passed since the last connection ended
          cli,        \* where each shim or CLI is
          deaths,
          hasty       \* a probe has hit a socket between its bind and its listen

vars == <<path, srv, listening, backlog, conns, wait, permit, quiet, cli, deaths, hasty>>

SrvStates == {"unborn", "bind", "listen", "probe", "unlink", "rebind", "perms", "boot",
              "serve", "leave", "clean", "close", "gone", "refused"}
CliStates == {"start", "spawn", "poll", "attached", "stdio", "cut", "done"}

TypeOK ==
  /\ path \in Servers \union {NoServer}
  /\ srv \in [Servers -> SrvStates]
  /\ listening \subseteq Servers
  /\ backlog \in [Servers -> SUBSET (Clients \union Servers)]
  /\ conns \in [Servers -> SUBSET (Clients \union Servers)]
  /\ wait \in [Servers -> {"sleep", "notify"}]
  /\ permit \in [Servers -> BOOLEAN]
  /\ quiet \in [Servers -> BOOLEAN]
  /\ cli \in [Clients -> CliStates]
  /\ deaths \in 0..MaxDeaths
  /\ hasty \in BOOLEAN

Init ==
  /\ path = NoServer
  /\ srv = [s \in Servers |-> "unborn"]
  /\ listening = {}
  /\ backlog = [s \in Servers |-> {}]
  /\ conns = [s \in Servers |-> {}]
  /\ wait = [s \in Servers |-> "sleep"]
  /\ permit = [s \in Servers |-> FALSE]
  /\ quiet = [s \in Servers |-> FALSE]
  /\ cli = [c \in Clients |-> "start"]
  /\ deaths = 0
  /\ hasty = FALSE

loopVars == <<wait, permit, quiet>>
-----------------------------------------------------------------------------
(* The socket file. connect reaches a process only while its listener is open  *)
(* and the file still is that process's socket.                               *)
Reachable == path \in listening

\* The bind(2) of UnixListener::bind: creates the file, or fails with EADDRINUSE.
BindAt(s, ok, busy) ==
  IF path = NoServer
  THEN path' = s /\ srv' = [srv EXCEPT ![s] = ok]
  ELSE srv' = [srv EXCEPT ![s] = busy] /\ UNCHANGED path

\* The sockets of s close: whoever hangs on them reads EOF.
Hangup(s) == cli' = [c \in Clients |-> IF c \in backlog[s] \union conns[s] /\ cli[c] = "attached"
                                       THEN "cut" ELSE cli[c]]

\* A listener that closes takes with it the connections it has not accepted.
CloseListener(s) ==
  /\ listening' = listening \ {s}
  /\ backlog' = [backlog EXCEPT ![s] = {}]
  /\ cli' = [c \in Clients |-> IF c \in backlog[s] /\ cli[c] = "attached"
                               THEN "cut" ELSE cli[c]]
-----------------------------------------------------------------------------
(* serve::run up to the serve loop.                                           *)
Bind(s) ==
  /\ srv[s] = "bind"
  /\ BindAt(s, "listen", "probe")
  /\ UNCHANGED <<listening, backlog, conns, loopVars, cli, deaths, hasty>>

\* Its listen(2): until then a connect to the file is refused.
Listen(s) ==
  /\ srv[s] = "listen"
  /\ srv' = [srv EXCEPT ![s] = "perms"]
  /\ listening' = listening \union {s}
  /\ UNCHANGED <<path, backlog, conns, loopVars, cli, deaths, hasty>>

\* Slip: EADDRINUSE is taken for a leftover without a connect.
ProbeNothing(s) ==
  /\ srv[s] = "probe"
  /\ srv' = [srv EXCEPT ![s] = "unlink"]
  /\ UNCHANGED <<path, listening, backlog, conns, loopVars, cli, deaths, hasty>>

\* connect succeeds: AlreadyRunning. The stream is dropped at once, so the live
\* daemon finds one more connection in its backlog, already at EOF.
Probe(s) ==
  /\ srv[s] = "probe"
  /\ IF Reachable
     THEN /\ srv' = [srv EXCEPT ![s] = "refused"]
          /\ backlog' = [backlog EXCEPT ![path] = @ \union {s}]
          /\ UNCHANGED hasty
     ELSE /\ srv' = [srv EXCEPT ![s] = "unlink"]
          /\ hasty' = (hasty \/ \E t \in Servers : path = t /\ srv[t] = "listen")
          /\ UNCHANGED backlog
  /\ UNCHANGED <<path, listening, conns, loopVars, cli, deaths>>

\* remove_file on the name, whosever it has become; it fails if there is none.
Unlink(s) ==
  /\ srv[s] = "unlink"
  /\ srv' = [srv EXCEPT ![s] = IF path = NoServer THEN "refused" ELSE "rebind"]
  /\ path' = NoServer
  /\ UNCHANGED <<listening, backlog, conns, loopVars, cli, deaths, hasty>>

Rebind(s) ==
  /\ srv[s] = "rebind"
  /\ BindAt(s, "listen", "refused")
  /\ UNCHANGED <<listening, backlog, conns, loopVars, cli, deaths, hasty>>

\* restrict_perms works on the name: it fails when the name is gone, and the
\* listener just bound is dropped, with the name left to whoever has it.
Perms(s) ==
  /\ srv[s] = "perms"
  /\ IF path = NoServer
     THEN /\ srv' = [srv EXCEPT ![s] = "gone"]
          /\ CloseListener(s)
     ELSE /\ srv' = [srv EXCEPT ![s] = "boot"]
          /\ UNCHANGED <<listening, backlog, cli>>
  /\ UNCHANGED <<path, conns, loopVars, deaths, hasty>>

\* Daemon::new opens the database, migrates it and syncs the index.
Boot(s) ==
  /\ srv[s] = "boot"
  /\ srv' = [srv EXCEPT ![s] = "serve"]
  /\ UNCHANGED <<path, listening, backlog, conns, loopVars, cli, deaths, hasty>>

\* Daemon::new fails: PidfileGuard removes the name first and the listener,
\* declared before it, is dropped after it.
BootFails(s) ==
  /\ srv[s] = "boot"
  /\ srv' = [srv EXCEPT ![s] = "close"]
  /\ path' = NoServer
  /\ UNCHANGED <<listening, backlog, conns, loopVars, cli, deaths, hasty>>

BootClose(s) ==
  /\ srv[s] = "close"
  /\ srv' = [srv EXCEPT ![s] = "gone"]
  /\ CloseListener(s)
  /\ UNCHANGED <<path, conns, loopVars, deaths, hasty>>
-----------------------------------------------------------------------------
(* Daemon::run_serve: a biased select over shutdown, accept and idleness. The  *)
(* runtime has one thread, so the loop's top (active, then what to wait on) is *)
(* one step with what led to it; connections arrive from other processes.      *)
LoopTop(s) == wait' = [wait EXCEPT ![s] = IF conns'[s] = {} THEN "sleep" ELSE "notify"]

Accept(s) ==
  /\ srv[s] = "serve"
  /\ \E c \in backlog[s] :
       /\ backlog' = [backlog EXCEPT ![s] = @ \ {c}]
       /\ conns' = [conns EXCEPT ![s] = @ \union {c}]
  /\ LoopTop(s)
  /\ quiet' = [quiet EXCEPT ![s] = FALSE]
  /\ UNCHANGED <<path, srv, listening, permit, cli, deaths, hasty>>

\* handle_conn reads EOF and ends: the last one to end wakes the loop.
AtEof(c) == c \in Clients => cli[c] = "done"

ConnEnds(s) ==
  /\ srv[s] = "serve"
  /\ \E c \in conns[s] :
       /\ AtEof(c)
       /\ conns' = [conns EXCEPT ![s] = @ \ {c}]
       /\ permit' = [permit EXCEPT ![s] = @ \/ conns[s] = {c}]
  /\ quiet' = [quiet EXCEPT ![s] = FALSE]
  /\ UNCHANGED <<path, srv, listening, backlog, wait, cli, deaths, hasty>>

\* idle_timeout passes with no connection.
IdleTime(s) ==
  /\ srv[s] = "serve"
  /\ conns[s] = {}
  /\ ~quiet[s]
  /\ quiet' = [quiet EXCEPT ![s] = TRUE]
  /\ UNCHANGED <<path, srv, listening, backlog, conns, wait, permit, cli, deaths, hasty>>

\* The third branch of select: the sleep is over, or a notify is taken, and no
\* connection is queued (accept is polled before it). `active` is read again.
IdleFires(s) ==
  /\ srv[s] = "serve"
  /\ backlog[s] = {}
  /\ \/ wait[s] = "sleep" /\ quiet[s] /\ UNCHANGED permit
     \/ wait[s] = "notify" /\ permit[s] /\ permit' = [permit EXCEPT ![s] = FALSE]
  /\ srv' = [srv EXCEPT ![s] = IF conns[s] = {} THEN "leave" ELSE "serve"]
  /\ UNCHANGED <<path, listening, backlog, conns, wait, quiet, cli, deaths, hasty>>

\* SIGTERM or ctrl-c.
Shutdown(s) ==
  /\ srv[s] = "serve"
  /\ deaths < MaxDeaths
  /\ deaths' = deaths + 1
  /\ srv' = [srv EXCEPT ![s] = "leave"]
  /\ UNCHANGED <<path, listening, backlog, conns, loopVars, cli, hasty>>

\* run_serve returns and drops its listener ...
Leave(s) ==
  /\ srv[s] = "leave"
  /\ srv' = [srv EXCEPT ![s] = "clean"]
  /\ CloseListener(s)
  /\ UNCHANGED <<path, conns, loopVars, deaths, hasty>>

\* ... then PidfileGuard removes the name, whosever it is by now, and the process
\* ends with the connections it still had.
Clean(s) ==
  /\ srv[s] = "clean"
  /\ srv' = [srv EXCEPT ![s] = "gone"]
  /\ path' = NoServer
  /\ conns' = [conns EXCEPT ![s] = {}]
  /\ Hangup(s)
  /\ UNCHANGED <<listening, backlog, loopVars, deaths, hasty>>

\* SIGKILL: the kernel closes the sockets, the name stays.
Kill(s) ==
  /\ srv[s] \notin {"unborn", "gone", "refused"}
  /\ deaths < MaxDeaths
  /\ deaths' = deaths + 1
  /\ srv' = [srv EXCEPT ![s] = "gone"]
  /\ listening' = listening \ {s}
  /\ Hangup(s)
  /\ backlog' = [backlog EXCEPT ![s] = {}]
  /\ conns' = [conns EXCEPT ![s] = {}]
  /\ UNCHANGED <<path, loopVars, hasty>>
-----------------------------------------------------------------------------
(* ensure_daemon, then the bridge or the fallback.                            *)
Connects(c) ==
  /\ Reachable
  /\ backlog' = [backlog EXCEPT ![path] = @ \union {c}]
  /\ cli' = [cli EXCEPT ![c] = "attached"]
  /\ UNCHANGED <<path, srv, listening, conns, loopVars, deaths, hasty>>

Connect(c) ==
  /\ cli[c] = "start"
  /\ \/ Connects(c)
     \/ /\ ~Reachable
        /\ cli' = [cli EXCEPT ![c] = "spawn"]
        /\ UNCHANGED <<path, srv, listening, backlog, conns, loopVars, deaths, hasty>>

\* A shim that cannot attach serves its own stdio from a Daemon of its own; the
\* sync CLI reports the error and exits.
GiveUp(c) == cli' = [cli EXCEPT ![c] = IF c \in Shims THEN "stdio" ELSE "done"]

\* spawn() starts a --serve child, or fails at once.
Spawn(c) ==
  /\ cli[c] = "spawn"
  /\ \/ \E s \in Servers :
          /\ srv[s] = "unborn"
          /\ srv' = [srv EXCEPT ![s] = "bind"]
          /\ cli' = [cli EXCEPT ![c] = "poll"]
     \/ /\ GiveUp(c)
        /\ UNCHANGED srv
  /\ UNCHANGED <<path, listening, backlog, conns, loopVars, deaths, hasty>>

Poll(c) == cli[c] = "poll" /\ Connects(c)

\* Slip: the poll goes on while there is a socket file.
NotReadyWithoutFile(c) ==
  /\ cli[c] = "poll"
  /\ path = NoServer
  /\ GiveUp(c)
  /\ UNCHANGED <<path, srv, listening, backlog, conns, loopVars, deaths, hasty>>

\* The poll just failed and the deadline has passed: NotReady.
NotReady(c) ==
  /\ cli[c] = "poll"
  /\ ~Reachable
  /\ GiveUp(c)
  /\ UNCHANGED <<path, srv, listening, backlog, conns, loopVars, deaths, hasty>>

\* The client's stdin ends (the CLI has its answer), or the bridge notices that
\* the daemon has closed.
Close(c) ==
  /\ cli[c] \in {"attached", "stdio", "cut"}
  /\ cli' = [cli EXCEPT ![c] = "done"]
  /\ UNCHANGED <<path, srv, listening, backlog, conns, loopVars, deaths, hasty>>

ServerStep(s) ==
  \/ Bind(s) \/ Listen(s) \/ Probe(s) \/ Unlink(s) \/ Rebind(s) \/ Perms(s)
  \/ Boot(s) \/ BootFails(s) \/ BootClose(s)
  \/ Accept(s) \/ ConnEnds(s) \/ IdleTime(s) \/ IdleFires(s) \/ Leave(s) \/ Clean(s)

ClientStep(c) == Connect(c) \/ Spawn(c) \/ Poll(c) \/ NotReady(c)

Next ==
  \/ \E s \in Servers : ServerStep(s) \/ Shutdown(s) \/ Kill(s)
  \/ \E c \in Clients : ClientStep(c) \/ Close(c)

Spec == Init /\ [][Next]_vars

\* Processes run and connections are answered; nobody has to leave or be killed,
\* and a boot may fail each time.
Fairness ==
  /\ \A s \in Servers :
       /\ WF_vars(Bind(s)) /\ WF_vars(Listen(s)) /\ WF_vars(Probe(s)) /\ WF_vars(Unlink(s))
       /\ WF_vars(Rebind(s)) /\ WF_vars(Perms(s)) /\ WF_vars(Boot(s) \/ BootFails(s))
       /\ WF_vars(BootClose(s)) /\ WF_vars(Accept(s)) /\ WF_vars(ConnEnds(s))
       /\ WF_vars(IdleTime(s)) /\ WF_vars(IdleFires(s))
       /\ WF_vars(Leave(s)) /\ WF_vars(Clean(s))
  /\ \A c \in Clients : WF_vars(ClientStep(c))

FairSpec == Spec /\ Fairness
-----------------------------------------------------------------------------
(* Who may hold the name.                                                     *)
Claimed == {s \in Servers : srv[s] \in {"listen", "perms", "boot", "serve"}}
Departed == {s \in Servers : srv[s] \in {"leave", "clean", "close", "gone"}}

\* Until a server departs, and unless a probe hits a socket between its bind and
\* its listen, the name is that of the only server that has claimed it: a starter
\* that meets a live daemon neither replaces it nor runs beside it
\* (bind_or_probe; AlreadyRunning must exit). And unless a process is killed,
\* whoever dies has removed the name: the next bind finds none, or that of a server
\* that has not ended (PidfileGuard).
OneOwner ==
  /\ (Departed = {} /\ ~hasty) => \A s \in Claimed : path = s
  /\ (deaths = 0 /\ path # NoServer) => srv[path] \notin {"gone", "refused"}

\* A client that starts is served, by a daemon that has accepted it or in
\* process, or is told that it cannot be: a start never hangs on a daemon that
\* does not come up (ensure_daemon's deadline, the fallback of shim::run).
ClientsSettle ==
  \A c \in Clients :
    cli[c] = "start" ~> \/ cli[c] \in {"stdio", "cut", "done"}
                        \/ \E s \in Servers : c \in conns[s]

\* Once every client is done, every server ends: no resident daemon is left
\* behind, whichever of its two waits it slept in (run_serve's idle exit).
AllLeave ==
  (\A c \in Clients : cli[c] = "done") ~>
     (\A s \in Servers : srv[s] \in {"unborn", "gone", "refused"})

\* "Seconds the resident daemon stays alive after the last client disconnects
\* before exiting (debounce)" (config.rs, CHANGELOG): a daemon that is not told
\* to shut down leaves only after idle_timeout without a connection.
IdleDebounced ==
  [][\A s \in Servers : srv[s] = "serve" /\ srv'[s] = "leave" /\ deaths' = deaths
        => quiet[s]]_vars
===============================================================================
