----------------------------- MODULE SSHFabric -----------------------------
(* superpowers/ssh_fabric: the host registry, the pool of SSH clients, the    *)
(* executor and the health checker.  A command line call or an MCP tool has a *)
(* pool of its own and closes it; the dashboard's requests run in threads     *)
(* that share one pool, whose dictionary nothing locks.                       *)
EXTENDS Integers, FiniteSets, Sequences

CONSTANTS
  Aliases,     \* hosts of hosts.yaml
  Groups,      \* their groups
  GroupsOf,    \* alias -> set of groups, "all" among them
  ByPassword,  \* aliases whose auth is "password"
  SshSecrets,     \* aliases whose password the vault holds
  SshCallers,  \* requests and command line calls that may be under way at once
  SharedPool,  \* whether they are the dashboard's
  WithVault,   \* those whose pool was given the vault: the command line's
  MaxClients,  \* bound: connections made
  MaxOutages   \* bound: hosts going down, connections dropping, time passing

ASSUME SshAssumption ==
  /\ \A a \in Aliases : "all" \in GroupsOf[a] /\ GroupsOf[a] \subseteq Groups
  /\ SshSecrets \subseteq Aliases /\ ByPassword \subseteq Aliases
  /\ WithVault \subseteq SshCallers /\ (SharedPool => WithVault = {})
  /\ SharedPool \in BOOLEAN /\ MaxClients \in Nat /\ MaxOutages \in Nat

VARIABLES
  up,       \* hosts that answer
  clients,  \* the SSH clients made, in order: host, age and whether they live
  pool,     \* _clients of each pool: host -> number of its client, 0 for none
  ssh,      \* the call of each caller
  outages,  \* bounded by MaxOutages
  ran       \* history: <<caller, host>> whose command ended with 0 in this call

sshVars == <<up, clients, pool, ssh, outages, ran>>

\* HostRegistry.resolve: an alias first, then a group.
Resolve(target) == IF target \in Aliases THEN {target}
                   ELSE {a \in Aliases : target \in GroupsOf[a]}

PoolOf(c) == IF SharedPool THEN "dashboard" ELSE c
Pools == IF SharedPool THEN {"dashboard"} ELSE SshCallers

NoFabricCall == [at |-> "idle", health |-> FALSE, todo |-> {}, host |-> "none", client |-> 0,
           results |-> {}, report |-> {}]

SshInit ==
  /\ up = Aliases
  /\ clients = <<>>
  /\ pool = [p \in Pools |-> [a \in Aliases |-> 0]]
  /\ ssh = [c \in SshCallers |-> NoFabricCall]
  /\ outages = 0
  /\ ran = {}

-----------------------------------------------------------------------------
HostChanges(a) ==
  /\ outages < MaxOutages
  /\ outages' = outages + 1
  /\ up' = IF a \in up THEN up \ {a} ELSE up \cup {a}
  /\ UNCHANGED <<clients, pool, ssh, ran>>

\* A connection is found dead by its transport.
ConnectionDrops(i) ==
  /\ outages < MaxOutages
  /\ clients[i].live
  /\ outages' = outages + 1
  /\ clients' = [clients EXCEPT ![i] = [clients[i] EXCEPT !.live = FALSE]]
  /\ UNCHANGED <<up, pool, ssh, ran>>

\* Five minutes, max_age, go by.
TimePasses ==
  /\ outages < MaxOutages
  /\ outages' = outages + 1
  /\ clients' = [i \in DOMAIN clients |-> [clients[i] EXCEPT !.old = TRUE]]
  /\ UNCHANGED <<up, pool, ssh, ran>>

-----------------------------------------------------------------------------
\* SSHExecutor.run, or HealthChecker.check_all, which probes one host after the
\* other.  A target that is neither alias nor group raises.
StartSsh(c, target) ==
  /\ ssh[c].at \in {"idle", "answered", "raised"}
  /\ ssh' = [ssh EXCEPT ![c] = IF Resolve(target) = {} THEN [NoFabricCall EXCEPT !.at = "raised"]
                               ELSE [NoFabricCall EXCEPT !.at = "next", !.todo = Resolve(target)]]
  /\ ran' = {r \in ran : r[1] # c}
  /\ UNCHANGED <<up, clients, pool, outages>>

StartHealth(c) ==
  /\ ssh[c].at \in {"idle", "answered", "raised"}
  /\ ssh' = [ssh EXCEPT ![c] = [NoFabricCall EXCEPT !.at = "next", !.health = TRUE, !.todo = Aliases]]
  /\ ran' = {r \in ran : r[1] # c}
  /\ UNCHANGED <<up, clients, pool, outages>>

\* Mutant: only the error is looked at.
ResultNoError(c, code, error) ==
  [ssh[c] EXCEPT !.at = "next", !.client = 0,
     !.results = ssh[c].results \cup {[host |-> ssh[c].host, ok |-> error = "none"]}]

\* CommandResult.ok: the exit code is 0 and there is no error.
Result(c, code, error) ==
  [ssh[c] EXCEPT !.at = "next", !.client = 0,
     !.results = ssh[c].results \cup {[host |-> ssh[c].host, ok |-> code = 0 /\ error = "none"]}]
AnswersWith(c, code, error) == ssh' = [ssh EXCEPT ![c] = Result(c, code, error)]

Goes(c, at) == ssh' = [ssh EXCEPT ![c] = [ssh[c] EXCEPT !.at = at]]
Executes(c, i) == ssh' = [ssh EXCEPT ![c] = [ssh[c] EXCEPT !.at = "exec", !.client = i]]

\* The next host; check_all pings it first.
NextHost(c) ==
  /\ ssh[c].at = "next"
  /\ \E a \in ssh[c].todo :
       LET pinged == IF ssh[c].health THEN {[host |-> a, ping |-> a \in up]} ELSE {}
       IN ssh' = [ssh EXCEPT ![c] = [ssh[c] EXCEPT !.at = "get", !.host = a, !.todo = ssh[c].todo \ {a},
                                                  !.report = ssh[c].report \cup pinged]]
  /\ UNCHANGED <<up, clients, pool, outages, ran>>

\* get_client: a pooled client that is young and alive is taken, another one is
\* closed, and without one a connection is made.
GetClient(c) ==
  LET i == pool[PoolOf(c)][ssh[c].host]
  IN /\ ssh[c].at = "get"
     /\ IF i = 0 THEN Goes(c, "connect") /\ UNCHANGED clients
        ELSE IF ~clients[i].old /\ clients[i].live
        THEN Executes(c, i) /\ UNCHANGED clients
        ELSE clients' = [clients EXCEPT ![i] = [clients[i] EXCEPT !.live = FALSE, !.open = FALSE]] /\ Goes(c, "drop")
     /\ UNCHANGED <<up, pool, outages, ran>>

\* `del self._clients[alias]`: a KeyError when another thread was quicker.
DropClient(c) ==
  LET p == PoolOf(c)
  IN /\ ssh[c].at = "drop"
     /\ pool' = [pool EXCEPT ![p] = [pool[p] EXCEPT ![ssh[c].host] = 0]]
     /\ IF pool[p][ssh[c].host] = 0 THEN AnswersWith(c, -1, "KeyError") ELSE Goes(c, "connect")
     /\ UNCHANGED <<up, clients, outages, ran>>

\* _connect: password authentication needs a password in the pool's vault.
CanConnect(c, a) == a \in up /\ (a \in ByPassword => c \in WithVault /\ a \in SshSecrets)

Connect(c) ==
  LET a == ssh[c].host
  IN /\ ssh[c].at = "connect"
     /\ Len(clients) < MaxClients
     /\ IF CanConnect(c, a)
        THEN /\ clients' = Append(clients, [host |-> a, old |-> FALSE, live |-> TRUE, open |-> TRUE])
             /\ pool' = [pool EXCEPT ![PoolOf(c)] = [pool[PoolOf(c)] EXCEPT ![a] = Len(clients) + 1]]
             /\ Executes(c, Len(clients) + 1)
        ELSE AnswersWith(c, -1, "SSHError") /\ UNCHANGED <<clients, pool>>
     /\ UNCHANGED <<up, outages, ran>>

\* exec_command on a client that is dead or was closed raises an exception
\* _exec_one does not catch: the results so far are lost with it.
ExecRaises(c) ==
  /\ ssh[c].at = "exec"
  /\ ~clients[ssh[c].client].live
  /\ ssh' = [ssh EXCEPT ![c] = [ssh[c] EXCEPT !.at = "raised", !.results = {}, !.report = {}]]
  /\ UNCHANGED <<up, clients, pool, outages, ran>>

ExecStarts(c) ==
  /\ ssh[c].at = "exec"
  /\ clients[ssh[c].client].live
  /\ Goes(c, "running")
  /\ UNCHANGED <<up, clients, pool, outages, ran>>

\* The command ends with a code of its own; a host that is gone times out, and
\* when the connection was cut the channel ends with the code -1.
ExecEnds(c) ==
  /\ ssh[c].at = "running"
  /\ IF ~clients[ssh[c].client].live
     THEN AnswersWith(c, -1, "none") /\ UNCHANGED ran
     ELSE IF ssh[c].host \notin up
     THEN AnswersWith(c, -1, "timeout") /\ UNCHANGED ran
     ELSE \E code \in {0, 1} :
            /\ AnswersWith(c, code, "none")
            /\ ran' = IF code = 0 THEN ran \cup {<<c, ssh[c].host>>} ELSE ran
  /\ UNCHANGED <<up, clients, pool, outages>>

\* All hosts are done; a pool of the caller's own is closed, also by an exception.
CloseAll(p) == [i \in DOMAIN clients |->
                  IF i \in {pool[p][a] : a \in Aliases}
                  THEN [clients[i] EXCEPT !.live = FALSE, !.open = FALSE] ELSE clients[i]]

ReturnSsh(c) ==
  /\ \/ ssh[c].at = "next" /\ ssh[c].todo = {}
     \/ ssh[c].at = "raised" /\ \E a \in Aliases : pool[PoolOf(c)][a] # 0 /\ ~SharedPool
  /\ Goes(c, IF ssh[c].at = "raised" THEN "raised" ELSE "answered")
  /\ IF SharedPool THEN UNCHANGED <<clients, pool>>
     ELSE /\ clients' = CloseAll(c)
          /\ pool' = [pool EXCEPT ![c] = [a \in Aliases |-> 0]]
  /\ UNCHANGED <<up, outages, ran>>

SshNext ==
  \/ \E a \in Aliases : HostChanges(a)
  \/ \E i \in DOMAIN clients : ConnectionDrops(i)
  \/ TimePasses
  \/ \E c \in SshCallers :
       \/ \E t \in Aliases \cup Groups \cup {"unknown"} : StartSsh(c, t)
       \/ StartHealth(c) \/ NextHost(c) \/ GetClient(c) \/ DropClient(c) \/ Connect(c)
       \/ ExecRaises(c) \/ ExecStarts(c) \/ ExecEnds(c) \/ ReturnSsh(c)

SshSpec == SshInit /\ [][SshNext]_sshVars

-----------------------------------------------------------------------------
SshCalls ==
  [at : {"idle", "next", "get", "drop", "connect", "exec", "running", "answered", "raised"}, health : BOOLEAN,
   todo : SUBSET Aliases, host : Aliases \cup {"none"}, client : 0..Len(clients),
   results : SUBSET [host : Aliases, ok : BOOLEAN], report : SUBSET [host : Aliases, ping : BOOLEAN]]

SshTypeOK ==
  /\ up \subseteq Aliases /\ outages \in 0..MaxOutages
  /\ clients \in Seq([host : Aliases, old : BOOLEAN, live : BOOLEAN, open : BOOLEAN])
  /\ pool \in [Pools -> [Aliases -> 0..Len(clients)]]
  /\ ssh \in [SshCallers -> SshCalls] /\ ran \subseteq SshCallers \X Aliases

\* A call is done with some hosts, has one at hand while it works for it, and the others
\* still to do; in a health check these are all there are (executor.py, health.py).
AtHand(c) == IF ssh[c].at \in {"get", "drop", "connect", "exec", "running"} THEN {ssh[c].host} ELSE {}
DoneHosts(c) == {r.host : r \in ssh[c].results}

CallInv(c) ==
  /\ AtHand(c) \subseteq Aliases
  /\ AtHand(c) \cap DoneHosts(c) = {} /\ AtHand(c) \cap ssh[c].todo = {} /\ DoneHosts(c) \cap ssh[c].todo = {}
  /\ \A r \in ssh[c].results : r.ok => <<c, r.host>> \in ran
  /\ \A r, s \in ssh[c].results : r.host = s.host => r = s
  /\ ssh[c].health /\ ssh[c].at \notin {"idle", "raised"} => Aliases \subseteq ssh[c].todo \cup AtHand(c) \cup DoneHosts(c)
  /\ ssh[c].at = "answered" => ssh[c].todo = {}

FabricInv == \A c \in SshCallers : CallInv(c)

\* HealthReport.all_ok.
AllOk(c) == /\ \A h \in ssh[c].report : h.ping
            /\ \A r \in ssh[c].results : r.ok

\* What a call answers is so (ssh_fabric/executor.py, pool.py, health.py),
\* whatever other threads do to the clients it uses: there is one result for each
\* host it got to, a host is only reported ok when its own command ran to the
\* end and returned 0, and a health report is only "all ok" when that is true of
\* every host of the registry.
AnswersTrue ==
  \A c \in SshCallers : ssh[c].at \in {"next", "get", "answered"} =>
    /\ \A r \in ssh[c].results : r.ok => <<c, r.host>> \in ran
    /\ \A r, s \in ssh[c].results : r.host = s.host => r = s
    /\ ssh[c].at = "answered" /\ ssh[c].health /\ AllOk(c) =>
         \A a \in Aliases : <<c, a>> \in ran
=============================================================================
