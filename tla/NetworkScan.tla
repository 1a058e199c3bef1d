----------------------------- MODULE NetworkScan -----------------------------
(* run_scan (superpowers/network_scanner.py): a pool of threads pings the hosts *)
(* and tries the ports of those that answer, while hosts come and go.           *)
EXTENDS Naturals, FiniteSets, FiniteSetsExt

CONSTANTS
  Addresses,     \* all addresses there are
  HostSettings,  \* NETWORK_SCAN_HOSTS: sets of addresses
  Subnets,       \* NETWORK_SCAN_SUBNETS: sets of sets of addresses
  CriticalSettings,  \* NETWORK_SCAN_CRITICAL: sets of addresses, {} when it is not set
  ScanPorts, ScanWorkers,
  MaxFlaps       \* bound: hosts and ports that go up or down

ASSUME ScanAssumption ==
  /\ HostSettings \subseteq SUBSET Addresses /\ Subnets \subseteq SUBSET SUBSET Addresses
  /\ CriticalSettings \subseteq SUBSET Addresses
  /\ ScanWorkers \in Nat \ {0} /\ MaxFlaps \in Nat

VARIABLES
  listening,   \* address -> "down" or the set of its open ports
  flaps,
  scan,        \* [at, targets, critical]: the thread that scans
  probe,       \* address -> [at, alive, open, left]: the future of scan_host
  hostResults, \* results: address -> [alive, open, error]
  criticalDown, exit,
  lively       \* history: addresses that were up at some time of this scan

scanVars == <<listening, flaps, scan, probe, hostResults, criticalDown, exit, lively>>

Down == [up |-> FALSE, open |-> {}]
Waiting == [at |-> "waiting", alive |-> FALSE, open |-> {}, left |-> {}]

ScanInit ==
  /\ listening \in [Addresses -> {Down, [up |-> TRUE, open |-> ScanPorts]}]
  /\ flaps = 0 /\ scan = [at |-> "config", targets |-> {}, critical |-> {}]
  /\ probe = [a \in Addresses |-> Waiting]
  /\ hostResults = [a \in {} |-> Waiting] /\ criticalDown = {} /\ exit = "none" /\ lively = {}

\* load_config: without a setting of their own, the hosts themselves are critical; a port that
\* is no number raises.
LoadConfig ==
  /\ scan.at = "config"
  /\ \/ /\ \E hosts \in HostSettings, subnets \in Subnets, critical \in CriticalSettings :
             scan' = [at |-> "scan", targets |-> hosts \cup UNION subnets, critical |-> IF critical = {} THEN hosts ELSE critical]
        /\ UNCHANGED exit
     \/ scan' = [scan EXCEPT !.at = "end"] /\ exit' = "raised"
  /\ lively' = {a \in Addresses : listening[a].up}
  /\ UNCHANGED <<listening, flaps, probe, hostResults, criticalDown>>

Busy == {a \in Addresses : probe[a].at \in {"ping", "ports"}}

StartProbe(a) ==
  /\ scan.at = "scan" /\ a \in scan.targets /\ probe[a].at = "waiting" /\ Cardinality(Busy) < ScanWorkers
  /\ probe' = [probe EXCEPT ![a].at = "ping"]
  /\ UNCHANGED <<listening, flaps, scan, hostResults, criticalDown, exit, lively>>

\* ping_host: a packet may be lost; whatever goes wrong is no answer.
PingHost(a) ==
  /\ probe[a].at = "ping"
  /\ \E alive \in {FALSE, listening[a].up} :
       probe' = [probe EXCEPT ![a] = [at |-> IF alive THEN "ports" ELSE "done", alive |-> alive,
                                      open |-> probe[a].open, left |-> IF alive THEN ScanPorts ELSE {}]]
  /\ UNCHANGED <<listening, flaps, scan, hostResults, criticalDown, exit, lively>>

\* check_port, one after the other.
CheckPort(a) ==
  /\ probe[a].at = "ports"
  /\ IF probe[a].left = {} THEN probe' = [probe EXCEPT ![a].at = "done"]
     ELSE \E port \in probe[a].left : \E open \in {{}, {port} \cap listening[a].open} :
            probe' = [probe EXCEPT ![a] = [at |-> "ports", alive |-> probe[a].alive,
                                             open |-> probe[a].open \cup open, left |-> probe[a].left \ {port}]]
  /\ UNCHANGED <<listening, flaps, scan, hostResults, criticalDown, exit, lively>>

\* scan_host raises: a ValueError of a setting, say.
ProbeRaises(a) ==
  /\ probe[a].at \in {"ping", "ports"}
  /\ probe' = [probe EXCEPT ![a].at = "raised"]
  /\ UNCHANGED <<listening, flaps, scan, hostResults, criticalDown, exit, lively>>

Result(alive, open, error) == [alive |-> alive, open |-> open, error |-> error]
Enter(a, result) == hostResults' = [b \in DOMAIN hostResults \cup {a} |-> IF b = a THEN result ELSE hostResults[b]]

\* as_completed: a result as it comes; one that raises is entered as not alive.
Collect(a) ==
  /\ scan.at = "scan" /\ a \notin DOMAIN hostResults
  /\ \/ probe[a].at = "done" /\ Enter(a, Result(probe[a].alive, probe[a].open, FALSE))
     \/ probe[a].at = "raised" /\ Enter(a, Result(FALSE, {}, TRUE))
  /\ UNCHANGED <<listening, flaps, scan, probe, criticalDown, exit, lively>>

ScanComplete == scan.at = "scan" /\ scan.targets \subseteq DOMAIN hostResults

\* Mutant: hosts whose probe ended in an error are not counted as down.
EndScanLenient ==
  /\ ScanComplete /\ scan' = [scan EXCEPT !.at = "end"]
  /\ criticalDown' = {a \in DOMAIN hostResults : ~hostResults[a].alive /\ ~hostResults[a].error /\ a \in scan.critical}
  /\ exit' = IF criticalDown' = {} THEN "0" ELSE "1"
  /\ UNCHANGED <<listening, flaps, probe, hostResults, lively>>

\* The report, when the pool is empty; the skill's status is that of the critical hosts.
EndScan ==
  /\ ScanComplete /\ scan' = [scan EXCEPT !.at = "end"]
  /\ criticalDown' = {a \in DOMAIN hostResults : ~hostResults[a].alive /\ a \in scan.critical}
  /\ exit' = IF criticalDown' = {} THEN "0" ELSE "1"
  /\ UNCHANGED <<listening, flaps, probe, hostResults, lively>>

\* Bound: MaxFlaps.
Flap(a) ==
  /\ flaps < MaxFlaps /\ flaps' = flaps + 1
  /\ \E state \in {Down, [up |-> TRUE, open |-> {}], [up |-> TRUE, open |-> ScanPorts]} \ {listening[a]} :
       /\ listening' = [listening EXCEPT ![a] = state]
       /\ lively' = IF state.up THEN lively \cup {a} ELSE lively
  /\ UNCHANGED <<scan, probe, hostResults, criticalDown, exit>>

ScanNext ==
  \/ LoadConfig \/ EndScan
  \/ \E a \in Addresses : StartProbe(a) \/ PingHost(a) \/ CheckPort(a) \/ ProbeRaises(a) \/ Collect(a) \/ Flap(a)

ScanSpec == ScanInit /\ [][ScanNext]_scanVars

ProbeState == [at : {"waiting", "ping", "ports", "done", "raised"}, alive : BOOLEAN,
               open : SUBSET ScanPorts, left : SUBSET ScanPorts]

ScanTypeOK ==
  /\ listening \in [Addresses -> [up : BOOLEAN, open : SUBSET ScanPorts]] /\ flaps \in 0 .. MaxFlaps
  /\ scan \in [at : {"config", "scan", "end"}, targets : SUBSET Addresses, critical : SUBSET Addresses]
  /\ probe \in [Addresses -> ProbeState]
  /\ DOMAIN hostResults \subseteq Addresses
  /\ \A a \in DOMAIN hostResults :
       hostResults[a] \in [alive : BOOLEAN, open : SUBSET ScanPorts, error : BOOLEAN]
  /\ exit \in {"none", "raised", "0", "1"} /\ criticalDown \subseteq DOMAIN hostResults
  /\ lively \subseteq Addresses

\* What is up, or has answered, since the configuration was read.
ScanInv ==
  /\ scan.at = "config" => /\ \A a \in Addresses : probe[a] = Waiting
                           /\ DOMAIN hostResults = {}
  /\ scan.at # "config" => \A a \in Addresses : listening[a].up => a \in lively
  /\ \A a \in Addresses : probe[a].alive => a \in lively
  /\ \A a \in DOMAIN hostResults : hostResults[a].alive => a \in lively
  /\ exit = "0" => scan.at = "end" /\ scan.critical \cap scan.targets \subseteq lively

(* run_scan and the skill's exit status: status 0 only when every critical     *)
(* host among the targets was up at some time of the scan (a critical address  *)
(* that is no target is never asked), and a host is never reported up without. *)
ZeroMeansUp ==
  /\ exit = "0" => scan.critical \cap scan.targets \subseteq lively
  /\ \A a \in DOMAIN hostResults : hostResults[a].alive => a \in lively
==============================================================================
