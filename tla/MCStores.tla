------------------------------ MODULE MCStores ------------------------------
(* What is kept: secrets, packs, templates, chats, memories, skills, releases,  *)
(* agents, SSH clients, and the graphs a DAG is given as.  A behaviour is about    *)
(* one of them.                                                                   *)
EXTENDS Vault, CredentialRotation, PackManager, TemplateManager, DashboardChat,
        MemoryStore, SkillHub, Release, AgentRouter, SSHFabric, DAGValidate, TLC

VARIABLE part \* the component this behaviour is about; the others stay as they start

StoresVars == <<part, vaultVars, rotVars, packVars, tmVars, chatVars, memVars, hubVars,
          releaseVars, routerVars, sshVars, vars>>

MCPackVersions == {{"a"}, {"a", "b"}, {"b"}}
MCHistory == <<{<<"f", 1>>, <<"g", 1>>}, {<<"f", 2>>, <<"g", 1>>}, {<<"f", 2>>, <<"h", 1>>}>>
MCBumps == <<NoRelease, "v1", "v2">>

MCManifests == {[name |-> 1, tags |-> {"test"}, triggers |-> {"test"}, skills |-> <<"qa">>],
                [name |-> 1, tags |-> {"docs"}, triggers |-> {}, skills |-> <<>>],
                [name |-> 2, tags |-> {"docker"}, triggers |-> {"test"}, skills |-> <<"deploy">>]}
MCKeywordTargets == ("test" :> {1}) @@ ("docker" :> {2})
MCTechAgents == ("python" :> {1}) @@ ("docker" :> {2})
MCSignalTech == [f \in {"compose.yml"} |-> "docker-compose"]
MCBaseTech == [t \in {"docker-compose"} |-> "docker"]
MCTasks == {{"test"}, {"docs", "docker"}}
MCGroupsOf == [h \in Aliases |-> IF h = "nas" THEN {"all", "lab"} ELSE {"all"}]

MCRepos == {[config |-> {"compose.yml"}, files |-> <<"other", "python", "python">>]}

StoresInit ==
  /\ part \in {"vault", "rotation", "packs", "templates", "chat", "memory",
               "skillhub", "release", "agents", "ssh", "graph"}
  \* One graph, one set of agent files and of packs is enough for the others.
  /\ part # "graph" => nodes = {} /\ caller = "_validate"
  /\ part # "agents" => agentFiles = [d \in 1..AgentDirs |-> NoAgentMd]
  \* Clones with a remote, and one without where the other has one.
  /\ origin \in {Hosts, {CHOOSE h \in Hosts : TRUE}} /\ (part # "skillhub" => origin = Hosts)
  /\ part # "packs" => source = [p \in Packs |-> {"a"}]
  /\ VaultInit /\ RotInit /\ PackInit /\ TmInit
  /\ ChatInit /\ MemInit /\ HubInit /\ ReleaseInit
  /\ RouterInit /\ SshInit /\ Init

StoresNext ==
  /\ UNCHANGED part
  /\ \/ /\ part = "vault" /\ VaultNext
        /\ UNCHANGED <<rotVars, packVars, tmVars, chatVars, memVars, hubVars,
                      releaseVars, routerVars, sshVars, vars>>
     \/ /\ part = "rotation" /\ RotNext
        /\ UNCHANGED <<vaultVars, packVars, tmVars, chatVars, memVars, hubVars,
                      releaseVars, routerVars, sshVars, vars>>
     \/ /\ part = "packs" /\ PackNext
        /\ UNCHANGED <<vaultVars, rotVars, tmVars, chatVars, memVars, hubVars,
                      releaseVars, routerVars, sshVars, vars>>
     \/ /\ part = "templates" /\ TmNext
        /\ UNCHANGED <<vaultVars, rotVars, packVars, chatVars, memVars, hubVars,
                      releaseVars, routerVars, sshVars, vars>>
     \/ /\ part = "chat" /\ ChatNext
        /\ UNCHANGED <<vaultVars, rotVars, packVars, tmVars, memVars, hubVars,
                      releaseVars, routerVars, sshVars, vars>>
     \/ /\ part = "memory" /\ MemNext
        /\ UNCHANGED <<vaultVars, rotVars, packVars, tmVars, chatVars, hubVars,
                      releaseVars, routerVars, sshVars, vars>>
     \/ /\ part = "skillhub" /\ HubNext
        /\ UNCHANGED <<vaultVars, rotVars, packVars, tmVars, chatVars, memVars,
                      releaseVars, routerVars, sshVars, vars>>
     \/ /\ part = "release" /\ ReleaseNext
        /\ UNCHANGED <<vaultVars, rotVars, packVars, tmVars, chatVars, memVars,
                      hubVars, routerVars, sshVars, vars>>
     \/ /\ part = "agents" /\ RouterNext
        /\ UNCHANGED <<vaultVars, rotVars, packVars, tmVars, chatVars, memVars,
                      hubVars, releaseVars, sshVars, vars>>
     \/ /\ part = "ssh" /\ SshNext
        /\ UNCHANGED <<vaultVars, rotVars, packVars, tmVars, chatVars, memVars,
                      hubVars, releaseVars, routerVars, vars>>
     \/ /\ part = "graph" /\ Next
        /\ UNCHANGED <<vaultVars, rotVars, packVars, tmVars, chatVars, memVars,
                      hubVars, releaseVars, routerVars, sshVars>>

StoresSpec == StoresInit /\ [][StoresNext]_StoresVars

\* The types of all of them, and the invariants the proofs are built on.
StoresTypesOK ==
  /\ VaultTypeOK /\ RotTypeOK /\ PackTypeOK /\ TmTypeOK
  /\ ChatTypeOK /\ MemTypeOK /\ HubTypeOK /\ ReleaseTypeOK
  /\ RouterTypeOK /\ SshTypeOK /\ TypeOK
  /\ IdentityInv /\ CopyInv /\ RotInv /\ PackInv /\ SeenSafe /\ HubInv
  /\ ChangelogsComplete /\ CacheTrue /\ FabricInv
==============================================================================
