------------------------------- MODULE Vault -------------------------------
(* superpowers/vault.py: one encrypted file that every process reads, changes *)
(* in memory and replaces.  The file is replaced atomically; nothing keeps    *)
(* two processes from doing it at the same time.                              *)
EXTENDS Naturals, FiniteSets

CONSTANTS
  VaultProcs,    \* processes that open the vault (the CLI, the gateway, skills)
  VaultKeys,     \* names of credentials
  VaultValues,   \* their values
  MaxVaultCalls  \* bound: calls made

ASSUME VaultAssumption ==
  /\ MaxVaultCalls \in Nat /\ VaultKeys # {}
  /\ "none" \notin VaultProcs \cup VaultValues /\ "empty" \notin VaultProcs /\ "cut" \notin VaultProcs

VARIABLES
  identity,   \* age-identity.txt: "none", "empty", or the key generated by a process
  vaultFile,  \* vault.enc: NoVault, or its content and the key it is encrypted to ("cut":
              \* a short write, which no key decrypts)
  vault,      \* what each process is doing: its call and the data it decrypted
  raced,      \* history: an init that had found no identity wrote over another's
  vaultCalls  \* bounded by MaxVaultCalls

vaultVars == <<identity, vaultFile, vault, raced, vaultCalls>>

Secrets == [VaultKeys -> VaultValues \cup {"none"}]
EmptyVault == [k \in VaultKeys |-> "none"]
NoVault == [key |-> "none", data |-> EmptyVault]
Idle == [at |-> "idle", call |-> "get", name |-> CHOOSE k \in VaultKeys : TRUE,
         value |-> "none", data |-> EmptyVault, key |-> "none", stale |-> FALSE]

HasIdentity == identity \notin {"none", "empty"}

VaultInit ==
  /\ identity = "none"
  /\ vaultFile = NoVault
  /\ vault = [p \in VaultProcs |-> Idle]
  /\ raced = FALSE
  /\ vaultCalls = 0

VaultRaises(p) ==
  /\ vault' = [vault EXCEPT ![p] = Idle]
  /\ UNCHANGED <<identity, vaultFile, raced, vaultCalls>>

-----------------------------------------------------------------------------
\* `claw vault init`: whether there is an identity is looked up now.
CallInit(p) ==
  /\ vault[p].at = "idle"
  /\ vaultCalls < MaxVaultCalls
  /\ vaultCalls' = vaultCalls + 1
  /\ vault' = [vault EXCEPT ![p] =
       [Idle EXCEPT !.at = IF identity = "none" THEN "keygen" ELSE "pubkey", !.call = "init"]]
  /\ UNCHANGED <<identity, vaultFile, raced>>

\* write_text opens the identity file, then fills it; it does not look again whether
\* there is one.
OpenIdentity(p) ==
  /\ vault[p].at = "keygen"
  /\ identity' = "empty"
  /\ raced' = (raced \/ identity # "none")
  /\ vault' = [vault EXCEPT ![p].at = "identity"]
  /\ UNCHANGED <<vaultFile, vaultCalls>>

WriteIdentity(p) ==
  /\ vault[p].at = "identity"
  /\ identity' = p
  /\ vault' = [vault EXCEPT ![p].at = "pubkey"]
  /\ UNCHANGED <<vaultFile, raced, vaultCalls>>

\* Mutant: init writes an empty vault whether there is one or not.
InitEmpties(p) ==
  /\ vault[p].at = "pubkey"
  /\ IF ~HasIdentity
     THEN VaultRaises(p)
     ELSE /\ vault' = [vault EXCEPT ![p].at = "replace", ![p].key = identity]
          /\ UNCHANGED <<identity, vaultFile, raced, vaultCalls>>

\* _read_pubkey, then the vault is created unless it is there.
ReadPubkey(p) ==
  /\ vault[p].at = "pubkey"
  /\ IF ~HasIdentity \/ vaultFile # NoVault
     THEN VaultRaises(p)
     ELSE /\ vault' = [vault EXCEPT ![p].at = "replace", ![p].key = identity]
          /\ UNCHANGED <<identity, vaultFile, raced, vaultCalls>>

\* set and delete: decrypt first.
CallSet(p) ==
  /\ vault[p].at = "idle"
  /\ vaultCalls < MaxVaultCalls
  /\ vaultCalls' = vaultCalls + 1
  /\ \E k \in VaultKeys, v \in VaultValues \cup {"none"} :
       vault' = [vault EXCEPT ![p] = [Idle EXCEPT
         !.at = "decrypt", !.call = IF v = "none" THEN "delete" ELSE "set",
         !.name = k, !.value = v]]
  /\ UNCHANGED <<identity, vaultFile, raced>>

CanDecrypt == vaultFile = NoVault \/ vaultFile.key = identity

\* _decrypt raises when the identity is not the one it was encrypted to, and
\* delete raises when the key is not there.
Decrypt(p) ==
  LET v == vault[p] IN
  /\ v.at = "decrypt"
  /\ IF ~CanDecrypt \/ (v.call = "delete" /\ vaultFile.data[v.name] = "none")
     THEN VaultRaises(p)
     ELSE /\ vault' = [vault EXCEPT ![p].at = "encrypt",
                                    ![p].data = [vaultFile.data EXCEPT ![v.name] = v.value]]
          /\ UNCHANGED <<identity, vaultFile, raced, vaultCalls>>

\* _encrypt up to the temporary file; the public key is read now.
Encrypt(p) ==
  /\ vault[p].at = "encrypt"
  /\ IF HasIdentity
     THEN /\ vault' = [vault EXCEPT ![p].at = "replace", ![p].key = identity]
          /\ UNCHANGED <<identity, vaultFile, raced, vaultCalls>>
     ELSE VaultRaises(p)

\* os.replace, of a file that os.write may have written short, which nothing looks
\* at.  Every process that has decrypted the file now holds an old copy; "stale"
\* remembers that.
Replace(p) ==
  /\ vault[p].at = "replace"
  /\ vaultFile' \in {[key |-> vault[p].key, data |-> vault[p].data], [key |-> "cut", data |-> EmptyVault]}
  /\ vault' = [q \in VaultProcs |->
       IF q = p THEN Idle
       ELSE [vault[q] EXCEPT !.stale = @ \/ vault[q].at \in {"encrypt", "replace"}]]
  /\ UNCHANGED <<identity, raced, vaultCalls>>

\* Killed anywhere: the temporary file stays behind, the vault is as it was.
VaultProcDies(p) ==
  /\ vault[p].at # "idle"
  /\ VaultRaises(p)

VaultStep(p) ==
  \/ OpenIdentity(p) \/ WriteIdentity(p) \/ ReadPubkey(p)
  \/ Decrypt(p) \/ Encrypt(p) \/ Replace(p)

VaultNext ==
  \E p \in VaultProcs : CallInit(p) \/ CallSet(p) \/ VaultStep(p) \/ VaultProcDies(p)

VaultSpec == VaultInit /\ [][VaultNext]_vaultVars

-----------------------------------------------------------------------------
VaultState ==
  [at : {"idle", "keygen", "identity", "pubkey", "decrypt", "encrypt", "replace"},
   call : {"get", "init", "set", "delete"}, name : VaultKeys,
   value : VaultValues \cup {"none"}, data : Secrets,
   key : {"none"} \cup VaultProcs, stale : BOOLEAN]

VaultTypeOK ==
  /\ identity \in {"none", "empty"} \cup VaultProcs
  /\ vaultFile \in [key : {"none", "cut"} \cup VaultProcs, data : Secrets]
  /\ vault \in [VaultProcs -> VaultState]
  /\ raced \in BOOLEAN
  /\ vaultCalls \in 0..MaxVaultCalls

\* Whatever is killed when, the vault that is there can be decrypted with the
\* identity that is there (init 68, _encrypt 155-169), unless two inits made an
\* identity each or the file was written short: nothing else parts the two.
VaultReadable == vaultFile # NoVault /\ vaultFile.key # "cut" /\ ~raced => vaultFile.key = identity

\* Without the exceptions, which the code does not keep, although init is called safe
\* to run again: a vault that is there can be decrypted.
InitsSafe == vaultFile # NoVault => vaultFile.key = identity

\* A write changes nothing but the credential it was asked to change, unless it was
\* cut short or another process replaced the vault since it was decrypted (177-187).
OnlyOwnSecret ==
  [][\A p \in VaultProcs, k \in VaultKeys :
       Replace(p) /\ vaultFile'.key # "cut" /\ ~vault[p].stale /\ (vault[p].call = "init" \/ k # vault[p].name)
         => vaultFile'.data[k] = vaultFile.data[k]]_vaultVars

\* A credential is only ever taken out by a delete of it, by a stale write or by one
\* that was cut short.
NoSecretVanishes ==
  [][\A k \in VaultKeys :
       vaultFile.data[k] # "none" /\ vaultFile'.data[k] = "none"
         => \E p \in VaultProcs : /\ vault[p].at = "replace"
                                 /\ \/ vault[p].call = "delete" /\ vault[p].name = k
                                    \/ vault[p].stale
                                    \/ vaultFile'.key = "cut"]_vaultVars

\* Without the exceptions, which the code does not keep: two processes that set at the
\* same time lose neither credential.
SetsKept ==
  [][\A k \in VaultKeys :
       vaultFile.data[k] # "none" /\ vaultFile'.data[k] = "none"
         => \E p \in VaultProcs :
              Replace(p) /\ ((vault[p].call = "delete" /\ vault[p].name = k) \/ vaultFile'.key = "cut")]_vaultVars

\* The vault is readable and keeps its credentials, with two processes and a
\* kill at any point.
VaultSafe == []VaultReadable /\ OnlyOwnSecret /\ NoSecretVanishes

\* Inductive strengthening of VaultReadable: until two inits make an identity each, the
\* file is being filled by one process at a time, while there is no vault, and what
\* is about to replace the vault is encrypted to the identity that is there.
IdentityInv ==
  ~raced =>
    /\ vaultFile # NoVault => vaultFile.key \in {identity, "cut"} /\ HasIdentity
    /\ \A p \in VaultProcs :
         /\ vault[p].at = "replace" => vault[p].key = identity /\ HasIdentity
         /\ vault[p].at = "identity" =>
              identity = "empty" /\ \A q \in VaultProcs \ {p} : vault[q].at # "identity"

\* What a process that is not stale has decrypted is the vault with its change.
CopyInv ==
  \A p \in VaultProcs : LET v == vault[p] IN
    /\ v.at \in {"decrypt", "encrypt"} => v.call \in {"set", "delete"}
    /\ v.at \in {"keygen", "identity", "pubkey"} => v.call = "init" /\ v.data = EmptyVault
    /\ v.call = "set" => v.value # "none"
    /\ v.call = "delete" => v.value = "none"
    /\ v.at = "replace" /\ v.call = "init" /\ ~v.stale => vaultFile = NoVault /\ v.data = EmptyVault
    /\ v.at \in {"encrypt", "replace"} /\ v.call # "init" /\ ~v.stale =>
         v.data = [vaultFile.data EXCEPT ![v.name] = v.value]
    /\ v.at = "replace" => v.call \in {"init", "set", "delete"}
=============================================================================
