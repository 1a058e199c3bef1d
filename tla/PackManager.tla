----------------------------- MODULE PackManager -----------------------------
(* superpowers/pack_manager.py: packs copy their skills, workflows and agents *)
(* (all called items here) into directories they share with each other and    *)
(* with the owner, and a registry file remembers what belongs to whom.        *)
EXTENDS Naturals, FiniteSets

CONSTANTS
  Packs,            \* names of packs
  Items,            \* names of skills, workflows and agents
  OwnItems,         \* those the owner has already
  PackVersions,     \* the item sets a pack may be published with
  MaxPackChanges    \* bound: versions published

ASSUME PackAssumption ==
  /\ OwnItems \subseteq Items
  /\ PackVersions \subseteq SUBSET Items
  /\ MaxPackChanges \in Nat
  /\ "none" \notin Packs /\ "owner" \notin Packs

VARIABLES
  source,    \* what each pack's manifest declares at its source now
  intact,    \* whether its checksum and contents are as declared
  installed, \* whose copy of each item is in place: a pack, "owner" or "none"
  registry,  \* registry.json: the items recorded for each installed pack
  manager,   \* the call in progress
  published, \* bounded by MaxPackChanges
  torn,      \* history: items of a call that was killed, or that it forgot
  missed,    \* history: items recorded although their source was gone when they were to be copied
  movers,    \* history: the packs that have copied each item
  dropped    \* history: items an update of their pack no longer declared

packVars == <<source, intact, installed, registry, manager, published, torn, missed, movers, dropped>>

NoCall == [at |-> "idle", pack |-> "none", items |-> {}, todo |-> {}, found |-> {}]

PackInit ==
  /\ source \in [Packs -> PackVersions]
  /\ intact = [p \in Packs |-> TRUE]
  /\ installed = [i \in Items |-> IF i \in OwnItems THEN "owner" ELSE "none"]
  /\ registry = [p \in {} |-> {}]
  /\ manager = NoCall
  /\ published = 0
  /\ torn = {}
  /\ missed = {}
  /\ movers = [i \in Items |-> {}]
  /\ dropped = {}

\* The author changes what the pack declares, or breaks it, at any time.
Publish(p) ==
  /\ published < MaxPackChanges
  /\ published' = published + 1
  /\ \E items \in PackVersions, whole \in BOOLEAN :
       source' = [source EXCEPT ![p] = items] /\ intact' = [intact EXCEPT ![p] = whole]
  /\ UNCHANGED <<installed, registry, manager, torn, missed, movers, dropped>>

\* install, and update, which needs the pack's source from the registry and
\* installs it again: nothing is touched unless the checksum and the contents
\* hold.  They are not looked at again.
Install(p) ==
  /\ manager.at = "idle"
  /\ intact[p]
  /\ manager' = [at |-> "copy", pack |-> p, items |-> source[p], todo |-> source[p], found |-> {}]
  /\ UNCHANGED <<source, intact, installed, registry, published, torn, missed, movers, dropped>>

\* _copy_items, one item at a time: its source is there, so what is under its name is
\* deleted first.
Clear(i) ==
  /\ manager.at = "copy" /\ i \in manager.todo /\ manager.found = {}
  /\ manager' = [manager EXCEPT !.found = {i}]
  /\ installed' = [installed EXCEPT ![i] = "none"]
  /\ UNCHANGED <<source, intact, registry, published, torn, missed, movers, dropped>>

\* A clone stays as it was checked; in a local directory what the author has changed
\* may be gone.
MayBeGone(i) == i \notin source[manager.pack] \/ ~intact[manager.pack]

\* An item that is gone is passed over, and recorded with the others.
PassOver(i) ==
  /\ manager.at = "copy" /\ i \in manager.todo /\ manager.found = {}
  /\ MayBeGone(i)
  /\ manager' = [manager EXCEPT !.todo = @ \ {i}]
  /\ missed' = missed \cup {i}
  /\ UNCHANGED <<source, intact, installed, registry, published, torn, movers, dropped>>

\* Mutant: an item that was found is not copied.
CopySkips(i) ==
  /\ manager.at = "copy" /\ i \in manager.found
  /\ UNCHANGED installed
  /\ manager' = [manager EXCEPT !.todo = @ \ {i}, !.found = {}]
  /\ movers' = [movers EXCEPT ![i] = @ \cup {manager.pack}]
  /\ UNCHANGED <<source, intact, registry, published, torn, missed, dropped>>

Copy(i) ==
  /\ manager.at = "copy" /\ i \in manager.found
  /\ installed' = [installed EXCEPT ![i] = manager.pack]
  /\ manager' = [manager EXCEPT !.todo = @ \ {i}, !.found = {}]
  /\ movers' = [movers EXCEPT ![i] = @ \cup {manager.pack}]
  /\ UNCHANGED <<source, intact, registry, published, torn, missed, dropped>>

Record ==
  /\ manager.at = "copy" /\ manager.todo = {}
  /\ registry' = [p \in DOMAIN registry \cup {manager.pack} |->
                    IF p = manager.pack THEN manager.items ELSE registry[p]]
  /\ manager' = NoCall
  /\ dropped' = (IF manager.pack \in DOMAIN registry
                  THEN dropped \cup registry[manager.pack] ELSE dropped) \ (manager.items \ missed)
  /\ UNCHANGED <<source, intact, installed, published, torn, missed, movers>>

\* uninstall: the items recorded, whoever's copy is in place.
Uninstall(p) ==
  /\ manager.at = "idle"
  /\ p \in DOMAIN registry
  /\ manager' = [at |-> "remove", pack |-> p, items |-> registry[p], todo |-> registry[p], found |-> {}]
  /\ UNCHANGED <<source, intact, installed, registry, published, torn, missed, movers, dropped>>

RemoveItem(i) ==
  /\ manager.at = "remove" /\ i \in manager.todo
  /\ installed' = [installed EXCEPT ![i] = "none"]
  /\ manager' = [manager EXCEPT !.todo = @ \ {i}]
  /\ UNCHANGED <<source, intact, registry, published, torn, missed, movers, dropped>>

Forget ==
  /\ manager.at = "remove" /\ manager.todo = {}
  /\ registry' = [p \in DOMAIN registry \ {manager.pack} |-> registry[p]]
  /\ manager' = NoCall
  /\ UNCHANGED <<source, intact, installed, published, torn, missed, movers, dropped>>

\* Killed between two steps, or stopped by an exception, a source that goes away while
\* it is copied for one; or killed while the registry is written: an unreadable
\* registry is loaded as an empty one.
ManagerDies ==
  /\ manager.at # "idle"
  /\ manager' = NoCall
  /\ \/ torn' = torn \cup manager.items /\ UNCHANGED registry
     \/ /\ manager.todo = {}
        /\ registry' = [p \in {} |-> {}]
        /\ torn' = torn \cup manager.items \cup UNION {registry[p] : p \in DOMAIN registry}
  /\ UNCHANGED <<source, intact, installed, published, missed, movers, dropped>>

PackNext ==
  \/ \E p \in Packs : Publish(p) \/ Install(p) \/ Uninstall(p)
  \/ \E i \in Items : Clear(i) \/ PassOver(i) \/ Copy(i) \/ RemoveItem(i)
  \/ Record \/ Forget \/ ManagerDies

PackSpec == PackInit /\ [][PackNext]_packVars

-----------------------------------------------------------------------------
PackTypeOK ==
  /\ source \in [Packs -> SUBSET Items] /\ intact \in [Packs -> BOOLEAN]
  /\ installed \in [Items -> Packs \cup {"owner", "none"}]
  /\ DOMAIN registry \subseteq Packs
  /\ \A p \in DOMAIN registry : registry[p] \subseteq Items
  /\ manager \in [at : {"idle", "copy", "remove"}, pack : Packs \cup {"none"},
                  items : SUBSET Items, todo : SUBSET Items, found : SUBSET Items]
  /\ manager.found \subseteq manager.todo /\ (manager.at # "copy" => manager.found = {})
  /\ manager.todo \subseteq manager.items
  /\ (manager.at # "idle" => manager.pack \in Packs)
  /\ published \in 0..MaxPackChanges
  /\ torn \subseteq Items /\ missed \subseteq Items
  /\ movers \in [Items -> SUBSET Packs]
  /\ dropped \subseteq Items

\* What the call in progress has done so far.
CallSound ==
  /\ manager.at = "idle" => manager = NoCall
  /\ manager.at = "copy" => \A i \in manager.items \ (manager.todo \cup missed) :
       installed[i] = manager.pack /\ manager.pack \in movers[i]
  /\ manager.at = "remove" =>
       /\ manager.pack \in DOMAIN registry /\ manager.items = registry[manager.pack]
       /\ \A i \in manager.items \ manager.todo : installed[i] = "none"

\* RegisteredPresent and NoOrphans below, with the items a call has in hand
\* left out: those it has yet to copy, the pack it removes, those it has copied
\* and not yet recorded.  A pack that missed an item has it in the registry like one
\* that copied it, and takes it out of place when it is removed.
Registered ==
  \A p \in DOMAIN registry : \A i \in registry[p] :
    /\ p \in movers[i] \/ i \in missed
    /\ i \notin torn \cup missed \cup manager.todo /\ ~(manager.at = "remove" /\ manager.pack = p)
       /\ movers[i] = {p} => installed[i] = p

Accounted ==
  \A i \in Items \ (torn \cup dropped) :
    installed[i] \in Packs /\ ~(manager.at = "copy" /\ i \in manager.items /\ installed[i] = manager.pack)
      => installed[i] \in DOMAIN registry /\ i \in registry[installed[i]]

PackInv == CallSound /\ Registered /\ Accounted

\* What the registry says of an item only its pack has ever copied is so: the
\* item is in place, unless a call that handled it was killed or found its source
\* gone (240-251, 420-430).
RegisteredPresent ==
  manager.at = "idle" => \A p \in DOMAIN registry, i \in Items :
    i \in registry[p] \ (torn \cup missed) /\ movers[i] = {p} => installed[i] = p

\* Without the exception, which the code does not keep: what is recorded was copied.
RecordedCopied ==
  manager.at = "idle" => \A p \in DOMAIN registry : \A i \in registry[p] : p \in movers[i]

\* And what a pack has put in place is in the registry, so that uninstall finds
\* it, unless a call was killed or an update stopped declaring it (256-269).
NoOrphans ==
  manager.at = "idle" => \A i \in Items \ (torn \cup dropped) :
    installed[i] \in Packs => installed[i] \in DOMAIN registry /\ i \in registry[installed[i]]

\* The registry and the disk say the same, whichever of two packs handled an
\* item last.
PacksSound == RegisteredPresent /\ NoOrphans
=============================================================================
