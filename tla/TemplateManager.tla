--------------------------- MODULE TemplateManager ---------------------------
(* superpowers/template_manager.py: configuration files that are shipped as    *)
(* templates, installed, and then edited by their owner.  The manifest keeps   *)
(* the hash of the version shipped last, and a file that differs from it is    *)
(* taken for edited.  A call reads, backs up, copies and records a file in     *)
(* steps of their own; the owner may write it, and a release may come, between *)
(* any two of them.                                                            *)
EXTENDS Naturals

CONSTANTS
  Templates,        \* names of managed files
  MaxShipped,       \* bound: releases of each template
  MaxTemplateEdits, \* bound: edits made by the owner
  MaxTemplateCalls  \* bound: calls of init, reset and upgrade

ASSUME TemplateAssumption ==
  MaxShipped \in Nat /\ MaxTemplateEdits \in Nat /\ MaxTemplateCalls \in Nat

VARIABLES
  shipped,   \* the release each template is at
  dest,      \* the file in place
  bak,       \* <file>.bak, which reset overwrites
  dated,     \* the <file>.<timestamp>.bak of upgrades
  manifest,  \* templates.json: the release whose hash is recorded, or Unknown
  tm,        \* the call in progress
  edits, templateCalls,
  lost       \* history: how an edit was overwritten, <<cause, edit>>

tmVars == <<shipped, dest, bak, dated, manifest, tm, edits, templateCalls, lost>>

Release(v) == <<"release", v>>
UserEdit(n) == <<"edit", n>>
Missing == <<"missing", 0>>
Cut == <<"cut", 0>>     \* what a copy that was killed or failed half-way leaves
IsEdit(c) == c[1] = "edit"
FileContents == {Missing, Cut} \cup {Release(v) : v \in 0..MaxShipped}
                               \cup {UserEdit(n) : n \in 1..MaxTemplateEdits}
Unknown == Missing      \* a template without an entry in the manifest
TmRecords == {Unknown} \cup {Release(v) : v \in 0..MaxShipped}
TmManifests == [Templates -> TmRecords]
NoRecords == [t \in Templates |-> Unknown]
Nothing == "nothing"
\* A call: its step, the template in hand, what was seen of its file, the hash
\* of the source, the templates left, the manifest as loaded and changed.
TmCalls == [at : {"idle", "init", "reset", "upgrade"},
            step : {"next", "check", "backup", "copy", "record"},
            on : Templates \cup {Nothing}, seen : FileContents, hash : TmRecords,
            todo : SUBSET Templates, loaded : TmManifests]
NoTmCall == [at |-> "idle", step |-> "next", on |-> Nothing, seen |-> Missing, hash |-> Unknown,
             todo |-> {}, loaded |-> NoRecords]

\* The owner replaced or removed it; a later reset took the .bak, or a later
\* upgrade the dated backup, it was in; it was written after the call had
\* looked at the file; or the manifest did not know the file.
Causes == {"owner", "reset", "second", "unseen", "untracked"}
Lost(cause, c) == IF IsEdit(c) THEN {<<cause, c>>} ELSE {}

TmInit ==
  /\ shipped = [t \in Templates |-> 0]
  /\ dest = [t \in Templates |-> Missing]
  /\ bak = [t \in Templates |-> Missing]
  /\ dated = [t \in Templates |-> {}]
  /\ manifest = NoRecords
  /\ tm = NoTmCall
  /\ edits = 0 /\ templateCalls = 0
  /\ lost = {}

-----------------------------------------------------------------------------
\* The world around: a new release, and an owner who edits or removes a file.
Ship(t) ==
  /\ shipped[t] < MaxShipped
  /\ shipped' = [shipped EXCEPT ![t] = @ + 1]
  /\ UNCHANGED <<dest, bak, dated, manifest, tm, edits, templateCalls, lost>>

OwnerWrites(t) ==
  /\ \/ edits < MaxTemplateEdits /\ edits' = edits + 1
        /\ dest' = [dest EXCEPT ![t] = UserEdit(edits + 1)]
     \/ dest[t] # Missing /\ dest' = [dest EXCEPT ![t] = Missing] /\ UNCHANGED edits
  /\ lost' = lost \cup Lost("owner", dest[t])
  /\ UNCHANGED <<shipped, bak, dated, manifest, tm, templateCalls>>

\* init and upgrade load the manifest and go through the templates; reset is a
\* call for one of them.  A manifest that cannot be read is loaded as empty.
CallTemplates(call, ts) ==
  /\ tm.at = "idle"
  /\ templateCalls < MaxTemplateCalls
  /\ templateCalls' = templateCalls + 1
  /\ \E m \in {manifest, NoRecords} :
       tm' = [NoTmCall EXCEPT !.at = call, !.todo = ts, !.loaded = m]
  /\ UNCHANGED <<shipped, dest, bak, dated, manifest, edits, lost>>

Take(t, step) == [tm EXCEPT !.step = step, !.on = t, !.seen = dest[t]]
PassedOver(t) == [tm EXCEPT !.todo = @ \ {t}]
Handled(t, hash) == [NoTmCall EXCEPT !.at = tm.at, !.todo = tm.todo \ {t},
                                     !.loaded = [tm.loaded EXCEPT ![t] = hash]]
InHand(t, step) == tm.step = step /\ tm.on = t
Turn(call, t) == tm.at = call /\ tm.step = "next" /\ t \in tm.todo
FilesUntouched == UNCHANGED <<shipped, dest, bak, dated, manifest, edits, templateCalls, lost>>

\* init and upgrade pass over a template whose source is not there.
NoSource(t) ==
  /\ Turn("init", t) \/ Turn("upgrade", t)
  /\ tm' = PassedOver(t)
  /\ FilesUntouched

\* init leaves a file alone that is there and tracked ...
LookInit(t) ==
  /\ Turn("init", t)
  /\ tm' = IF dest[t] # Missing /\ tm.loaded[t] # Unknown THEN PassedOver(t) ELSE Take(t, "check")
  /\ FilesUntouched

\* ... copies one that is missing, and records one that is there as it is.
CheckInit(t) ==
  /\ InHand(t, "check")
  /\ tm' = Take(t, IF dest[t] = Missing THEN "copy" ELSE "record")
  /\ FilesUntouched

\* reset backs up whatever is there.
LookReset(t) ==
  /\ Turn("reset", t)
  /\ tm' = Take(t, IF dest[t] = Missing THEN "copy" ELSE "backup")
  /\ FilesUntouched

\* Mutant: compares with the release now shipped, not with the one recorded.
CompareWithNew(t) ==
  /\ Turn("upgrade", t)
  /\ tm' = IF dest[t] = Missing THEN PassedOver(t)
           ELSE LET changed == tm.loaded[t] # Unknown /\ Release(shipped[t]) # tm.loaded[t]
                IN [Take(t, IF changed THEN "backup" ELSE "copy") EXCEPT !.hash = Release(shipped[t])]
  /\ FilesUntouched

\* upgrade leaves a missing file missing, backs up one that is not what was
\* shipped last, and just overwrites one that is, or is not in the manifest.
LookUpgrade(t) ==
  /\ Turn("upgrade", t)
  /\ tm' = IF dest[t] = Missing THEN PassedOver(t)
           ELSE LET changed == tm.loaded[t] # Unknown /\ dest[t] # tm.loaded[t]
                IN [Take(t, IF changed THEN "backup" ELSE "copy") EXCEPT !.hash = Release(shipped[t])]
  /\ FilesUntouched

\* The file, or what is copied of it, goes over the last .bak, or into a dated
\* backup: a new one, or one there is, when the clock names the same second.
BackUp(t, c) ==
  /\ InHand(t, "backup") /\ dest[t] # Missing
  /\ \/ /\ tm.at = "reset"
        /\ bak' = [bak EXCEPT ![t] = c]
        /\ lost' = lost \cup Lost("reset", bak[t])
        /\ UNCHANGED dated
     \/ /\ tm.at = "upgrade"
        /\ \E over \in {Missing} \cup dated[t] :
             /\ dated' = [dated EXCEPT ![t] = (@ \ {over}) \cup {c}]
             /\ lost' = lost \cup Lost("second", over)
        /\ UNCHANGED bak
  /\ UNCHANGED <<shipped, dest, manifest, edits, templateCalls>>

\* The copy goes over whatever the file has come to be.
Overwrite(t, c) ==
  /\ InHand(t, "copy")
  /\ dest' = [dest EXCEPT ![t] = c]
  /\ lost' = lost \cup (IF dest[t] # tm.seen THEN Lost("unseen", dest[t])
                        ELSE IF tm.loaded[t] = Unknown /\ tm.at = "upgrade"
                        THEN Lost("untracked", dest[t]) ELSE {})
  /\ UNCHANGED <<shipped, bak, dated, manifest, edits, templateCalls>>

SaveBackup(t) == BackUp(t, dest[t]) /\ tm' = Take(t, "copy")

\* upgrade records the hash it took at first, the others read the source again.
CopyShipped(t) ==
  /\ Overwrite(t, Release(shipped[t]))
  /\ tm' = IF tm.at = "upgrade" THEN Handled(t, tm.hash) ELSE Take(t, "record")

RecordShipped(t) ==
  /\ InHand(t, "record") /\ (tm.at = "init" => dest[t] # Missing)
  /\ tm' = Handled(t, Release(shipped[t]))
  /\ FilesUntouched

\* The manifest is saved once, at the end.
SaveManifest ==
  /\ tm.at # "idle" /\ tm.step = "next" /\ tm.todo = {}
  /\ manifest' = tm.loaded
  /\ tm' = NoTmCall
  /\ UNCHANGED <<shipped, dest, bak, dated, edits, templateCalls, lost>>

\* Killed, or ended by an exception: between two steps, half-way through a
\* copy, or in the save, after which the manifest is loaded as empty.
TmDies ==
  /\ tm.at # "idle"
  /\ tm' = NoTmCall
  /\ \/ FilesUntouched
     \/ \E t \in Templates : BackUp(t, Cut) \/ Overwrite(t, Cut)
     \/ /\ tm.step = "next" /\ tm.todo = {}
        /\ manifest' = NoRecords
        /\ UNCHANGED <<shipped, dest, bak, dated, edits, templateCalls, lost>>

TmNext ==
  \/ \E t \in Templates : \/ Ship(t) \/ OwnerWrites(t) \/ CallTemplates("reset", {t}) \/ NoSource(t)
                          \/ LookInit(t) \/ CheckInit(t) \/ LookReset(t) \/ LookUpgrade(t)
                          \/ SaveBackup(t) \/ CopyShipped(t) \/ RecordShipped(t)
  \/ CallTemplates("init", Templates) \/ CallTemplates("upgrade", Templates)
  \/ SaveManifest \/ TmDies

TmSpec == TmInit /\ [][TmNext]_tmVars

-----------------------------------------------------------------------------
TmTypeOK ==
  /\ shipped \in [Templates -> 0..MaxShipped]
  /\ dest \in [Templates -> FileContents] /\ bak \in [Templates -> FileContents]
  /\ dated \in [Templates -> SUBSET FileContents]
  /\ manifest \in TmManifests
  /\ tm \in TmCalls
  /\ edits \in 0..MaxTemplateEdits /\ templateCalls \in 0..MaxTemplateCalls
  /\ lost \subseteq Causes \X {UserEdit(n) : n \in 1..MaxTemplateEdits}

\* What a copy is about to overwrite, if it is an edit that was looked at, is in a
\* backup, or in a file the manifest does not know.
SeenSafe ==
  \A t \in Templates : InHand(t, "copy") /\ IsEdit(tm.seen) =>
    \/ tm.seen \in {bak[t]} \cup dated[t]
    \/ tm.at = "upgrade" /\ tm.loaded[t] = Unknown

\* Every edit is in the file, in its .bak or in a dated backup, or is gone in
\* one of the ways of Causes: what a call looked at or backed up, and what is
\* recorded as edited, is never overwritten without a copy of it, whatever the
\* calls, edits, releases, failures and crashes (reset 230-236, upgrade 279-291).
EditsKept ==
  \A n \in 1..edits :
    \/ \E cause \in Causes : <<cause, UserEdit(n)>> \in lost
    \/ \E t \in Templates : UserEdit(n) \in {dest[t], bak[t]} \cup dated[t]

\* "Apply template updates, preserving user customizations" (250): not an edit
\* of a file the manifest has no entry for, not one written between the look
\* and the copy, and not the backup an upgrade of the same second made.
UpgradePreserves == \A l \in lost : l[1] \in {"owner", "reset"}
=============================================================================
