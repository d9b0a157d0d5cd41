----------------------------- MODULE ConfigStore -----------------------------
(***************************************************************************)
(* Store.rmw of internal/config/persist.go with the managed credentials of *)
(* internal/config/secretrefs.go: one read-modify-write of the config      *)
(* file, step by step, with the failures each step handles and a crash or  *)
(* a power loss between any two of them.                                   *)
(*                                                                         *)
(* A document is the set of the secret names it refers to; nothing else in *)
(* it matters to what the store has to keep together.  A write of a file   *)
(* is atomic (temporary file, fsync, rename), but a rename is durable only *)
(* once the directory is synced, so a power loss may undo it.  The         *)
(* directory of the credentials is never synced: a power loss may undo     *)
(* their creation and their removal too.                                   *)
(*                                                                         *)
(* A handler that saves and then fails (an audit record, the notification  *)
(* engine, the console state) writes back what it had read before its save *)
(* (admin.go:223, admin.go:651, backup.go:397, backup.go:416); other saves *)
(* may come in between.                                                    *)
(***************************************************************************)
EXTENDS Integers, FiniteSets

CONSTANTS
    External,     \* names provisioned outside the service
    MaxNames,     \* bound on the managed names ever created
    MaxPlain,     \* bound on the plaintext secrets of one mutation
    MaxHandlers,  \* bound on the handlers that may still take their save back
    MaxFaults,    \* bound on failed disk operations, crashes and power losses together
    MaxCrashes    \* bound on crashes and power losses

ASSUME BoundsAssumption ==
    {MaxNames, MaxPlain, MaxHandlers, MaxFaults, MaxCrashes} \subseteq Nat

\* Managed names are numbered in the order of their creation: secretNameForPath
\* ends each in 8 random bytes, so no name is used twice.
Managed == 1..MaxNames

ASSUME NamesAssumption == External \cap Nat = {}

VARIABLES
    config,      \* the document in the config file
    bak,         \* the document in its .bak
    configMay,   \* the documents a power loss may leave in the config file
    bakMay,      \* and in the .bak
    store,       \* the managed credentials on disk
    fresh,       \* the managed names used so far
    op,          \* the read-modify-write under way
    handlers,    \* those that have saved and may still take it back
    bakFailed,   \* ghost: a write of .bak failed, and none was synced since
    excused,     \* ghost: names a power loss took, or that were pruned already when a
                 \* handler wrote a reference to them back
    faults, crashes

vars == <<config, bak, configMay, bakMay, store, fresh, op, handlers, bakFailed, excused,
          faults, crashes>>

Doc == SUBSET (Managed \union External)

Pcs == {"idle", "protect", "replace", "prune"}

\* An operation: the document it read, the one it writes, the names it has
\* provisioned, the plaintext secrets it has still to move to the store, and whether
\* it takes an earlier save back.
Op == [pc : Pcs, orig : Doc, doc : Doc, names : SUBSET Managed, left : Nat, back : BOOLEAN]

Idle == [pc |-> "idle", orig |-> {}, doc |-> {}, names |-> {}, left |-> 0, back |-> FALSE]

\* A handler: the document it read before its save, and whether nothing has been saved
\* since that save (ghost).
Handler == [old : Doc, last : BOOLEAN]

Init ==
    /\ \E d \in SUBSET External : config = d
    /\ bak = {}
    /\ configMay = {config}
    /\ bakMay = {bak}
    /\ store = {}
    /\ fresh = 0
    /\ op = Idle
    /\ handlers = {}
    /\ bakFailed = FALSE /\ excused = {}
    /\ faults = 0
    /\ crashes = 0

Fault == faults < MaxFaults /\ faults' = faults + 1

\* rmw reads the file and applies mutate: the new document keeps some references,
\* may use external ones, and holds n secrets in plaintext.  A mutate that returns
\* an error (ErrConfigChanged, a key that exists) leaves before anything happens.
Begin(kept, n) ==
    /\ op.pc = "idle"
    /\ fresh + n =< MaxNames
    /\ op' = [pc |-> "protect", orig |-> config, doc |-> kept, names |-> {},
              left |-> n, back |-> FALSE]
    /\ UNCHANGED <<config, bak, configMay, bakMay, store, fresh, handlers, bakFailed, excused,
                   faults, crashes>>

\* The rmw of a rollback: some of the references of the document the handler read come
\* back, whether or not another save has dropped and pruned them meanwhile.
Rollback(h, kept) ==
    /\ op.pc = "idle"
    /\ op' = [pc |-> "protect", orig |-> config, doc |-> kept, names |-> {},
              left |-> 0, back |-> TRUE]
    /\ handlers' = handlers \ {h}
    /\ excused' = excused \union (kept \ (store \union External))
    /\ UNCHANGED <<config, bak, configMay, bakMay, store, fresh, bakFailed, faults, crashes>>

\* A handler is done and keeps its save.
HandlerDone(h) ==
    /\ handlers' = handlers \ {h}
    /\ UNCHANGED <<config, bak, configMay, bakMay, store, fresh, op, bakFailed, excused,
                   faults, crashes>>

\* protectDocumentSecrets moves one plaintext secret to a new credential file and
\* puts a reference in its place.
Protect ==
    /\ op.pc = "protect" /\ op.left > 0
    /\ fresh' = fresh + 1
    /\ store' = store \union {fresh'}
    /\ op' = [op EXCEPT !.doc = @ \union {fresh'}, !.names = @ \union {fresh'}, !.left = @ - 1]
    /\ UNCHANGED <<config, bak, configMay, bakMay, handlers, bakFailed, excused, faults, crashes>>

\* removeManagedCredentialNames: the names this operation created go; a removal
\* that fails is ignored.
Discard(kept) == store' = store \ (op.names \ kept)

Abandon(kept) ==
    /\ kept = {} \/ faults + 1 < MaxFaults
    /\ faults' = faults + (IF kept = {} THEN 1 ELSE 2)
    /\ Discard(kept)
    /\ op' = Idle

\* A credential cannot be written: the config file is left alone.
ProtectFails(kept) ==
    /\ op.pc = "protect" /\ op.left > 0
    /\ faults < MaxFaults
    /\ Abandon(kept)
    /\ UNCHANGED <<config, bak, configMay, bakMay, fresh, handlers, bakFailed, excused, crashes>>

\* writeAtomicFile0600 on the .bak: an error is only logged.
BackupOk ==
    /\ op.pc = "protect" /\ op.left = 0
    /\ bak' = op.orig
    /\ bakMay' = {op.orig}
    /\ configMay' = {config}    \* the same directory: earlier renames are durable too
    /\ bakFailed' = FALSE
    /\ op' = [op EXCEPT !.pc = "replace"]
    /\ UNCHANGED <<config, store, fresh, handlers, excused, faults, crashes>>

BackupUnsynced ==
    /\ op.pc = "protect" /\ op.left = 0
    /\ Fault
    /\ bak' = op.orig
    /\ bakMay' = bakMay \union {op.orig}
    /\ op' = [op EXCEPT !.pc = "replace"]
    /\ UNCHANGED <<config, configMay, store, fresh, handlers, bakFailed, excused, crashes>>

BackupFails ==
    /\ op.pc = "protect" /\ op.left = 0
    /\ Fault
    /\ bakFailed' = TRUE
    /\ op' = [op EXCEPT !.pc = "replace"]
    /\ UNCHANGED <<config, bak, configMay, bakMay, store, fresh, handlers, excused, crashes>>

\* The save is seen by everyone: the handler that made it may still take it back, for
\* the others it came in between.
Publish ==
    LET others == {[h EXCEPT !.last = FALSE] : h \in handlers}
        mine == [old |-> op.orig, last |-> TRUE]
    IN  \/ handlers' = others
        \/ /\ ~op.back /\ Cardinality(handlers) < MaxHandlers
           /\ handlers' = others \union {mine}

\* The document replaces the config file.
ReplaceOk ==
    /\ op.pc = "replace"
    /\ config' = op.doc
    /\ configMay' = {op.doc}
    /\ bakMay' = {bak}
    /\ op' = [op EXCEPT !.pc = "prune"]
    /\ Publish
    /\ UNCHANGED <<bak, store, fresh, bakFailed, excused, faults, crashes>>

Mut_UnsyncedIsFailure ==
    /\ op.pc = "replace"
    /\ Fault
    /\ config' = op.doc
    /\ configMay' = configMay \union {op.doc}
    /\ store' = store \ op.names
    /\ op' = Idle
    /\ UNCHANGED <<bak, bakMay, fresh, handlers, bakFailed, excused, crashes>>

\* The rename happened and the directory sync failed: reported as saved, and no
\* credential of either generation is removed.
ReplaceUnsynced ==
    /\ op.pc = "replace"
    /\ Fault
    /\ config' = op.doc
    /\ configMay' = configMay \union {op.doc}
    /\ op' = Idle
    /\ Publish
    /\ UNCHANGED <<bak, bakMay, store, fresh, bakFailed, excused, crashes>>

ReplaceFails(kept) ==
    /\ op.pc = "replace"
    /\ faults < MaxFaults
    /\ Abandon(kept)
    /\ UNCHANGED <<config, bak, configMay, bakMay, fresh, handlers, bakFailed, excused, crashes>>

Mut_KeepCurrentOnly == store \ op.doc
Mut_KeepBackup == store \ (op.doc \union bak)

\* cleanupManagedCredentialStore: what neither the new document nor the one it
\* replaced refers to.
Obsolete == store \ (op.doc \union op.orig)

Prune(n) ==
    /\ op.pc = "prune"
    /\ n \in Obsolete
    /\ store' = store \ {n}
    /\ UNCHANGED <<config, bak, configMay, bakMay, fresh, op, handlers, bakFailed, excused,
                   faults, crashes>>

\* A removal fails: the others are left for the next mutation.
PruneFails ==
    /\ op.pc = "prune" /\ Obsolete # {}
    /\ Fault
    /\ op' = Idle
    /\ UNCHANGED <<config, bak, configMay, bakMay, store, fresh, handlers, bakFailed, excused, crashes>>

PruneDone ==
    /\ op.pc = "prune" /\ Obsolete = {}
    /\ op' = Idle
    /\ UNCHANGED <<config, bak, configMay, bakMay, store, fresh, handlers, bakFailed, excused,
                   faults, crashes>>

\* The process dies between two steps.
Crash ==
    /\ Fault /\ crashes < MaxCrashes
    /\ crashes' = crashes + 1
    /\ op' = Idle /\ handlers' = {}
    /\ UNCHANGED <<config, bak, configMay, bakMay, store, fresh, bakFailed, excused>>

\* The host loses power: what was not synced may be undone, the credentials made and
\* removed included.
PowerLoss ==
    /\ Fault /\ crashes < MaxCrashes
    /\ crashes' = crashes + 1
    /\ op' = Idle /\ handlers' = {}
    /\ config' \in configMay
    /\ configMay' = {config'}
    /\ bak' \in bakMay
    /\ bakMay' = {bak'}
    /\ store' \in SUBSET (1..fresh)
    /\ excused' = excused \union (store \ store')
    /\ UNCHANGED <<fresh, bakFailed>>

Next ==
    \/ \E kept \in SUBSET (config \union External), n \in 0..MaxPlain : Begin(kept, n)
    \/ \E h \in handlers : \E kept \in SUBSET (config \union h.old) : Rollback(h, kept)
    \/ \E h \in handlers : HandlerDone(h)
    \/ Protect
    \/ \E kept \in SUBSET op.names : ProtectFails(kept)
    \/ BackupOk
    \/ BackupUnsynced
    \/ BackupFails
    \/ ReplaceOk
    \/ ReplaceUnsynced
    \/ \E kept \in SUBSET op.names : ReplaceFails(kept)
    \/ \E n \in Obsolete : Prune(n)
    \/ PruneFails
    \/ PruneDone
    \/ Crash
    \/ PowerLoss

Spec == Init /\ [][Next]_vars

-----------------------------------------------------------------------------
(* Properties. *)

\* The variables keep their types.
TypeOK ==
    /\ config \in Doc /\ bak \in Doc
    /\ configMay \subseteq Doc /\ bakMay \subseteq Doc
    /\ store \subseteq Managed
    /\ fresh \in 0..MaxNames
    /\ op \in Op
    /\ handlers \subseteq Handler
    /\ bakFailed \in BOOLEAN
    /\ excused \subseteq Managed
    /\ faults \in 0..MaxFaults
    /\ crashes \in 0..MaxCrashes

\* Every reference of d has its credential, but for the two cases the code lets happen: a
\* power loss took it, or a rollback wrote the reference back after another save had
\* pruned it (persist.go:244).
Resolves(d) == d \subseteq store \union External \union excused

\* Every secret:// reference of the config file has its credential at every moment, also
\* in whatever document a power loss brings back: but for the excused names no step of a
\* save, of its failures or of a rollback leaves a dangling reference, wherever rmw was
\* interrupted.
ConfigResolves == \A d \in configMay \union {config} : Resolves(d)

\* The same of the .bak, unless a write of it failed since the last one that was
\* synced: pruning keeps the previous generation usable.
BackupResolves == ~bakFailed => \A d \in bakMay \union {bak} : Resolves(d)

\* A handler that takes its save back finds every credential of the document it restores
\* as long as nobody else has saved since, whatever became of the .bak: pruning keeps
\* what the save it ends has dropped (secretrefs.go:188).
RollbackResolves == \A h \in handlers : h.last => Resolves(h.old)

=============================================================================
