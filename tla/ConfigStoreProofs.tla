-------------------------- MODULE ConfigStoreProofs --------------------------
(***************************************************************************)
(* Proofs about the config store, for every set of external names and all  *)
(* bounds.  The three properties are not inductive: that the credentials   *)
(* an abandoned mutation discards, and those a finished one prunes, are    *)
(* needed by no document and by no handler depends on where the names come *)
(* from and on what the operation under way has read and written (OpInv).  *)
(***************************************************************************)
EXTENDS ConfigStore, TLAPS

\* The documents on disk, or on disk again after a power loss.
OnDisk == configMay \union bakMay \union {config, bak}

\* Every managed name a document mentions has been created.
NamesExist ==
    /\ \A d \in OnDisk \union {op.orig, op.doc} : \A n \in d \cap Nat : n =< fresh
    /\ \A h \in handlers : \A n \in h.old \cap Nat : n =< fresh
    /\ \A n \in op.names : n =< fresh

\* Until the config file is replaced, the names the operation created are its own,
\* it writes over the document it read, and all it refers to is in the store.
Unpublished ==
    op.pc \in {"protect", "replace"} =>
        /\ op.orig = config
        /\ op.doc \subseteq store \union External \union excused
        /\ \A d \in OnDisk : d \cap op.names = {}
        /\ \A h \in handlers : h.old \cap op.names = {}

\* The .bak holds the document the operation read once it has been written.
BackedUp == op.pc \in {"replace", "prune"} /\ ~bakFailed => bak = op.orig

\* Pruning starts when nothing but the new document can come back, and the handler whose
\* save it ends is the only one that may count on the document before it.
Committed ==
    op.pc = "prune" =>
        /\ config = op.doc /\ configMay = {config} /\ bakMay = {bak}
        /\ op.orig \subseteq store \union External \union excused
        /\ \A h \in handlers : h.last => h.old = op.orig

\* The names the operation has still to create are within the bound.
Room == op.pc = "protect" => fresh + op.left =< MaxNames

MayHold == config \in configMay /\ bak \in bakMay

OpInv == NamesExist /\ Unpublished /\ BackedUp /\ Committed /\ Room /\ MayHold

IInv == TypeOK /\ OpInv /\ ConfigResolves /\ BackupResolves /\ RollbackResolves

-----------------------------------------------------------------------------

\* The first document refers to external names only.
LEMMA InitIInv == Init => IInv
  <1> SUFFICES ASSUME Init PROVE IInv
    OBVIOUS
  <1> USE DEF Init, Idle
  <1>1. TypeOK
    <2>1. op \in Op
      BY DEF Op, Pcs, Doc
    <2>2. config \in Doc /\ bak \in Doc /\ configMay \subseteq Doc /\ bakMay \subseteq Doc
      BY DEF Doc
    <2>3. store \subseteq Managed /\ fresh \in 0..MaxNames /\ faults \in 0..MaxFaults
          /\ crashes \in 0..MaxCrashes
      BY BoundsAssumption
    <2> QED BY <2>1, <2>2, <2>3, Zenon DEF TypeOK
  <1>2. OpInv
    BY NamesAssumption DEF OpInv, NamesExist, Unpublished, BackedUp, Committed, Room, MayHold, OnDisk
  <1>3. ConfigResolves /\ BackupResolves /\ RollbackResolves
    BY DEF ConfigResolves, BackupResolves, RollbackResolves, Resolves
  <1> QED BY <1>1, <1>2, <1>3 DEF IInv

\* Publish: the handlers it leaves are handlers.
LEMMA PublishedHandlers == TypeOK /\ Publish => handlers' \subseteq Handler
  <1> SUFFICES ASSUME TypeOK, Publish PROVE handlers' \subseteq Handler
    OBVIOUS
  <1>1. \A g \in handlers : [g EXCEPT !.last = FALSE] \in Handler
    <2> SUFFICES ASSUME NEW g \in handlers PROVE [g EXCEPT !.last = FALSE] \in Handler
      OBVIOUS
    <2>1. g \in [old : Doc, last : BOOLEAN]
      BY DEF TypeOK, Handler
    <2> QED BY <2>1 DEF Handler
  <1>2. op.orig \in Doc
    BY DEF TypeOK, Op
  <1>3. [old |-> op.orig, last |-> TRUE] \in Handler
    BY <1>2 DEF Handler
  <1> QED
    BY <1>1, <1>3, Zenon DEF Publish

\* Every step of a mutation, a crash and a power loss keep the invariant.
LEMMA NextIInv == IInv /\ [Next]_vars => IInv'
  <1> SUFFICES ASSUME IInv, [Next]_vars PROVE IInv'
    OBVIOUS
  <1> USE BoundsAssumption, NamesAssumption
  <1> USE DEF IInv, TypeOK, Op, Pcs, Doc, Handler, Managed, OpInv, NamesExist, Unpublished,
              BackedUp, Committed, Room, MayHold, OnDisk, ConfigResolves, BackupResolves, RollbackResolves, Resolves
  <1>1. ASSUME NEW kept \in SUBSET (config \union External), NEW n \in 0..MaxPlain,
               Begin(kept, n)
        PROVE  IInv'
    BY <1>1 DEF Begin
  <1>a. ASSUME NEW h \in handlers, NEW kept \in SUBSET (config \union h.old), Rollback(h, kept)
        PROVE  IInv'
    <2>0. /\ op.pc = "idle" /\ op'.pc = "protect" /\ op'.orig = config /\ op'.doc = kept
          /\ op'.names = {} /\ op'.left = 0 /\ op'.back = TRUE
          /\ op' = [pc |-> "protect", orig |-> config, doc |-> kept, names |-> {},
                    left |-> 0, back |-> TRUE]
      BY <1>a DEF Rollback
    <2>1. handlers' \subseteq handlers /\ UNCHANGED <<config, bak, configMay, bakMay, store,
                                                       fresh, bakFailed, faults, crashes>>
      BY <1>a DEF Rollback
    <2>2. excused' = excused \union (kept \ (store \union External))
      BY <1>a DEF Rollback
    <2>3. kept \in Doc /\ \A n \in kept \cap Nat : n =< fresh
      OBVIOUS
    <2>4. TypeOK'
      <3>1. op' \in Op
        BY <2>0, <2>3
      <3>2. excused' \subseteq Managed
        BY <2>2, <2>3
      <3> QED BY <3>1, <3>2, <2>1
    <2>5. NamesExist'
      BY <2>0, <2>1, <2>3
    <2>6. (Unpublished /\ BackedUp /\ Committed /\ Room /\ MayHold)'
      BY <2>0, <2>1, <2>2
    <2>7. (ConfigResolves /\ BackupResolves /\ RollbackResolves)'
      BY <2>1, <2>2
    <2> QED BY <2>4, <2>5, <2>6, <2>7
  <1>b. ASSUME NEW h \in handlers, HandlerDone(h) PROVE IInv'
    BY <1>b DEF HandlerDone
  <1>2. CASE Protect
    <2> HIDE DEF ConfigResolves, BackupResolves, RollbackResolves, Unpublished, Committed, BackedUp, OnDisk
    <2>0. fresh' = fresh + 1 /\ fresh' \in 1..MaxNames /\ op.left - 1 \in Nat
      BY <1>2 DEF Protect
    <2>a. op.doc \union {fresh'} \in Doc /\ op.names \union {fresh'} \in SUBSET Managed
      BY <2>0
    <2>b. op' = [op EXCEPT !.doc = @ \union {fresh'}, !.names = @ \union {fresh'}, !.left = @ - 1]
      BY <1>2 DEF Protect
    <2>c. /\ op'.orig = op.orig /\ op'.doc = op.doc \union {fresh'}
          /\ op'.names = op.names \union {fresh'} /\ op'.left = op.left - 1 /\ op'.pc = op.pc
      BY <2>b
    <2>1. TypeOK'
      <3>1. op' \in Op
        <4> HIDE DEF Doc, Managed, Pcs
        <4> QED BY <2>0, <2>a, <2>b
      <3>2. bakFailed' \in BOOLEAN
        BY <1>2 DEF Protect
      <3>3. (config \in Doc /\ bak \in Doc /\ configMay \subseteq Doc /\ bakMay \subseteq Doc)'
        BY <1>2 DEF Protect
      <3>4. (store \subseteq Managed /\ fresh \in 0..MaxNames /\ faults \in 0..MaxFaults
             /\ crashes \in 0..MaxCrashes)'
        BY <1>2, <2>0 DEF Protect
      <3>5. handlers' \subseteq Handler /\ excused' \subseteq Managed
        BY <1>2 DEF Protect
      <3> QED BY <3>1, <3>2, <3>3, <3>4, <3>5
    <2>2. NamesExist'
      <3>1. OnDisk' = OnDisk
        BY <1>2 DEF Protect, OnDisk
      <3>2. \A n \in op'.names : n =< fresh'
        BY <2>0, <2>c
      <3>3. ASSUME NEW d \in OnDisk \union {op.orig, op.doc}, NEW n \in d \cap Nat
            PROVE  n =< fresh'
        <4>1. n =< fresh
          BY <3>3
        <4> QED BY <4>1, <2>0
      <3>4. ASSUME NEW n \in op'.doc \cap Nat PROVE n =< fresh'
        BY <3>3, <3>4, <2>0, <2>c
      <3>5. ASSUME NEW h \in handlers', NEW n \in h.old \cap Nat PROVE n =< fresh'
        <4>1. handlers' = handlers
          BY <1>2 DEF Protect
        <4>2. n =< fresh
          BY <4>1, <3>5
        <4> QED BY <4>2, <2>0
      <3> QED BY <3>1, <3>2, <3>3, <3>4, <3>5, <2>c
    <2>3. (Unpublished /\ BackedUp /\ Committed /\ Room /\ MayHold)'
      BY <1>2, <2>0, <2>c DEF Protect, Unpublished, BackedUp, Committed, OnDisk
    <2>4. (ConfigResolves /\ BackupResolves /\ RollbackResolves)'
      BY <1>2 DEF Protect, ConfigResolves, BackupResolves, RollbackResolves, Resolves
    <2> QED BY <2>1, <2>2, <2>3, <2>4
  <1>3. ASSUME NEW kept \in SUBSET op.names, ProtectFails(kept) PROVE IInv'
    <2>1. TypeOK'
      <3>1. op' \in Op
        BY <1>3 DEF ProtectFails, Abandon, Discard, Idle
      <3>2. bakFailed' \in BOOLEAN
        BY <1>3 DEF ProtectFails, Abandon, Discard, Idle
      <3>3. (config \in Doc /\ bak \in Doc /\ configMay \subseteq Doc /\ bakMay \subseteq Doc)'
        BY <1>3 DEF ProtectFails, Abandon, Discard, Idle
      <3>4. (store \subseteq Managed /\ fresh \in 0..MaxNames /\ faults \in 0..MaxFaults
             /\ crashes \in 0..MaxCrashes)'
        <4>1. faults < MaxFaults /\ (kept = {} \/ faults + 1 < MaxFaults)
          BY <1>3 DEF ProtectFails, Abandon
        <4>2. faults' = faults + 1 \/ (faults + 1 < MaxFaults /\ faults' = faults + 2)
          BY <1>3, <4>1 DEF ProtectFails, Abandon
        <4>3. faults' \in 0..MaxFaults
          BY <4>1, <4>2
        <4>4. store' \subseteq store /\ UNCHANGED <<fresh, crashes>>
          BY <1>3 DEF ProtectFails, Abandon, Discard
        <4> QED BY <4>3, <4>4
      <3>5. handlers' \subseteq Handler /\ excused' \subseteq Managed
        BY <1>3 DEF ProtectFails, Abandon, Discard, Idle
      <3> QED BY <3>1, <3>2, <3>3, <3>4, <3>5
    <2>2. NamesExist'
      BY <1>3 DEF ProtectFails, Abandon, Discard, Idle
    <2>3. (Unpublished /\ BackedUp /\ Committed /\ Room /\ MayHold)'
      BY <1>3 DEF ProtectFails, Abandon, Discard, Idle
    <2>4. (ConfigResolves /\ BackupResolves /\ RollbackResolves)'
      BY <1>3 DEF ProtectFails, Abandon, Discard, Idle
    <2> QED BY <2>1, <2>2, <2>3, <2>4
  <1>4. CASE BackupOk
    BY <1>4 DEF BackupOk
  <1>5. CASE BackupUnsynced
    BY <1>5 DEF BackupUnsynced, Fault
  <1>6. CASE BackupFails
    BY <1>6 DEF BackupFails, Fault
  <1>7. CASE ReplaceOk
    <2>0. /\ op.pc = "replace" /\ op' = [op EXCEPT !.pc = "prune"]
          /\ config' = op.doc /\ configMay' = {op.doc} /\ bakMay' = {bak}
          /\ UNCHANGED <<bak, store, fresh, bakFailed, excused, faults, crashes>>
      BY <1>7 DEF ReplaceOk
    <2>1. \A h \in handlers' :
             \/ ~h.last /\ \E g \in handlers : h = [g EXCEPT !.last = FALSE]
             \/ h = [old |-> op.orig, last |-> TRUE]
      BY <1>7 DEF ReplaceOk, Publish
    <2>2. TypeOK'
      <3>1. op' \in Op
        BY <2>0
      <3>2. handlers' \subseteq Handler
        BY <1>7, PublishedHandlers DEF ReplaceOk
      <3> QED BY <2>0, <3>1, <3>2
    <2>3. NamesExist'
      BY <2>0, <2>1
    <2>4. (Unpublished /\ BackedUp /\ Committed /\ Room /\ MayHold)'
      BY <2>0, <2>1
    <2>5. (ConfigResolves /\ BackupResolves /\ RollbackResolves)'
      BY <2>0, <2>1
    <2> QED BY <2>2, <2>3, <2>4, <2>5
  <1>8. CASE ReplaceUnsynced
    <2>1. TypeOK'
      <3>1. op' \in Op
        BY <1>8 DEF ReplaceUnsynced, Publish, Fault, Idle
      <3>2. bakFailed' \in BOOLEAN
        BY <1>8 DEF ReplaceUnsynced, Publish, Fault, Idle
      <3>3. (config \in Doc /\ bak \in Doc /\ configMay \subseteq Doc /\ bakMay \subseteq Doc)'
        BY <1>8 DEF ReplaceUnsynced, Publish, Fault, Idle
      <3>4. (store \subseteq Managed /\ fresh \in 0..MaxNames /\ faults \in 0..MaxFaults
             /\ crashes \in 0..MaxCrashes)'
        BY <1>8 DEF ReplaceUnsynced, Publish, Fault, Idle
      <3>5. handlers' \subseteq Handler /\ excused' \subseteq Managed
        <4>2. handlers' \subseteq Handler
          BY <1>8, PublishedHandlers DEF ReplaceUnsynced
        <4> QED BY <1>8, <4>2 DEF ReplaceUnsynced
      <3> QED BY <3>1, <3>2, <3>3, <3>4, <3>5
    <2>2. NamesExist'
      BY <1>8 DEF ReplaceUnsynced, Publish, Fault, Idle
    <2>3. (Unpublished /\ BackedUp /\ Committed /\ Room /\ MayHold)'
      BY <1>8 DEF ReplaceUnsynced, Publish, Fault, Idle
    <2>4. (ConfigResolves /\ BackupResolves /\ RollbackResolves)'
      BY <1>8 DEF ReplaceUnsynced, Publish, Fault, Idle
    <2> QED BY <2>1, <2>2, <2>3, <2>4
  <1>9. ASSUME NEW kept \in SUBSET op.names, ReplaceFails(kept) PROVE IInv'
    <2>1. TypeOK'
      <3>1. op' \in Op
        BY <1>9 DEF ReplaceFails, Abandon, Discard, Idle
      <3>2. bakFailed' \in BOOLEAN
        BY <1>9 DEF ReplaceFails, Abandon, Discard, Idle
      <3>3. (config \in Doc /\ bak \in Doc /\ configMay \subseteq Doc /\ bakMay \subseteq Doc)'
        BY <1>9 DEF ReplaceFails, Abandon, Discard, Idle
      <3>4. (store \subseteq Managed /\ fresh \in 0..MaxNames /\ faults \in 0..MaxFaults
             /\ crashes \in 0..MaxCrashes)'
        <4>1. faults < MaxFaults /\ (kept = {} \/ faults + 1 < MaxFaults)
          BY <1>9 DEF ReplaceFails, Abandon
        <4>2. faults' = faults + 1 \/ (faults + 1 < MaxFaults /\ faults' = faults + 2)
          BY <1>9, <4>1 DEF ReplaceFails, Abandon
        <4>3. faults' \in 0..MaxFaults
          BY <4>1, <4>2
        <4>4. store' \subseteq store /\ UNCHANGED <<fresh, crashes>>
          BY <1>9 DEF ReplaceFails, Abandon, Discard
        <4> QED BY <4>3, <4>4
      <3>5. handlers' \subseteq Handler /\ excused' \subseteq Managed
        BY <1>9 DEF ReplaceFails, Abandon, Discard, Idle
      <3> QED BY <3>1, <3>2, <3>3, <3>4, <3>5
    <2>2. NamesExist'
      BY <1>9 DEF ReplaceFails, Abandon, Discard, Idle
    <2>3. (Unpublished /\ BackedUp /\ Committed /\ Room /\ MayHold)'
      BY <1>9 DEF ReplaceFails, Abandon, Discard, Idle
    <2>4. (ConfigResolves /\ BackupResolves /\ RollbackResolves)'
      BY <1>9 DEF ReplaceFails, Abandon, Discard, Idle
    <2> QED BY <2>1, <2>2, <2>3, <2>4
  <1>10. ASSUME NEW n \in Obsolete, Prune(n) PROVE IInv'
    <2>1. TypeOK'
      BY <1>10 DEF Prune, Obsolete
    <2>2. NamesExist'
      BY <1>10 DEF Prune, Obsolete
    <2>3. (Unpublished /\ BackedUp /\ Committed /\ Room /\ MayHold)'
      BY <1>10 DEF Prune, Obsolete
    <2>4. (ConfigResolves /\ BackupResolves /\ RollbackResolves)'
      BY <1>10 DEF Prune, Obsolete
    <2> QED BY <2>1, <2>2, <2>3, <2>4
  <1>11. CASE PruneFails
    <2>1. TypeOK'
      <3>1. op' \in Op
        BY <1>11 DEF PruneFails, Fault, Idle
      <3>2. bakFailed' \in BOOLEAN
        BY <1>11 DEF PruneFails, Fault, Idle
      <3>3. (config \in Doc /\ bak \in Doc /\ configMay \subseteq Doc /\ bakMay \subseteq Doc)'
        BY <1>11 DEF PruneFails, Fault, Idle
      <3>4. (store \subseteq Managed /\ fresh \in 0..MaxNames /\ faults \in 0..MaxFaults
             /\ crashes \in 0..MaxCrashes)'
        BY <1>11 DEF PruneFails, Fault, Idle
      <3>5. handlers' \subseteq Handler /\ excused' \subseteq Managed
        BY <1>11 DEF PruneFails, Fault, Idle
      <3> QED BY <3>1, <3>2, <3>3, <3>4, <3>5
    <2>2. NamesExist'
      BY <1>11 DEF PruneFails, Fault, Idle
    <2>3. (Unpublished /\ BackedUp /\ Committed /\ Room /\ MayHold)'
      BY <1>11 DEF PruneFails, Fault, Idle
    <2>4. (ConfigResolves /\ BackupResolves /\ RollbackResolves)'
      BY <1>11 DEF PruneFails, Fault, Idle
    <2> QED BY <2>1, <2>2, <2>3, <2>4
  <1>12. CASE PruneDone
    BY <1>12 DEF PruneDone, Idle
  <1>13. CASE Crash
    BY <1>13 DEF Crash, Fault, Idle
  <1>14. CASE PowerLoss
    BY <1>14 DEF PowerLoss, Fault, Idle
  <1>15. CASE UNCHANGED vars
    BY <1>15 DEF vars
  <1> QED
    BY <1>1, <1>a, <1>b, <1>2, <1>3, <1>4, <1>5, <1>6, <1>7, <1>8, <1>9, <1>10, <1>11, <1>12, <1>13,
       <1>14, <1>15 DEF Next

\* Store.rmw: wherever it fails or is interrupted, and whatever a handler writes back, every
\* reference of the config file and of what a power loss brings back in its place has its
\* credential, unless a power loss took that or another save had pruned it before the
\* rollback wrote its reference back.
THEOREM ConfigAlwaysResolves == Spec => []ConfigResolves
  <1>1. IInv => ConfigResolves
    BY DEF IInv
  <1> QED BY InitIInv, NextIInv, <1>1, PTL DEF Spec

\* Store.rmw and cleanupManagedCredentialStore: the same of the .bak, unless a write
\* of it failed since the last one that was synced.
THEOREM BackupAlwaysResolves == Spec => []BackupResolves
  <1>1. IInv => BackupResolves
    BY DEF IInv
  <1> QED BY InitIInv, NextIInv, <1>1, PTL DEF Spec

\* cleanupManagedCredentialStore: a handler that takes its save back before the next one
\* finds every credential of the document it restores, also when no .bak was written.
THEOREM RollbackAlwaysResolves == Spec => []RollbackResolves
  <1>1. IInv => RollbackResolves
    BY DEF IInv
  <1> QED BY InitIInv, NextIInv, <1>1, PTL DEF Spec

=============================================================================
