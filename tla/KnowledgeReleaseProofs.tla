---------------------- MODULE KnowledgeReleaseProofs ----------------------
(***************************************************************************)
(* What the release store keeps for any number of operators, catalogs and  *)
(* releases: its types, and a pointer that names complete bundles.         *)
(*                                                                         *)
(* The pointer alone is not inductive: an operator writes one it composed, *)
(* or read, some steps before. StoreInv therefore also asks of every call  *)
(* that the two pointers it holds in memory are as sound as the one in     *)
(* force. They stay so because a bundle file, once written, never goes     *)
(* away: it can only be damaged (DiskOnlyGrows).                           *)
(***************************************************************************)
EXTENDS KnowledgeRelease, TLAPS

(* The pointers each call holds, whatever its stage. *)
HeldPointersSound ==
    \A o \in Operators : SoundPointer(op[o].old) /\ SoundPointer(op[o].new)

StoreInv == StoreTypeOK /\ PointerIsSound /\ HeldPointersSound

(* No bundle file disappears. *)
DiskOnlyGrows == \A r \in Releases : disk[r] # "absent" => disk'[r] # "absent"

-----------------------------------------------------------------------------
(* The store starts typed, without a pointer and without a call. *)
LEMMA StoreInitInv == StoreInit => StoreInv
  BY
  DEF StoreInit, StoreInv, StoreTypeOK, PointerIsSound, HeldPointersSound, SoundPointer,
      NoCall, Calls, Stages, FileStates

(* A sound pointer stays sound while files only appear. *)
LEMMA SoundStaysSound ==
  ASSUME NEW p \in Pointers \cup {Nil}, SoundPointer(p), DiskOnlyGrows
  PROVE  SoundPointer(p)'
  BY DEF SoundPointer, DiskOnlyGrows, Pointers

(* When a step only adds or damages files, leaves the pointer and gives one   *)
(* operator a call whose pointers are sound, the invariant is kept.           *)
LEMMA CallStep ==
  ASSUME StoreInv, authority' \in Contents, disk' \in [Releases -> FileStates], DiskOnlyGrows,
         UNCHANGED pointer,
         NEW o \in Operators, NEW call \in Calls, op' = [op EXCEPT ![o] = call],
         SoundPointer(call.old), SoundPointer(call.new)
  PROVE  StoreInv'
<1>1. StoreTypeOK'
  BY DEF StoreInv, StoreTypeOK
<1>2. PointerIsSound'
  <2>1. SoundPointer(pointer)'
    BY SoundStaysSound DEF StoreInv, StoreTypeOK, PointerIsSound, SoundPointer, DiskOnlyGrows, Pointers
  <2> QED BY <2>1 DEF PointerIsSound
<1>3. HeldPointersSound'
  <2>1. ASSUME NEW q \in Operators PROVE SoundPointer(op[q].old)' /\ SoundPointer(op[q].new)'
    <3>1. op'[q] = IF q = o THEN call ELSE op[q]
      BY DEF StoreInv, StoreTypeOK
    <3>2. op'[q] \in Calls /\ SoundPointer(op'[q].old) /\ SoundPointer(op'[q].new)
      BY <3>1 DEF StoreInv, StoreTypeOK, HeldPointersSound
    <3>3. op'[q].old \in Pointers \cup {Nil} /\ op'[q].new \in Pointers \cup {Nil}
      BY <3>2 DEF Calls
    <3> QED BY <3>2, <3>3 DEF SoundPointer, DiskOnlyGrows, Pointers
  <2> QED BY <2>1 DEF HeldPointersSound
<1> QED BY <1>1, <1>2, <1>3 DEF StoreInv

(* A call that is over holds no pointer. *)
LEMMA NoCallIsSound == NoCall \in Calls /\ SoundPointer(NoCall.old) /\ SoundPointer(NoCall.new)
  BY DEF NoCall, Calls, Stages, SoundPointer

-----------------------------------------------------------------------------
(* Every step of the world and of an operator keeps the invariant. *)
LEMMA StoreStepInv == StoreInv /\ [StoreNext]_storeVars => StoreInv'
<1> SUFFICES ASSUME StoreInv, [StoreNext]_storeVars PROVE StoreInv'
  OBVIOUS
<1> USE DEF StoreInv
<1>types. authority \in Contents /\ disk \in [Releases -> FileStates]
          /\ pointer \in Pointers \cup {Nil} /\ op \in [Operators -> Calls]
  BY DEF StoreTypeOK
<1>held. \A q \in Operators : op[q] \in Calls /\ SoundPointer(op[q].old) /\ SoundPointer(op[q].new)
  BY <1>types DEF HeldPointersSound
<1>1. CASE UNCHANGED storeVars
  BY <1>1 DEF storeVars, StoreTypeOK, PointerIsSound, HeldPointersSound, SoundPointer
<1>2. CASE AuthorityChanges
  BY <1>2 DEF AuthorityChanges, StoreTypeOK, PointerIsSound, HeldPointersSound, SoundPointer
<1>3. ASSUME NEW r \in Releases, BundleDamaged(r) PROVE StoreInv'
  <2>1. disk' \in [Releases -> FileStates] /\ DiskOnlyGrows
    BY <1>3, <1>types DEF BundleDamaged, DiskOnlyGrows, FileStates
  <2>2. StoreTypeOK'
    BY <1>3, <1>types, <2>1 DEF BundleDamaged, StoreTypeOK
  <2>3. SoundPointer(pointer)'
    BY <1>3, <1>types, <2>1 DEF BundleDamaged, PointerIsSound, SoundPointer, DiskOnlyGrows, Pointers
  <2>4. ASSUME NEW q \in Operators PROVE SoundPointer(op[q].old)' /\ SoundPointer(op[q].new)'
    <3>1. op' = op
      BY <1>3 DEF BundleDamaged
    <3>2. op[q].old \in Pointers \cup {Nil} /\ op[q].new \in Pointers \cup {Nil}
      BY <1>held DEF Calls
    <3> QED BY <1>held, <2>1, <3>1, <3>2 DEF SoundPointer, DiskOnlyGrows, Pointers
  <2> QED BY <2>2, <2>3, <2>4 DEF PointerIsSound, HeldPointersSound
<1>4. ASSUME NEW o \in Operators, StageCatalog(o) PROVE StoreInv'
  <2> DEFINE call == [NoCall EXCEPT !.pc = "staged", !.staged = authority]
  <2>1. call \in Calls /\ SoundPointer(call.old) /\ SoundPointer(call.new)
    BY <1>types DEF NoCall, Calls, Stages, SoundPointer
  <2>2. op' = [op EXCEPT ![o] = call] /\ UNCHANGED <<authority, disk, pointer>>
    BY <1>4 DEF StageCatalog
  <2> QED BY <1>types, <2>1, <2>2, CallStep DEF DiskOnlyGrows
<1>5. ASSUME NEW o \in Operators, BuildCandidate(o) PROVE StoreInv'
  <2>1. disk' \in [Releases -> FileStates] /\ DiskOnlyGrows
    BY <1>5, <1>types DEF BuildCandidate, DiskOnlyGrows, FileStates
  <2>2. PICK call \in Calls : /\ op' = [op EXCEPT ![o] = call]
                              /\ SoundPointer(call.old) /\ SoundPointer(call.new)
    BY <1>5, <1>types, <1>held, NoCallIsSound DEF BuildCandidate, Finish
  <2> QED BY <1>5, <1>types, <2>1, <2>2, CallStep DEF BuildCandidate
<1>6. ASSUME NEW o \in Operators, NEW r \in Releases, PrepareActivation(o, r) PROVE StoreInv'
  <2> DEFINE new == [current |-> r, by |-> o,
                     previous |-> IF pointer = Nil THEN Nil ELSE pointer.current]
             call == [pc |-> "switching", staged |-> Nil, old |-> pointer,
                      new |-> new, rollback |-> FALSE]
  <2>1. CASE pointer # Nil /\ pointer.current = r
    BY <1>6, <1>types, <2>1, NoCallIsSound, CallStep DEF PrepareActivation, Finish, DiskOnlyGrows
  <2>2. CASE ~(pointer # Nil /\ pointer.current = r)
    <3>1. new \in Pointers
      BY <1>types DEF Pointers
    <3>2. SoundPointer(new)
      BY <1>6, <1>types, <2>2, ReleasesAssumption
      DEF PrepareActivation, PointerIsSound, SoundPointer, Pointers
    <3>3. call \in Calls /\ SoundPointer(call.old) /\ SoundPointer(call.new)
      BY <1>types, <3>1, <3>2 DEF Calls, Stages, PointerIsSound
    <3>4. op' = [op EXCEPT ![o] = call] /\ UNCHANGED <<authority, disk, pointer>>
      BY <1>6, <2>2 DEF PrepareActivation, Switch
    <3> HIDE DEF call, new
    <3> QED BY <1>types, <3>3, <3>4, CallStep DEF DiskOnlyGrows
  <2> QED BY <2>1, <2>2
<1>7. ASSUME NEW o \in Operators, PrepareRollback(o) PROVE StoreInv'
  <2> DEFINE new == [current |-> pointer.previous, by |-> o, previous |-> pointer.current]
             call == [pc |-> "switching", staged |-> Nil, old |-> pointer,
                      new |-> new, rollback |-> TRUE]
  <2>1. pointer \in Pointers /\ pointer # Nil /\ pointer.previous # Nil
    BY <1>7, <1>types DEF PrepareRollback, ActiveRelease
  <2>2. new \in Pointers
    BY <2>1 DEF Pointers
  <2>3. SoundPointer(new)
    BY <1>7, <2>1 DEF PrepareRollback, PointerIsSound, SoundPointer, Pointers
  <2>4. call \in Calls /\ SoundPointer(call.old) /\ SoundPointer(call.new)
    BY <1>types, <2>2, <2>3 DEF Calls, Stages, PointerIsSound
  <2>5. op' = [op EXCEPT ![o] = call] /\ UNCHANGED <<authority, disk, pointer>>
    BY <1>7 DEF PrepareRollback, Switch
  <2> HIDE DEF call, new
  <2> QED BY <1>types, <2>4, <2>5, CallStep DEF DiskOnlyGrows
<1>8. ASSUME NEW o \in Operators, WritePointer(o) \/ RestorePointer(o) PROVE StoreInv'
  <2>1. PICK p \in Pointers \cup {Nil} : pointer' = p /\ SoundPointer(p)
    BY <1>8, <1>held DEF WritePointer, RestorePointer, Calls
  <2>2. PICK call \in Calls : /\ op' = [op EXCEPT ![o] = call]
                              /\ SoundPointer(call.old) /\ SoundPointer(call.new)
    <3>1. CASE RestorePointer(o)
      BY <3>1, NoCallIsSound DEF RestorePointer, Finish
    <3>2. CASE WritePointer(o)
      <4>1. [op[o] EXCEPT !.pc = "reloading"] \in Calls
        BY <1>held DEF Calls, Stages
      <4>2. /\ [op[o] EXCEPT !.pc = "reloading"].old = op[o].old
            /\ [op[o] EXCEPT !.pc = "reloading"].new = op[o].new
        BY <1>held DEF Calls
      <4>3. op' = [op EXCEPT ![o] = [op[o] EXCEPT !.pc = "reloading"]]
        BY <3>2, <1>types DEF WritePointer
      <4> QED BY <4>1, <4>2, <4>3, <1>held
    <3> QED BY <1>8, <3>1, <3>2
  <2>3. UNCHANGED <<authority, disk>>
    BY <1>8 DEF WritePointer, RestorePointer
  <2>4. StoreTypeOK'
    BY <1>types, <2>1, <2>2, <2>3 DEF StoreTypeOK
  <2>5. PointerIsSound'
    BY <2>1, <2>3 DEF PointerIsSound, SoundPointer
  <2>6. ASSUME NEW q \in Operators PROVE SoundPointer(op'[q].old) /\ SoundPointer(op'[q].new)
    BY <1>held, <1>types, <2>2
  <2>7. HeldPointersSound'
    BY <2>3, <2>6 DEF HeldPointersSound, SoundPointer
  <2> QED BY <2>4, <2>5, <2>7
<1>9. ASSUME NEW o \in Operators, WriteFails(o) \/ ReloadPointer(o) \/ CallStops(o) PROVE StoreInv'
  <2>1. PICK call \in Calls : /\ op' = [op EXCEPT ![o] = call]
                              /\ SoundPointer(call.old) /\ SoundPointer(call.new)
    <3>1. [op[o] EXCEPT !.pc = "restoring"] \in Calls
      BY <1>held DEF Calls, Stages
    <3>2. /\ [op[o] EXCEPT !.pc = "restoring"].old = op[o].old
          /\ [op[o] EXCEPT !.pc = "restoring"].new = op[o].new
      BY <1>held DEF Calls
    <3>3. \/ op' = [op EXCEPT ![o] = [op[o] EXCEPT !.pc = "restoring"]]
          \/ op' = [op EXCEPT ![o] = NoCall]
      BY <1>9, <1>types DEF WriteFails, ReloadPointer, CallStops, Finish
    <3> QED BY <3>1, <3>2, <3>3, <1>held, NoCallIsSound
  <2>2. UNCHANGED <<authority, disk, pointer>>
    BY <1>9 DEF WriteFails, ReloadPointer, CallStops
  <2> QED BY <1>types, <2>1, <2>2, CallStep DEF DiskOnlyGrows
<1> QED
  BY <1>1, <1>2, <1>3, <1>4, <1>5, <1>6, <1>7, <1>8, <1>9 DEF StoreNext

-----------------------------------------------------------------------------
(* The authority, the files, the pointer and every operator's call keep their *)
(* types, for any operators, catalogs and releases.                            *)
THEOREM StoreTypesAreRight == StoreSpec => []StoreTypeOK
<1>1. StoreInv => StoreTypeOK
  BY DEF StoreInv
<1> QED BY StoreInitInv, StoreStepInv, <1>1, PTL DEF StoreSpec

(* However many operators race, die or restore, active.json names a release   *)
(* whose bundle was completely written and, to roll back to, another one or    *)
(* none (activate_release, rollback_active_release).                           *)
THEOREM PointerAlwaysSound == StoreSpec => []PointerIsSound
<1>1. StoreInv => PointerIsSound
  BY DEF StoreInv
<1> QED BY StoreInitInv, StoreStepInv, <1>1, PTL DEF StoreSpec
=============================================================================
