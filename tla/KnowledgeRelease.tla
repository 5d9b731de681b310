-------------------------- MODULE KnowledgeRelease --------------------------
(***************************************************************************)
(* The release store of the business knowledge base                        *)
(* (engine/rag/release.py).  Operators build immutable bundles from a      *)
(* staged snapshot of the authority, and publish one by replacing the      *)
(* single pointer file.  Nothing locks the pointer: two operators may work *)
(* at once, and each may die between any two of its file operations.       *)
(* Requests read the store at any time (RAGAnswer).                        *)
(*                                                                         *)
(*   authority  what the catalog builder would stage now (external)        *)
(*   disk       the bundle file of every release                           *)
(*   pointer    active.json                                                *)
(*   op         what each operator's call holds in memory                  *)
(***************************************************************************)
EXTENDS Naturals, FiniteSets

CONSTANTS
    Operators,       \* processes that may call activate or roll back
    Contents,        \* catalogs the authority can hold (functions from documents)
    Releases,        \* the releases that can exist: records [content, policy]
    DeployedPolicy,  \* the policy and contract identities of the deployed code
    MaxDamaged,      \* bound: damaged bundles at one time
    Nil              \* "no value"

\* A release identity is the hash of its content and its policies, so a
\* release and its identity are one value here.  Every catalog can be built
\* under the deployed policy; other releases were left by earlier deployments.
ASSUME ReleasesAssumption ==
    /\ \A c \in Contents : [content |-> c, policy |-> DeployedPolicy] \in Releases
    /\ \A r \in Releases : r.content \in Contents
    /\ Nil \notin Releases
    /\ Nil \notin Contents

VARIABLES authority, disk, pointer, op

storeVars == <<authority, disk, pointer, op>>

\* "good" reloads with every hash intact; "bad" exists and does not.
FileStates == {"absent", "good", "bad"}

\* The approval record is part of the pointer's identity; by whom it was
\* given tells two pointers with the same current and previous apart.
Pointers == [current : Releases, previous : Releases \cup {Nil}, by : Operators]

Stages == {"idle", "staged", "switching", "reloading", "restoring"}

Calls == [pc : Stages, staged : Contents \cup {Nil}, old : Pointers \cup {Nil},
          new : Pointers \cup {Nil}, rollback : BOOLEAN]

StoreTypeOK ==
    /\ authority \in Contents
    /\ disk \in [Releases -> FileStates]
    /\ pointer \in Pointers \cup {Nil}
    /\ op \in [Operators -> Calls]

NoCall == [pc |-> "idle", staged |-> Nil, old |-> Nil, new |-> Nil, rollback |-> FALSE]

StoreInit ==
    /\ authority \in Contents
    /\ disk = [r \in Releases |->
                 IF r.policy = DeployedPolicy THEN "absent" ELSE "good"]
    /\ pointer = Nil
    /\ op = [o \in Operators |-> NoCall]

-----------------------------------------------------------------------------
(* Reading the store. *)

\* load_active_release: the pointer's bundle when it reloads intact.  A
\* damaged current release is an error; previous is never tried instead.
ActiveRelease ==
    IF pointer # Nil /\ disk[pointer.current] = "good" THEN pointer.current ELSE Nil

-----------------------------------------------------------------------------
(* The world around the store. *)

\* The business sources change (external).
AuthorityChanges ==
    /\ \E c \in Contents : authority' = c
    /\ UNCHANGED <<disk, pointer, op>>

\* A bundle file is damaged or becomes unreadable (external).
BundleDamaged(r) ==
    /\ disk[r] = "good" /\ Cardinality({x \in Releases : disk[x] = "bad"}) < MaxDamaged
    /\ disk' = [disk EXCEPT ![r] = "bad"]
    /\ UNCHANGED <<authority, pointer, op>>

-----------------------------------------------------------------------------
(* One operator's calls. *)

Finish(o) == op' = [op EXCEPT ![o] = NoCall]

\* The call is about to replace the pointer it read.
Switch(o, new, rollback) ==
    op' = [op EXCEPT ![o] = [pc |-> "switching", staged |-> Nil, old |-> pointer,
                             new |-> new, rollback |-> rollback]]

\* The operator stages the catalog its calls will be given.
StageCatalog(o) ==
    /\ op[o].pc = "idle"
    /\ op' = [op EXCEPT ![o] = [NoCall EXCEPT !.pc = "staged", !.staged = authority]]
    /\ UNCHANGED <<authority, disk, pointer>>

\* build_candidate_release: write the bundle of the staged catalog once; an
\* existing file must be byte for byte the same, or the call is refused.
BuildCandidate(o) ==
    LET r == [content |-> op[o].staged, policy |-> DeployedPolicy] IN
    /\ op[o].pc = "staged"
    /\ \/ /\ disk[r] = "absent"
          /\ disk' = [disk EXCEPT ![r] = "good"]
          /\ UNCHANGED op
       \/ /\ disk[r] = "bad"
          /\ Finish(o)
          /\ UNCHANGED disk
    /\ UNCHANGED <<authority, pointer>>

\* activate_release up to the switch: reload the bundle, compare it with the
\* staged catalog, read the pointer in force.  An already active release is
\* reported as done.
PrepareActivation(o, r) ==
    /\ op[o].pc = "staged"
    /\ disk[r] = "good"
    /\ r.content = op[o].staged
    /\ IF pointer # Nil /\ pointer.current = r
       THEN Finish(o)
       ELSE Switch(o, [current |-> r, by |-> o,
                       previous |-> IF pointer = Nil THEN Nil ELSE pointer.current],
                   FALSE)
    /\ UNCHANGED <<authority, disk, pointer>>

\* rollback_active_release up to the switch: the previous bundle must reload,
\* match the catalog staged now and carry the deployed policies.
RollbackToCurrent(o) ==
    /\ op[o].pc = "staged"
    /\ ActiveRelease # Nil
    /\ disk[pointer.current] = "good"
    /\ Switch(o, [current |-> pointer.current, by |-> o, previous |-> pointer.current], TRUE)
    /\ UNCHANGED <<authority, disk, pointer>>

PrepareRollback(o) ==
    /\ op[o].pc = "staged"
    /\ ActiveRelease # Nil
    /\ pointer.previous # Nil
    /\ disk[pointer.previous] = "good"
    /\ pointer.previous.content = op[o].staged
    /\ pointer.previous.policy = DeployedPolicy
    /\ Switch(o, [current |-> pointer.previous, by |-> o, previous |-> pointer.current], TRUE)
    /\ UNCHANGED <<authority, disk, pointer>>

\* _atomic_write of the pointer: a temporary file, then one rename.
WritePointer(o) ==
    /\ op[o].pc = "switching"
    /\ pointer' = op[o].new
    /\ op' = [op EXCEPT ![o].pc = "reloading"]
    /\ UNCHANGED <<authority, disk>>

\* The write raises before the rename: the call goes on to restore all the same.
WriteFails(o) ==
    /\ op[o].pc = "switching"
    /\ op' = [op EXCEPT ![o].pc = "restoring"]
    /\ UNCHANGED <<authority, disk, pointer>>

\* The reload after the switch.  An activation also requires its own pointer
\* back; a rollback accepts whatever pointer is active.
ReloadAccepts(o) ==
    /\ ActiveRelease # Nil
    /\ op[o].rollback \/ pointer = op[o].new

ReloadPointer(o) ==
    /\ op[o].pc = "reloading"
    /\ IF ReloadAccepts(o) THEN Finish(o)
       ELSE op' = [op EXCEPT ![o].pc = "restoring"]
    /\ UNCHANGED <<authority, disk, pointer>>

\* _restore_pointer_after_failed_switch: the pointer read before the switch is
\* written back, or the file is removed when there was none.
RestorePointer(o) ==
    /\ op[o].pc = "restoring"
    /\ pointer' = op[o].old
    /\ Finish(o)
    /\ UNCHANGED <<authority, disk>>

\* The call ends with no further file operation: a ReleaseError before the
\* switch, a restore that itself fails, or the death of the process.
CallStops(o) ==
    /\ op[o].pc # "idle"
    /\ Finish(o)
    /\ UNCHANGED <<authority, disk, pointer>>

StoreNext ==
    \/ AuthorityChanges
    \/ \E r \in Releases : BundleDamaged(r)
    \/ \E o \in Operators :
          \/ StageCatalog(o)
          \/ BuildCandidate(o)
          \/ \E r \in Releases : PrepareActivation(o, r)
          \/ PrepareRollback(o)
          \/ WritePointer(o)
          \/ WriteFails(o)
          \/ ReloadPointer(o)
          \/ RestorePointer(o)
          \/ CallStops(o)

StoreSpec == StoreInit /\ [][StoreNext]_storeVars

-----------------------------------------------------------------------------
\* A pointer names releases whose bundles were written, and its previous is
\* not its current.
SoundPointer(p) ==
    p # Nil => /\ disk[p.current] # "absent"
               /\ p.previous # p.current
               /\ p.previous # Nil => disk[p.previous] # "absent"

\* Whatever operators race, crash or restore, active.json names a release
\* whose bundle was completely written before, and one other release to roll
\* back to, never the same one twice (activate_release, rollback_active_release).
PointerIsSound == SoundPointer(pointer)
=============================================================================
