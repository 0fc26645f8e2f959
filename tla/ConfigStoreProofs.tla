------------------------- MODULE ConfigStoreProofs --------------------------
(***************************************************************************)
(* Proofs about ConfigStore, for any users, tiers, mountpoints, geofences, *)
(* starting files and files saved from outside.                            *)
(*                                                                         *)
(* The inductive invariant adds to the checked ones that a document which  *)
(* is about to become the file or the configuration was validated: that is *)
(* what an editor's save in between cannot disturb.                        *)
(***************************************************************************)
EXTENDS ConfigStore, TLAPS

InHandIsValid == phase \in {"admin", "install"} => Valid(base)

IInv == TypeOK /\ InForceIsValid /\ SettingsInStep /\ InHandIsValid

-----------------------------------------------------------------------------
(* Requests and documents *)

\* Every request is of a kind the handlers know.
LEMMA RequestKind == ASSUME NEW r \in Requests PROVE KindOf(r) \in Kind
BY DEF Requests, Request, FenceRequest, KindOf, Kind

\* An updater turns a document into a document.
LEMMA UpdatedType ==
    ASSUME NEW r \in Requests, NEW d \in Doc
    PROVE  Updated(r, d) \in Doc
<1>1. CASE r.on = "users"
  <2>1. r.name \in User /\ r.value \in Tier \cup {None}
    BY <1>1 DEF Requests, Request, FenceRequest
  <2>2. Updated(r, d) = [d EXCEPT !.users = [d.users EXCEPT ![r.name] = r.value]]
    BY <1>1 DEF Updated, Doc
  <2> QED BY <2>1, <2>2 DEF Doc
<1>2. CASE r.on = "tiers"
  <2>1. r.name \in Tier /\ r.value \in {Plain, None}
    BY <1>2 DEF Requests, Request, FenceRequest
  <2>2. Updated(r, d) = [d EXCEPT !.tiers = [d.tiers EXCEPT ![r.name] = r.value]]
    BY <1>2 DEF Updated, Doc
  <2> QED BY <2>1, <2>2 DEF Doc
<1>3. CASE r.on = "mountpoints"
  <2>1. r.name \in Mountpoint /\ r.value \in {Plain, None}
    BY <1>3 DEF Requests, Request, FenceRequest
  <2>2. Updated(r, d) = [d EXCEPT !.mountpoints = [d.mountpoints EXCEPT ![r.name] = r.value]]
    BY <1>3 DEF Updated, Doc
  <2> QED BY <2>1, <2>2 DEF Doc
<1>4. CASE r.on = "disabled"
  <2>1. r.name \in Mountpoint /\ r.value \in {Plain, None}
    BY <1>4 DEF Requests, Request, FenceRequest
  <2>2. Updated(r, d) = [d EXCEPT !.disabled = [d.disabled EXCEPT ![r.name] = r.value]]
    BY <1>4 DEF Updated, Doc
  <2> QED BY <2>1, <2>2 DEF Doc
<1>5. CASE r.on = "fences"
  <2>1. r.name \in Fence /\ r.value \in Owner \cup {None}
    BY <1>5 DEF Requests, Request, FenceRequest, Owner
  <2>2. Updated(r, d) = [d EXCEPT !.fences = [d.fences EXCEPT ![r.name] = r.value]]
    BY <1>5 DEF Updated, Doc
  <2> QED BY <2>1, <2>2 DEF Doc
<1> QED
  BY <1>1, <1>2, <1>3, <1>4, <1>5 DEF Requests, Request, FenceRequest

\* Whatever a handler answers is a status of the API.
LEMMA StatusType ==
    /\ \A k \in Kind : Done(k) \in Status /\ Failed(k) \in Status
                       /\ Denied(k) \in Status \cup {None}
    /\ \A r \in Requests : Failed(r) \in Status /\ Denied(r) \in Status \cup {None}
<1>1. ASSUME NEW k, k.verb \in {"POST", "PATCH", "DELETE", "SET"}
      PROVE  Done(k) \in Status /\ Failed(k) \in Status /\ Denied(k) \in Status \cup {None}
  BY <1>1 DEF Done, Failed, Denied, Status
<1>2. \A r \in Requests : r.verb \in {"POST", "PATCH", "DELETE", "SET"}
  BY DEF Requests, Request, FenceRequest
<1> QED BY <1>1, <1>2 DEF Kind

\* Only a validated update of a readable file is agreed to.
LEMMA AgreedIsValid ==
    ASSUME NEW r, NEW d, Verdict(r, d) = "agreed"
    PROVE  d # Garbage /\ Valid(Updated(r, d))
BY DEF Verdict

-----------------------------------------------------------------------------
(* The inductive invariant *)

LEMMA InitIInv == Init => IInv
<1> SUFFICES ASSUME Init PROVE IInv
  OBVIOUS
<1>1. file \in Doc /\ Valid(file) /\ file.sound
  BY FilesAssumption DEF Init
<1>2. file.disabled \in [Mountpoint -> {Plain, None}] /\ file.fences \in [Fence -> Owner \cup {None}]
  BY <1>1 DEF Doc
<1>3. TypeOK
  BY <1>1, <1>2 DEF Init, TypeOK
<1> QED BY <1>1, <1>3 DEF Init, IInv, InForceIsValid, SettingsInStep, InHandIsValid

LEMMA TypeStep == IInv /\ [Next]_vars => TypeOK'
<1> SUFFICES ASSUME IInv, [Next]_vars PROVE TypeOK'
  OBVIOUS
<1> USE DEF IInv
<1>1. ASSUME NEW d \in Edits, EditorSaves(d) PROVE TypeOK'
  BY <1>1, FilesAssumption DEF EditorSaves, TypeOK
<1>2. CASE Sighup
  BY <1>2 DEF Sighup, TypeOK
<1>3. ASSUME NEW r \in Requests, AdminRefused(r) PROVE TypeOK'
  BY <1>3, StatusType DEF AdminRefused, TypeOK
<1>4. ASSUME NEW r \in Requests, AdminPrepares(r) PROVE TypeOK'
  <2>1. file \in Doc
    BY <1>4, AgreedIsValid DEF AdminPrepares, TypeOK
  <2>2. Updated(r, file) \in Doc /\ KindOf(r) \in Kind
    BY <2>1, UpdatedType, RequestKind
  <2> QED BY <1>4, <2>2 DEF AdminPrepares, TypeOK
<1>5. CASE AdminReplaces
  BY <1>5, StatusType DEF AdminReplaces, TypeOK
<1>6. CASE AdminDiskFails
  BY <1>6, StatusType DEF AdminDiskFails, TypeOK
<1>7. CASE ReloadLoads
  <2>1. file \in Doc
    BY <1>7 DEF ReloadLoads, Loadable, Valid, TypeOK
  <2> QED BY <1>7, <2>1 DEF ReloadLoads, TypeOK
<1>8. CASE ReloadFails
  BY <1>8 DEF ReloadFails, TypeOK
<1>9. CASE Installs
  <2>1. /\ base \in Doc
        /\ base.disabled \in [Mountpoint -> {Plain, None}]
        /\ base.fences \in [Fence -> Owner \cup {None}]
    BY <1>9 DEF Installs, TypeOK, Doc
  <2> QED BY <1>9, <2>1 DEF Installs, LiveOf, TypeOK
<1>10. CASE InstallsPartly
  <2>1. /\ base \in Doc
        /\ base.disabled \in [Mountpoint -> {Plain, None}]
        /\ base.fences \in [Fence -> Owner \cup {None}]
    BY <1>10 DEF InstallsPartly, TypeOK, Doc
  <2>2. live' \in [disabled : [Mountpoint -> {Plain, None}], fences : [Fence -> Owner \cup {None}]]
    BY <1>10, <2>1 DEF InstallsPartly, TypeOK
  <2> QED BY <1>10, <2>1, <2>2 DEF InstallsPartly, TypeOK
<1>11. CASE WatchConfig
  BY <1>11 DEF WatchConfig, TypeOK
<1>12. CASE Reloader
  BY <1>12 DEF Reloader, TypeOK
<1>13. CASE UNCHANGED vars
  BY <1>13 DEF vars, TypeOK
<1> QED
  BY <1>1, <1>2, <1>3, <1>4, <1>5, <1>6, <1>7, <1>8, <1>9, <1>10, <1>11, <1>12, <1>13
     DEF Next, AdminStep, ReloadStep

\* What is in hand was validated when it was taken, and nobody else touches it.
LEMMA HandStep == IInv /\ [Next]_vars => InHandIsValid'
<1> SUFFICES ASSUME IInv, [Next]_vars PROVE InHandIsValid'
  OBVIOUS
<1> USE DEF IInv, InHandIsValid, Valid
<1>1. ASSUME NEW r \in Requests, AdminPrepares(r) PROVE InHandIsValid'
  BY <1>1, AgreedIsValid DEF AdminPrepares
<1>2. CASE ReloadLoads
  BY <1>2 DEF ReloadLoads, Loadable
<1>3. CASE AdminReplaces \/ AdminDiskFails \/ ReloadFails \/ Installs \/ InstallsPartly \/ Reloader
  BY <1>3 DEF AdminReplaces, AdminDiskFails, ReloadFails, Installs, InstallsPartly, Reloader
<1>4. ASSUME UNCHANGED <<phase, base>> PROVE InHandIsValid'
  BY <1>4
<1>5. CASE (\E d \in Edits : EditorSaves(d)) \/ Sighup \/ WatchConfig
           \/ (\E r \in Requests : AdminRefused(r)) \/ UNCHANGED vars
  BY <1>4, <1>5 DEF EditorSaves, Sighup, WatchConfig, AdminRefused, vars
<1> QED BY <1>1, <1>2, <1>3, <1>5 DEF Next, AdminStep, ReloadStep

\* cfg and the settings beside it move together, in the two install steps only.
LEMMA ForceStep == IInv /\ [Next]_vars => InForceIsValid' /\ SettingsInStep'
<1> SUFFICES ASSUME IInv, [Next]_vars PROVE InForceIsValid' /\ SettingsInStep'
  OBVIOUS
<1> USE DEF IInv, InForceIsValid, SettingsInStep
<1>1. CASE Installs
  BY <1>1 DEF Installs, LiveOf, InHandIsValid, Valid
<1>2. CASE InstallsPartly
  BY <1>2 DEF InstallsPartly, InHandIsValid, Valid
<1>3. CASE UNCHANGED <<cfg, live>>
  BY <1>3 DEF Valid
<1>4. \/ Installs \/ InstallsPartly \/ UNCHANGED <<cfg, live>>
  BY DEF Next, AdminStep, ReloadStep, EditorSaves, Sighup, AdminRefused, AdminPrepares, AdminReplaces,
         AdminDiskFails, ReloadLoads, ReloadFails, WatchConfig, Reloader, vars
<1> QED BY <1>1, <1>2, <1>3, <1>4

LEMMA Invariance == Spec => []IInv
<1>1. Init => IInv
  BY InitIInv
<1>2. IInv /\ [Next]_vars => IInv'
  BY TypeStep, HandStep, ForceStep DEF IInv
<1> QED BY <1>1, <1>2, PTL DEF Spec

-----------------------------------------------------------------------------
(* Theorems *)

\* Every variable keeps its type: an updater never makes a malformed document.
THEOREM TypeCorrect == Spec => []TypeOK
<1>1. IInv => TypeOK
  BY DEF IInv
<1> QED BY <1>1, Invariance, PTL

\* The configuration in force is always one validate_config accepted, whatever
\* reload_from_disk and the administrators' calls found in the file.
THEOREM ForceCorrect == Spec => []InForceIsValid
<1>1. IInv => InForceIsValid
  BY DEF IInv
<1> QED BY <1>1, Invariance, PTL

\* _disabled_mountpoints and _geofence_polygons follow cfg, but for a document
\* whose conversion raised in the middle of reload_from_disk.
THEOREM SettingsCorrect == Spec => []SettingsInStep
<1>1. IInv => SettingsInStep
  BY DEF IInv
<1> QED BY <1>1, Invariance, PTL

\* _admin_update_config replaces the file only by one that validates, even when
\* somebody saved a broken file between its read and its replace.
THEOREM AdminCorrect == Spec => AdminKeepsFileValid
<1>1. IInv /\ [Next]_vars => [phase = "admin" /\ phase' = "reload" => Valid(file')]_vars
  <2> SUFFICES ASSUME IInv, Next, phase = "admin", phase' = "reload"
               PROVE  Valid(file')
    BY DEF vars
  <2>1. AdminReplaces
    BY DEF Next, AdminStep, ReloadStep, EditorSaves, Sighup, AdminRefused, AdminPrepares,
           AdminDiskFails, ReloadLoads, ReloadFails, Installs, InstallsPartly, WatchConfig, Reloader
  <2> QED BY <2>1 DEF AdminReplaces, IInv, InHandIsValid, Valid
<1> QED BY <1>1, Invariance, PTL DEF Spec, AdminKeepsFileValid
=============================================================================
