---------------------------- MODULE ConfigStore -----------------------------
(***************************************************************************)
(* The configuration file, its copy in memory, and the three parties that  *)
(* change them: administrators through the REST calls, the watcher and     *)
(* SIGHUP through the reloader, and editors outside the process.           *)
(*                                                                         *)
(* _admin_update_config and reload_from_disk contain no await that         *)
(* suspends, so tasks of the caster never interleave with them; an editor, *)
(* another process, does: each of the two is cut where it touches the file. *)
(***************************************************************************)
EXTENDS Integers

CONSTANTS
    User, Tier, Mountpoint, Fence,
    Editor,      \* administrators of role geofence_editor
    Admin,       \* any administrator who may write everything
    Plain,       \* a value whose content no property tells apart
    None,        \* no value: the name is not in the file
    Garbage,     \* a file load_config cannot read, half written for instance
    Start,       \* files the caster starts from
    Edits        \* files an editor saves

Owner == Editor \cup {Plain}

\* The file, as far as it is told apart: "sound" says that int() and the like
\* succeed on the security values which only a reload converts.
Doc == [ users : [User -> Tier \cup {None}],
         tiers : [Tier -> {Plain, None}],
         mountpoints : [Mountpoint -> {Plain, None}],
         disabled : [Mountpoint -> {Plain, None}],
         fences : [Fence -> Owner \cup {None}],
         sound : BOOLEAN ]

\* validate_config: a user's tier is checked only when there are tiers.
Valid(d) ==
    /\ d # Garbage
    /\ (\E t \in Tier : d.tiers[t] # None) =>
          \A u \in User : d.users[u] # None => d.tiers[d.users[u]] # None

ASSUME NamesAssumption == /\ None \notin Tier \cup Owner
                          /\ Plain # None
                          /\ Admin \notin Editor
ASSUME FilesAssumption == /\ Garbage \notin Doc
                          /\ Edits \subseteq Doc \cup {Garbage}
                          /\ Start \subseteq {d \in Doc : Valid(d) /\ d.sound}

VARIABLES
    file,      \* what the configuration file holds
    newer,     \* getmtime(file) > _cfg_mtime
    cfg,       \* self.cfg
    live,      \* _disabled_mountpoints and _geofence_polygons
    pending,   \* main.py's reload_event is set
    phase,     \* what the event loop is in the middle of
    call,      \* the kind of request it serves
    base,      \* the document it has in hand
    answer     \* status the last step settled, None if it settled none

vars == <<file, newer, cfg, live, pending, phase, call, base, answer>>

-----------------------------------------------------------------------------
(* Requests *)

Request(verbs, on, names, values) ==
    [verb : verbs, on : {on}, name : names, value : values, by : {Admin}]

\* What an editor of geofences puts carries the editor's name.
FenceRequest ==
    Request({"POST", "PATCH"}, "fences", Fence, Owner)
        \cup Request({"DELETE"}, "fences", Fence, {None})
        \cup [verb : {"POST", "PATCH"}, on : {"fences"}, name : Fence, value : Editor, by : Editor]
        \cup [verb : {"DELETE"}, on : {"fences"}, name : Fence, value : {None}, by : Editor]

\* "SET" is POST /admin/disable and /admin/enable.
Requests ==
    Request({"POST", "PATCH"}, "users", User, Tier)
        \cup Request({"DELETE"}, "users", User, {None})
        \cup Request({"POST", "PATCH"}, "tiers", Tier, {Plain})
        \cup Request({"DELETE"}, "tiers", Tier, {None})
        \cup Request({"POST"}, "mountpoints", Mountpoint, {Plain})
        \cup Request({"DELETE"}, "mountpoints", Mountpoint, {None})
        \cup Request({"SET"}, "disabled", Mountpoint, {Plain, None})
        \cup {r \in FenceRequest : r.by = Admin \/ r.value \in {r.by, None}}

Kind == [ verb : {"POST", "PATCH", "DELETE", "SET"},
          on : {"users", "tiers", "mountpoints", "disabled", "fences"} ]
KindOf(r) == [verb |-> r.verb, on |-> r.on]

Exists(r, d) == d[r.on][r.name] # None

\* The updater of the request, on the parsed file.
Updated(r, d) == [d EXCEPT ![r.on][r.name] = r.value]

\* The updater raises ValueError.  Posting a geofence replaces one of that id.
Raises(r, d) ==
    \/ r.verb = "POST" /\ r.on # "fences" /\ Exists(r, d)
    \/ r.verb \in {"PATCH", "DELETE"} /\ ~Exists(r, d)

\* The updater raises PermissionError.
NotOwner(r, d) ==
    /\ r.on = "fences" /\ r.verb \in {"PATCH", "DELETE"} /\ Exists(r, d)
    /\ r.by # Admin /\ d.fences[r.name] # r.by

\* How the request fares on what was read, short of the disk.
Verdict_LoadOnly(r, d) ==
    IF d = Garbage \/ Raises(r, d) THEN "failed"
    ELSE IF NotOwner(r, d) THEN "denied" ELSE "agreed"

Verdict(r, d) ==
    IF d = Garbage \/ Raises(r, d) THEN "failed"
    ELSE IF NotOwner(r, d) THEN "denied"
    ELSE IF Valid(Updated(r, d)) THEN "agreed" ELSE "failed"

Done(r) == CASE r.verb = "POST"             -> 201
             [] r.verb \in {"PATCH", "SET"} -> 200
             [] r.verb = "DELETE"           -> 204

\* _admin_update_config returned (False, msg): the handlers that delete users,
\* tiers and mountpoints do not look at it.
Failed_Unmapped(r) == 500
Failed(r) == IF r.verb = "DELETE" /\ r.on # "fences" THEN 204 ELSE 400

\* _admin_update_config let PermissionError through: some handlers map it, the
\* others are left by it without an answer.
Denied(r) == CASE r.on = "fences" /\ r.verb # "POST"                    -> 403
               [] r.verb = "POST" /\ r.on # "fences"                    -> 409
               [] r.verb \in {"PATCH", "DELETE"} /\ r.on # "fences"     -> 404
               [] OTHER                                                 -> None

Status == {200, 201, 204, 400, 403, 404, 409}

TypeOK ==
    /\ file \in Doc \cup {Garbage}
    /\ newer \in BOOLEAN
    /\ cfg \in Doc
    /\ live \in [disabled : [Mountpoint -> {Plain, None}], fences : [Fence -> Owner \cup {None}]]
    /\ pending \in BOOLEAN
    /\ phase \in {"idle", "admin", "reload", "install"}
    /\ call \in Kind \cup {None}
    /\ base \in Doc \cup {Garbage}
    /\ answer \in Status \cup {None}
    /\ phase = "admin" => call \in Kind
    /\ phase \in {"admin", "install"} => base \in Doc

\* main read the file and constructs the caster, which then asks for its time.
Init ==
    /\ file \in Start
    /\ newer = FALSE
    /\ cfg = file
    /\ live = [disabled |-> file.disabled, fences |-> file.fences]
    /\ pending = FALSE
    /\ phase = "install"
    /\ call = None
    /\ base = file
    /\ answer = None

-----------------------------------------------------------------------------
(* Outside the process *)

\* Whoever else writes the file, at any instant.
EditorSaves(d) ==
    /\ file' = d
    /\ newer' = TRUE
    /\ answer' = None
    /\ UNCHANGED <<cfg, live, pending, phase, call, base>>

Sighup ==
    /\ phase = "idle" /\ ~pending
    /\ pending' = TRUE
    /\ answer' = None
    /\ UNCHANGED <<file, newer, cfg, live, phase, call, base>>

-----------------------------------------------------------------------------
(* _admin_update_config *)

\* Refused on the file's content: answered without touching the disk again.
AdminRefused(r) ==
    /\ phase = "idle"
    /\ \/ Verdict(r, file) = "failed" /\ answer' = Failed(r)
       \/ Verdict(r, file) = "denied" /\ answer' = Denied(r)
    /\ UNCHANGED <<file, newer, cfg, live, pending, phase, call, base>>

\* The new content is complete and validated under another name...
AdminPrepares(r) ==
    /\ phase = "idle" /\ Verdict(r, file) = "agreed"
    /\ phase' = "admin"
    /\ call' = KindOf(r)
    /\ base' = Updated(r, file)
    /\ answer' = None
    /\ UNCHANGED <<file, newer, cfg, live, pending>>

\* ... before it takes the place of the file, whatever that holds by now.
AdminReplaces ==
    /\ phase = "admin"
    /\ file' = base
    /\ newer' = TRUE
    /\ phase' = "reload"
    /\ answer' = Done(call)
    /\ call' = None
    /\ base' = Garbage
    /\ UNCHANGED <<cfg, live, pending>>

\* The disk is full, or the directory not writable.
AdminDiskFails ==
    /\ phase = "admin"
    /\ phase' = "idle"
    /\ answer' \in {Failed(call), Denied(call)}
    /\ call' = None
    /\ base' = Garbage
    /\ UNCHANGED <<file, newer, cfg, live, pending>>

-----------------------------------------------------------------------------
(* reload_from_disk *)

Loadable_Unvalidated(d) == d # Garbage
Loadable(d) == Valid(d)

ReloadLoads ==
    /\ phase = "reload" /\ Loadable(file)
    /\ phase' = "install"
    /\ base' = file
    /\ answer' = None
    /\ UNCHANGED <<file, newer, cfg, live, pending, call>>

\* Logged, and the configuration in force stays.
ReloadFails ==
    /\ phase = "reload" /\ ~Loadable(file)
    /\ phase' = "idle"
    /\ answer' = None
    /\ UNCHANGED <<file, newer, cfg, live, pending, call, base>>

LiveOf_NoFences(d) == [disabled |-> d.disabled, fences |-> live.fences]
LiveOf(d) == [disabled |-> d.disabled, fences |-> d.fences]

\* cfg first, then what is derived from it, then the file's time as it is now.
Installs ==
    /\ phase = "install" /\ base.sound
    /\ cfg' = base
    /\ live' = LiveOf(base)
    /\ newer' = FALSE
    /\ phase' = "idle"
    /\ base' = Garbage
    /\ answer' = None
    /\ UNCHANGED <<file, pending, call>>

\* A conversion raises on the way: at disabled_mountpoints or before it, at the
\* WebSocket port between it and the geofences, or at diagnostics after both.
InstallsPartly ==
    /\ phase = "install" /\ ~base.sound
    /\ cfg' = base
    /\ live' \in {live, [live EXCEPT !.disabled = base.disabled],
                  [disabled |-> base.disabled, fences |-> base.fences]}
    /\ phase' = "idle"
    /\ base' = Garbage
    /\ answer' = None
    /\ UNCHANGED <<file, newer, pending, call>>

-----------------------------------------------------------------------------
(* main.py *)

Changed_Never == FALSE
Changed == newer

WatchConfig ==
    /\ phase = "idle" /\ ~pending
    /\ Changed
    /\ pending' = TRUE
    /\ answer' = None
    /\ UNCHANGED <<file, newer, cfg, live, phase, call, base>>

Reloader ==
    /\ phase = "idle" /\ pending
    /\ pending' = FALSE
    /\ phase' = "reload"
    /\ answer' = None
    /\ UNCHANGED <<file, newer, cfg, live, call, base>>

AdminStep == AdminReplaces \/ AdminDiskFails
ReloadStep == ReloadLoads \/ ReloadFails \/ Installs \/ InstallsPartly

Next ==
    \/ \E d \in Edits : EditorSaves(d)
    \/ Sighup
    \/ \E r \in Requests : AdminRefused(r) \/ AdminPrepares(r)
    \/ AdminStep
    \/ ReloadStep
    \/ WatchConfig
    \/ Reloader

\* What has begun goes on; the event loop serves its ready tasks in turn, so no
\* stream of requests keeps the watcher or the reloader from running.
Fairness == /\ WF_vars(AdminStep) /\ WF_vars(ReloadStep)
            /\ SF_vars(WatchConfig) /\ SF_vars(Reloader)

Spec == Init /\ [][Next]_vars /\ Fairness

-----------------------------------------------------------------------------
(* Properties *)

\* Whatever is saved into the file, half a file included, the configuration in
\* force is one validate_config accepted.
InForceIsValid == Valid(cfg)

\* An administrator's call never leaves a file that validate_config refuses,
\* although others write the file in between.  Whether a caster starts from it
\* depends on "sound" too, which a call leaves as it read it.
AdminKeepsFileValid == [][phase = "admin" /\ phase' = "reload" => Valid(file')]_vars

\* The settings kept beside cfg (_disabled_mountpoints, _geofence_polygons) are
\* those of cfg, unless cfg came from a file whose conversion failed half way.
SettingsInStep ==
    cfg.sound => live = [disabled |-> cfg.disabled, fences |-> cfg.fences]

\* A good file with a newer time does not stay unread.
NewerIsRead == []<>(~newer \/ ~Valid(file) \/ ~file.sound)

\* A changed file is reloaded (README.md:298): a good file does not differ from
\* the configuration in force for ever.  A save between load_config and getmtime
\* breaks it.
EditsReachMemory == []<>(cfg = file \/ ~Valid(file))
=============================================================================
