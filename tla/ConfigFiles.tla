----------------------------- MODULE ConfigFiles ------------------------------
(***************************************************************************)
(* The configuration files (src/config/gateway_persistence.c): the active  *)
(* one and its backup on a disk that may lose what no directory sync has   *)
(* covered, and the staged file, which no boot reads.  A file is whole or  *)
(* Damaged: it ends with a checksum.                                       *)
(***************************************************************************)
CONSTANTS
    Configs,    \* whole configurations: ports and product settings
    Defaults,   \* gateway_persistent_defaults
    SafeMode,   \* gateway_persistent_safe_mode: every port disabled
    Absent, Damaged

\* No file, and a file that cannot be decoded, are not configurations.
ASSUME FilesAssumption == Absent \notin Configs /\ Damaged \notin Configs

VARIABLES
    dir,        \* active and backup as a reader sees them
    images,     \* the directories a power cut may leave
    staged

files == <<dir, images, staged>>

Contents == Configs \cup {Absent, Damaged}

Dirs == [active: Contents, backup: Contents]

\* gateway_config_startup_select
Select(d) ==
    CASE d.active \in Configs -> d.active
      [] d.active \notin Configs /\ d.backup \in Configs -> d.backup
      [] d.active = Absent /\ d.backup = Absent -> Defaults
      [] OTHER -> SafeMode

\* What a reader may get of a directory whose files cannot all be read now.
Unread(d) == {Select([n \in {"active", "backup"} |-> IF n \in lost THEN Damaged ELSE d[n]]) :
                lost \in SUBSET {"active", "backup"} \ {{}}}

\* What a boot after a power cut may select.
Saved == {Select(d) : d \in images}

\* A rename is in the directory at once, on the disk now or later or never.
Renamed(after) == dir' = after[dir] /\ images' = images \cup {after[d] : d \in images}

Views == images \cup {dir}

\* The active file becomes the backup.
Backup == Renamed([d \in Views |-> [active |-> Absent, backup |-> dir.active]])

\* The staged file becomes the active one.
Activate == Renamed([d \in Views |-> [d EXCEPT !.active = staged]])

\* Fault: the renames are left to the kernel.
SyncForgotten == UNCHANGED <<dir, images>>

\* sync_directory
Synced == images' = {dir} /\ UNCHANGED dir

\* gateway_config_discard_staged
Discard == staged' = Absent /\ UNCHANGED <<dir, images>>

Cut == dir' \in images /\ images' = {dir'} /\ UNCHANGED staged
=============================================================================
