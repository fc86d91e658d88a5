------------------------------ MODULE Backups ------------------------------
(***************************************************************************)
(* The backup and restore commands.  A backup reads a data directory under *)
(* its lock; the manifest, written last, marks it complete.  A restore     *)
(* checks the whole backup before it touches its target, which must be     *)
(* empty, and checks what it copied afterwards.  Either command may be     *)
(* killed, backups may go bad on their medium at any time, and other       *)
(* commands may use the target between check and lock.                     *)
(***************************************************************************)
EXTENDS Naturals, FiniteSets

CONSTANTS Blobs,      \* contents with a row in the blobs table
          Dirs,       \* paths of data directories
          Archives,   \* paths of backups
          NoFiles     \* nothing at the path

VARIABLES dir,     \* path -> the data directory: database rows and files
          archive, \* path -> the backup
          backup,  \* the backup command
          restore  \* the restore command

backupsVars == <<dir, archive, backup, restore>>

NotRunning == [step |-> "none"]
EmptyDir == [db |-> FALSE, rows |-> {}, files |-> {}, sessions |-> FALSE]
DirRow == [db : BOOLEAN, rows : SUBSET Blobs, files : SUBSET Blobs,
           sessions : BOOLEAN]
ArchiveRow == [rows : SUBSET Blobs, files : SUBSET Blobs, missing : SUBSET Blobs,
               sessions : BOOLEAN, manifest : BOOLEAN, bad : SUBSET (Blobs \cup {"db"}),
               source : DirRow]

ASSUME BackupsAssumption ==
    "db" \notin Blobs /\ NoFiles \notin DirRow \cup ArchiveRow

BackupsInit ==
    /\ dir = [d \in Dirs |-> NoFiles]
    /\ archive = [b \in Archives |-> NoFiles]
    /\ backup = NotRunning
    /\ restore = NotRunning

HasDb(d) == dir[d] # NoFiles /\ dir[d].db

\* DirLock: held by a backup for its source, by a restore for its target.
Locked(d) ==
    \/ backup # NotRunning /\ backup.dir = d
    \/ restore.step = "copy" /\ restore.dir = d

-----------------------------------------------------------------------------
(* Data directories between the commands.                                  *)

\* init, on a path with nothing or with a directory without a database.
InitDir(d) ==
    /\ ~Locked(d) /\ ~HasDb(d)
    /\ dir' = [dir EXCEPT ![d] =
                 IF @ = NoFiles THEN [EmptyDir EXCEPT !.db = TRUE]
                 ELSE [@ EXCEPT !.db = TRUE]]
    /\ UNCHANGED <<archive, backup, restore>>

\* serve stores content and opens a session.
UseDir(d) ==
    /\ ~Locked(d) /\ HasDb(d)
    /\ \E c \in Blobs :
         dir' = [dir EXCEPT ![d].rows = @ \cup {c}, ![d].files = @ \cup {c},
                            ![d].sessions = TRUE]
    /\ UNCHANGED <<archive, backup, restore>>

\* A file disappears while nobody looks.
LoseBlob(d, c) ==
    /\ ~Locked(d) /\ HasDb(d)
    /\ c \in dir[d].files
    /\ dir' = [dir EXCEPT ![d].files = @ \ {c}]
    /\ UNCHANGED <<archive, backup, restore>>

-----------------------------------------------------------------------------
(* backup --out b                                                          *)

StartBackup(d, b) ==
    /\ backup = NotRunning /\ ~Locked(d) /\ HasDb(d)
    /\ archive[b] = NoFiles
    /\ archive' = [archive EXCEPT ![b] =
          [rows |-> {}, files |-> {}, missing |-> {}, sessions |-> FALSE,
           manifest |-> FALSE, bad |-> {}, source |-> dir[d]]]
    /\ backup' = [step |-> "snapshot", dir |-> d, out |-> b]
    /\ UNCHANGED <<dir, restore>>

\* VACUUM INTO: a consistent copy of the committed rows.
Snapshot ==
    /\ backup.step = "snapshot"
    /\ archive' = [archive EXCEPT ![backup.out].rows = dir[backup.dir].rows,
                                  ![backup.out].sessions = dir[backup.dir].sessions]
    /\ backup' = [backup EXCEPT !.step = "scrub"]
    /\ UNCHANGED <<dir, restore>>

\* The copy loses its sessions; the rows to fetch are read from it.
Scrub ==
    /\ backup.step = "scrub"
    /\ archive' = [archive EXCEPT ![backup.out].sessions = FALSE]
    /\ backup' = [step |-> "copy", dir |-> backup.dir, out |-> backup.out,
                  left |-> archive[backup.out].rows]
    /\ UNCHANGED <<dir, restore>>

\* A referenced blob is copied, or recorded as missing.
BackUpBlob(c) ==
    /\ backup.step = "copy" /\ c \in backup.left
    /\ archive' = IF c \in dir[backup.dir].files
                  THEN [archive EXCEPT ![backup.out].files = @ \cup {c}]
                  ELSE [archive EXCEPT ![backup.out].missing = @ \cup {c}]
    /\ backup' = [backup EXCEPT !.left = @ \ {c}]
    /\ UNCHANGED <<dir, restore>>

WriteManifest ==
    /\ backup.step = "copy" /\ backup.left = {}
    /\ archive' = [archive EXCEPT ![backup.out].manifest = TRUE]
    /\ backup' = NotRunning
    /\ UNCHANGED <<dir, restore>>

\* Killed, or ended by an error; what was written stays.
EndBackup ==
    /\ backup # NotRunning
    /\ backup' = NotRunning
    /\ UNCHANGED <<dir, archive, restore>>

-----------------------------------------------------------------------------
(* restore --from b --data-dir d                                           *)

\* Manifest, empty target, every hash, and every row of the snapshot
\* registered in the manifest - all of it before the target is touched.
StartRestore(b, d) ==
    /\ restore = NotRunning
    /\ archive[b] # NoFiles /\ archive[b].manifest
    /\ dir[d] = NoFiles
    /\ archive[b].bad = {}
    /\ archive[b].rows \subseteq archive[b].files \cup archive[b].missing
    /\ restore' = [step |-> "checked", from |-> b, dir |-> d]
    /\ UNCHANGED <<dir, archive, backup>>

\* ensure_initialized and the lock; somebody else may have been there since.
OpenTarget ==
    /\ restore.step = "checked"
    /\ dir' = [dir EXCEPT ![restore.dir] = IF @ = NoFiles THEN EmptyDir ELSE @]
    /\ restore' = IF Locked(restore.dir) THEN NotRunning
                  ELSE [step |-> "copy", from |-> restore.from, dir |-> restore.dir,
                        left |-> archive[restore.from].files \cup {"db"}]
    /\ UNCHANGED <<archive, backup>>

\* Mutant: whatever is there is replaced.
Overwritable(d) == TRUE

\* copy_file creates its target or fails.
Copyable(d) == ~HasDb(d)

\* copy_file never overwrites, and what arrived must have the right hash;
\* otherwise the restore ends and leaves the target as it is.
RestoreDatabase ==
    /\ restore.step = "copy" /\ "db" \in restore.left
    /\ LET b == restore.from
           d == restore.dir
       IN  IF ~Copyable(d)
           THEN UNCHANGED dir /\ restore' = NotRunning
           ELSE /\ dir' = [dir EXCEPT ![d].db = TRUE, ![d].rows = archive[b].rows,
                                      ![d].sessions = archive[b].sessions]
                /\ restore' = IF "db" \in archive[b].bad THEN NotRunning
                              ELSE [restore EXCEPT !.left = @ \ {"db"}]
    /\ UNCHANGED <<archive, backup>>

RestoreBlob(c) ==
    /\ restore.step = "copy" /\ c \in restore.left /\ "db" \notin restore.left
    /\ IF c \in archive[restore.from].bad \/ c \in dir[restore.dir].files
       THEN restore' = NotRunning /\ UNCHANGED dir
       ELSE /\ restore' = [restore EXCEPT !.left = @ \ {c}]
            /\ dir' = [dir EXCEPT ![restore.dir].files = @ \cup {c}]
    /\ UNCHANGED <<archive, backup>>

\* verify_restored_database, then the restore is reported.
VerifyRestored(d) ==
    /\ restore.step = "copy" /\ restore.left = {} /\ restore.dir = d
    /\ dir[d].rows \subseteq dir[d].files \cup archive[restore.from].missing
    /\ restore' = NotRunning
    /\ UNCHANGED <<dir, archive, backup>>

EndRestore ==
    /\ restore # NotRunning
    /\ restore' = NotRunning
    /\ UNCHANGED <<dir, archive, backup>>

\* A backup's medium goes bad: a file, its database, or the manifest.
Damage(b) ==
    /\ archive[b] # NoFiles /\ archive[b].manifest
    /\ \/ \E x \in archive[b].files \cup {"db"} :
             archive' = [archive EXCEPT ![b].bad = @ \cup {x}]
       \/ archive' = [archive EXCEPT ![b].manifest = FALSE]
    /\ UNCHANGED <<dir, backup, restore>>

BackupsNext ==
    \/ \E d \in Dirs :
         \/ InitDir(d) \/ UseDir(d) \/ VerifyRestored(d)
         \/ \E c \in Blobs : LoseBlob(d, c)
         \/ \E b \in Archives : StartBackup(d, b) \/ StartRestore(b, d)
    \/ Snapshot \/ Scrub \/ WriteManifest \/ EndBackup
    \/ OpenTarget \/ RestoreDatabase \/ EndRestore
    \/ \E c \in Blobs : BackUpBlob(c) \/ RestoreBlob(c)
    \/ \E b \in Archives : Damage(b)

BackupsSpec == BackupsInit /\ [][BackupsNext]_backupsVars

-----------------------------------------------------------------------------
BackupsTypeOK ==
    /\ dir \in [Dirs -> DirRow \cup {NoFiles}]
    /\ archive \in [Archives -> ArchiveRow \cup {NoFiles}]
    /\ \A b \in Archives : archive[b] # NoFiles =>
          archive[b].files \cup archive[b].missing \subseteq archive[b].rows
    /\ backup.step \in {"none", "snapshot", "scrub", "copy"}
    /\ restore.step \in {"none", "checked", "copy"}

\* A restore that reports success has rebuilt the directory that was backed
\* up: its rows, every file it had, no session - whatever was killed, damaged
\* or created in between - and no restore ever replaces rows that are there.
RestoresAreWholeOrRefused ==
    [][/\ \A d \in Dirs : HasDb(d) => dir[d].rows \subseteq dir'[d].rows
       /\ \A d \in Dirs : VerifyRestored(d) =>
            LET source == archive[restore.from].source
            IN  /\ dir[d].rows = source.rows
                /\ source.rows \cap source.files \subseteq dir[d].files
                /\ ~dir[d].sessions
      ]_backupsVars

=============================================================================
