----------------------------- MODULE AssetStore -----------------------------
(***************************************************************************)
(* The content-addressed store.  A writer - an upload, or a stage or a     *)
(* release that keeps what it made - stages a file in tmp/, moves it to    *)
(* its place under blobs/ and only then commits the blob and asset rows.   *)
(* Nothing is ever deleted from blobs/: what a crash leaves behind there   *)
(* and in tmp/ the scan of the next start moves to quarantine/, by         *)
(* reference.  No file in tmp/ or quarantine/ is read again, so a file     *)
(* that is moved or left there is gone from the model.                     *)
(* The machine may lose power: rows are durable once committed, a renamed  *)
(* file once its prefix directory (blobs/ab/) is synced - and once the     *)
(* entry of that directory in blobs/ is on disk, which the program never   *)
(* asks for and the kernel does when it likes.                             *)
(***************************************************************************)
EXTENDS Naturals, FiniteSets

CONSTANTS Contents, \* file contents, standing for their hashes
          PrefixDirs, \* prefix directories, each the contents that belong in it
          Writers   \* writers that may be at work at a time

ASSUME PrefixDirsAssumption ==
    /\ UNION PrefixDirs = Contents
    /\ \A d, e \in PrefixDirs : d = e \/ d \cap e = {}

VARIABLES writer,     \* the handlers
          blobs,      \* contents of files under blobs/
          synced,     \* those whose entry in the prefix directory is on disk
          settled,    \* prefix directories whose entry in blobs/ is on disk
          rows,       \* the blobs table: content -> storage state
          assets,     \* contents with an asset row
          server,     \* down, scanning or up
          present,    \* referenced files the scan of this start has seen
          excused     \* what something took, by its cause (see NothingTaken)

storeVars == <<writer, blobs, synced, settled, rows, assets, server, present,
               excused>>

StorageStates == {"none", "stored", "missing"}
NotWriting == [step |-> "idle"]

\* lost: a file somebody outside the program took, or whose sync failed;
\* directory: a file that went with its prefix directory; unread: a file in
\* its place that a start did not see, and whose row says so.
NothingTaken == [lost |-> {}, directory |-> {}, unread |-> {}]

\* The contents that share a prefix directory with c, c among them.
PrefixOf(c) == UNION {d \in PrefixDirs : c \in d}

StoreInit ==
    /\ writer = [w \in Writers |-> NotWriting]
    /\ blobs = {} /\ synced = {} /\ settled = {}
    /\ rows = [c \in Contents |-> "none"]
    /\ assets = {}
    /\ server = "down"
    /\ present = {}
    /\ excused = NothingTaken

Writes(w, step, c) ==
    writer' = [writer EXCEPT ![w] = [step |-> step, content |-> c]]
WriterAt(w, step) == writer[w].step = step

\* Of the contents in C it is known again that they are there.
Found(C) == [cause \in DOMAIN excused |-> excused[cause] \ C]

-----------------------------------------------------------------------------
(* Writing a file.                                                         *)

\* StagedWriter: the whole file is in tmp/ and synced.
Stage(w, c) ==
    /\ server = "up" /\ WriterAt(w, "idle")
    /\ Writes(w, "staged", c)
    /\ UNCHANGED <<blobs, synced, settled, rows, assets, server, present, excused>>

\* Content, limits or space do not allow it: the writer removes its tmp file,
\* or leaves it when the request fails after the file part.
Discard(w) ==
    /\ WriterAt(w, "staged")
    /\ writer' = [writer EXCEPT ![w] = NotWriting]
    /\ UNCHANGED <<blobs, synced, settled, rows, assets, server, present, excused>>

\* Mutant: the directory is not synced.
PromoteUnsynced(w) ==
    /\ WriterAt(w, "staged")
    /\ blobs' = blobs \cup {writer[w].content}
    /\ Writes(w, "promoted", writer[w].content)
    /\ UNCHANGED <<synced, settled, rows, assets, server, present, excused>>

\* promote: the prefix directory, when it is new, and the rename ...
Promote(w) ==
    /\ WriterAt(w, "staged")
    /\ blobs' = blobs \cup {writer[w].content}
    /\ Writes(w, "renamed", writer[w].content)
    /\ UNCHANGED <<synced, settled, rows, assets, server, present, excused>>

\* ... and the sync of the prefix directory, not of blobs/ above it; its
\* failure is only logged.
SyncDir(w) ==
    /\ WriterAt(w, "renamed")
    /\ LET c == writer[w].content
       IN  /\ \/ /\ synced' = synced \cup (PrefixOf(c) \cap blobs)
                 /\ UNCHANGED excused
              \/ /\ excused' = [excused EXCEPT !.lost = @ \cup {c}]
                 /\ UNCHANGED synced
           /\ Writes(w, "promoted", c)
    /\ UNCHANGED <<blobs, settled, rows, assets, server, present>>

\* commit_metadata: insert_if_absent, a missing row is stored again, and the
\* asset row; the answer follows.
CommitMetadata(w) ==
    /\ WriterAt(w, "promoted")
    /\ LET c == writer[w].content
       IN  /\ rows' = [rows EXCEPT ![c] = "stored"]
           /\ assets' = assets \cup {c}
           /\ excused' = Found({c} \cap synced)
    /\ writer' = [writer EXCEPT ![w] = NotWriting]
    /\ UNCHANGED <<blobs, synced, settled, server, present>>

\* The transaction fails (the item is gone, a storage error): the file stays.
AbortMetadata(w) ==
    /\ WriterAt(w, "promoted")
    /\ writer' = [writer EXCEPT ![w] = NotWriting]
    /\ UNCHANGED <<blobs, synced, settled, rows, assets, server, present, excused>>

-----------------------------------------------------------------------------
(* Starting: scan before anybody writes.                                   *)

StartServer ==
    /\ server = "down"
    /\ server' = "scan"
    /\ UNCHANGED <<writer, blobs, synced, settled, rows, assets, present, excused>>

Referenced == {c \in Contents : rows[c] # "none"}

\* scan_filesystem: every blob without a row goes to quarantine. A file or a
\* directory that cannot be read is passed over in silence; a move that fails,
\* of a file in tmp/ too, ends the scan, and the server starts all the same.
ScanFiles ==
    /\ server = "scan"
    /\ \E moved \in SUBSET (blobs \ Referenced) :
         /\ blobs' = blobs \ moved
         /\ synced' = synced \ moved
    /\ \/ server' = "reconcile" /\ present' \in SUBSET (blobs \cap Referenced)
       \/ server' = "up" /\ UNCHANGED present
    /\ UNCHANGED <<writer, settled, rows, assets, excused>>

\* reconcile_states: a row says whether its file was seen. The rows are
\* written one by one, and an error leaves the rest as they were.
ReconcileRows ==
    /\ server = "reconcile"
    /\ \E done \in SUBSET Referenced :
         /\ rows' = [c \in Contents |->
                       IF c \notin done THEN rows[c]
                       ELSE IF c \in present THEN "stored" ELSE "missing"]
         /\ excused' = [Found(done \cap present \cap synced) EXCEPT
                          !.unread = @ \cup ((done \cap blobs) \ present)]
    /\ server' = "up"
    /\ present' = {}
    /\ UNCHANGED <<writer, blobs, synced, settled, assets>>

-----------------------------------------------------------------------------
(* What happens to it from outside.                                        *)

\* The kernel writes the entry of a prefix directory.
Flush(d) ==
    /\ d \notin settled /\ d \cap blobs # {}
    /\ settled' = settled \cup {d}
    /\ UNCHANGED <<writer, blobs, synced, rows, assets, server, present, excused>>

\* The process is killed.
StoreKill ==
    /\ server # "down"
    /\ server' = "down"
    /\ writer' = [w \in Writers |-> NotWriting]
    /\ present' = {}
    /\ UNCHANGED <<blobs, synced, settled, rows, assets, excused>>

\* The machine loses power: a directory whose own entry is not on disk may go
\* with all that is in it, and a rename in an unsynced one may be undone.
PowerLoss ==
    /\ server' = "down"
    /\ writer' = [w \in Writers |-> NotWriting]
    /\ present' = {}
    /\ \E gone \in SUBSET (PrefixDirs \ settled), kept \in SUBSET (blobs \ synced) :
         /\ blobs' = (synced \cup kept) \ UNION gone
         /\ settled' = settled \cup {d \in PrefixDirs \ gone : d \cap blobs' # {}}
         /\ excused' = [excused EXCEPT !.directory = @ \cup (synced \cap UNION gone)]
    /\ synced' = blobs'
    /\ UNCHANGED <<rows, assets>>

\* A file disappears under the program (a person, a bad disk).
LoseFile(c) ==
    /\ c \in blobs
    /\ blobs' = blobs \ {c}
    /\ synced' = synced \ {c}
    /\ excused' = [excused EXCEPT !.lost = @ \cup {c}]
    /\ UNCHANGED <<writer, settled, rows, assets, server, present>>

StoreNext ==
    \/ \E w \in Writers :
         \/ \E c \in Contents : Stage(w, c)
         \/ Discard(w) \/ Promote(w) \/ SyncDir(w)
         \/ CommitMetadata(w) \/ AbortMetadata(w)
    \/ StartServer \/ ScanFiles \/ ReconcileRows
    \/ StoreKill \/ PowerLoss
    \/ \E c \in Contents : LoseFile(c)
    \/ \E d \in PrefixDirs : Flush(d)

StoreSpec == StoreInit /\ [][StoreNext]_storeVars

-----------------------------------------------------------------------------
StoreTypeOK ==
    /\ assets \cup present \subseteq Contents
    /\ synced \subseteq blobs /\ blobs \subseteq Contents
    /\ settled \subseteq PrefixDirs
    /\ rows \in [Contents -> StorageStates]
    /\ server \in {"down", "scan", "reconcile", "up"}
    /\ excused \in [DOMAIN NothingTaken -> SUBSET Contents]
    /\ \A w \in Writers : writer[w].step \in {"idle", "staged", "renamed", "promoted"}

\* Content that an asset row was ever given for is in its place under blobs/,
\* unless it was lost outside the program or went with a prefix directory
\* that was never synced into blobs/; and its row says so, unless a start
\* could not read it.  This holds through kills, power losses, scans that
\* fail half-way and other writers of the same content that are refused or
\* rolled back.
AssetsKeepTheirContent ==
    \A c \in assets \ (excused.lost \cup excused.directory) :
        /\ c \in blobs
        /\ c \notin excused.unread => rows[c] = "stored"

=============================================================================
