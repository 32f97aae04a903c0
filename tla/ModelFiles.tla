----------------------------- MODULE ModelFiles -----------------------------
(***************************************************************************)
(* The models directory of each node: uploads, which stream a body into a  *)
(* temporary file and rename it, and deletes.                              *)
(*                                                                         *)
(* A file is the sequence of chunks <<upload, number>> it holds.  A write   *)
(* is carried out behind write_all: its failure is reported by the next    *)
(* write, or by flush, whose result is ignored.                            *)
(***************************************************************************)
EXTENDS Naturals, Sequences

CONSTANTS
    Node,
    Upload,         \* uploads, [id, node, name, chunks]
    MaxChunks       \* MAX_UPLOAD_BYTES, in chunks

VARIABLES
    disk,       \* disk[n]: a function from the names in the models directory to contents
    temp,       \* the temporary files: functions from their names to contents
    upload      \* upload[u]: [at, total, lost]

fileVars == <<disk, temp, upload>>

\* model_path_for, is_file
Present(n, m) == m \in DOMAIN disk[n]

\* Mutant of TempOf: uploads of a name share the temporary file.
TempOfName(u) == [name |-> u.name, node |-> u.node]

\* ".{name}.{uuid}.uploading"
TempOf(u) == u

Without(f, x) == [y \in DOMAIN f \ {x} |-> f[y]]
With(f, x, v) == [y \in DOMAIN f \cup {x} |-> IF y = x THEN v ELSE f[y]]

\* Mutant of GiveUp: the temporary file stays.
GiveUpKeeps(u) ==
    /\ upload' = [upload EXCEPT ![u].at = "failed"]
    /\ UNCHANGED <<disk, temp>>

\* An error is answered and the temporary file is removed.
GiveUp(u) ==
    /\ temp' = Without(temp, TempOf(u))
    /\ upload' = [upload EXCEPT ![u].at = "failed"]
    /\ UNCHANGED disk

\* The name is safe, the directory exists and the temporary file is created.
BeginUpload(u) ==
    /\ upload[u].at = "new"
    /\ temp' = With(temp, TempOf(u), <<>>)
    /\ upload' = [upload EXCEPT ![u].at = "writing"]
    /\ UNCHANGED disk

\* The directory or the file cannot be created.
CreateFails(u) ==
    /\ upload[u].at = "new"
    /\ upload' = [upload EXCEPT ![u].at = "failed"]
    /\ UNCHANGED <<disk, temp>>

\* A chunk arrives: too much, an earlier write failed, or it is written.
Chunk(u) ==
    /\ upload[u].at = "writing"
    /\ upload[u].total < u.chunks
    /\ LET k == upload[u].total + 1
       IN  IF k > MaxChunks \/ upload[u].lost THEN GiveUp(u)
           ELSE /\ upload' = [upload EXCEPT ![u].total = k]
                /\ temp' = [temp EXCEPT ![TempOf(u)] = Append(@, <<u.id, k>>)]
                /\ UNCHANGED disk

\* A chunk arrives and its write fails later.
ChunkLost(u) ==
    /\ upload[u].at = "writing"
    /\ upload[u].total < u.chunks
    /\ upload[u].total < MaxChunks
    /\ ~upload[u].lost
    /\ upload' = [upload EXCEPT ![u].total = @ + 1, ![u].lost = TRUE]
    /\ UNCHANGED <<disk, temp>>

BodyFails(u) ==
    /\ upload[u].at = "writing"
    /\ GiveUp(u)

\* The body ends; flush is ignored.
EndOfBody(u) ==
    /\ upload[u].at = "writing"
    /\ upload[u].total = u.chunks
    /\ IF upload[u].total = 0 THEN GiveUp(u)
       ELSE /\ upload' = [upload EXCEPT ![u].at = "rename"]
            /\ UNCHANGED <<disk, temp>>

\* The rename runs on another thread, also when nobody waits for it any more.
Rename(u) ==
    /\ upload[u].at \in {"rename", "detached"}
    /\ TempOf(u) \in DOMAIN temp
    /\ disk' = [disk EXCEPT ![u.node] = With(@, u.name, temp[TempOf(u)])]
    /\ temp' = Without(temp, TempOf(u))
    /\ upload' = [upload EXCEPT ![u].at = IF @ = "rename" THEN "created" ELSE "left"]

RenameFails(u) ==
    \/ upload[u].at = "rename" /\ GiveUp(u)
    \/ /\ upload[u].at = "detached"
       /\ upload' = [upload EXCEPT ![u].at = "left"]
       /\ UNCHANGED <<disk, temp>>

\* The client goes away: the handler is dropped where it waits, and nobody
\* removes the temporary file.
UploaderLeaves(u) ==
    /\ upload[u].at \in {"writing", "rename"}
    /\ upload' = [upload EXCEPT ![u].at = IF @ = "rename" THEN "detached" ELSE "left"]
    /\ UNCHANGED <<disk, temp>>

\* models_delete
Delete(n, m) ==
    /\ Present(n, m)
    /\ disk' = [disk EXCEPT ![n] = Without(@, m)]
    /\ UNCHANGED <<temp, upload>>

\* A file that was there before the node started.
Older == <<<<0, 1>>>>

FilesInit(present) ==
    /\ disk = [n \in Node |-> [m \in present[n] |-> Older]]
    /\ temp = <<>>
    /\ upload = [u \in Upload |-> [at |-> "new", total |-> 0, lost |-> FALSE]]

UploadStep(u) ==
    \/ BeginUpload(u) \/ CreateFails(u) \/ Chunk(u) \/ ChunkLost(u) \/ BodyFails(u)
    \/ EndOfBody(u) \/ Rename(u) \/ RenameFails(u)

(***************************************************************************)
(* Properties.                                                             *)
(***************************************************************************)
\* A file under its name is what one upload sent, in order and complete but
\* for the last chunk if its write failed: readers never see a file that is
\* being written, nor a mix of two uploads of a name.
FilesWhole ==
    \A n \in Node : \A m \in DOMAIN disk[n] :
        LET file == disk[n][m]
        IN  \/ file = Older
            \/ \E u \in Upload :
                /\ u.node = n /\ u.name = m
                /\ \A i \in DOMAIN file : file[i] = <<u.id, i>>
                /\ Len(file) = u.chunks - (IF upload[u].lost THEN 1 ELSE 0)

\* A temporary file belongs to an upload in progress, or to one whose client
\* went away: no error path leaves one behind.
TempsAccounted ==
    \A t \in DOMAIN temp : \E u \in Upload :
        TempOf(u) = t /\ upload[u].at \in {"writing", "rename", "detached", "left"}
=============================================================================
