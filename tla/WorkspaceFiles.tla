--------------------------- MODULE WorkspaceFiles ---------------------------
(***************************************************************************)
(* The workspace of one user: the append-only rows of `workspace_files`    *)
(* (workspace/files.py) and the bytes in storage, which are kept under the *)
(* filename alone, so that each put replaces the last.  Every statement is *)
(* committed on its own.                                                   *)
(***************************************************************************)
EXTENDS Naturals, FiniteSets, FiniteSetsExt

CONSTANTS
  File,                         \* filenames
  Writer,                       \* who writes; stands for the bytes it writes
  NoBytes

VARIABLES
  rows,                         \* workspace_files, per filename
  bytes                         \* what storage holds under the filename

(* `leave` is not stored: the call that registered the row was told to      *)
(* overwrite.                                                               *)
FileRow == [version : Nat \ {0}, by : Writer, leave : BOOLEAN]

FilesTypeOK ==
  /\ rows \in [File -> SUBSET FileRow]
  /\ bytes \in [File -> Writer \cup {NoBytes}]

Versions(f) == {r.version : r \in rows[f]}

(* get_latest_by_filename, 0 when there is no row. *)
Latest(f) == Max({0} \cup Versions(f))

Put(f, w) == bytes' = [bytes EXCEPT ![f] = w]

(* Faulty variant of Insertable: the table without its UNIQUE constraint. *)
InsertableAlways(f, v) == v \in Nat

(* UNIQUE (user_id, filename, version): anything else raises. *)
Insertable(f, v) == v \notin Versions(f)

(* register, with version = existing.version + 1; supersedes_id is the row  *)
(* one version below.                                                       *)
Register(f, v, w, leave) ==
  rows' = [rows EXCEPT ![f] = @ \cup {[version |-> v, by |-> w, leave |-> leave]}]

(* The bytes of a file are those its latest row describes.                  *)
Faithful(f) == \A r \in rows[f] : r.version = Latest(f) => bytes[f] = r.by
=============================================================================
