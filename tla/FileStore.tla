------------------------------ MODULE FileStore ------------------------------
(***************************************************************************)
(* What the filesystem promises to the shell: a set of files, each with    *)
(* its name, size and contents.  A file appears whole, under a name no     *)
(* other file has, and what is there is never changed.  Nothing is said of *)
(* directory entries, clusters or sectors.                                 *)
(***************************************************************************)
CONSTANTS
  FileNames,      \* names a file may be written under
  Lengths,        \* sizes a file may be written with
  Whole(_, _)     \* the contents of a file written with a name and a size

VARIABLE files

NamesDiffer ==
  \A file, other \in files : file.name = other.name => file = other

StoreInit == NamesDiffer

Create(name, size) ==
  /\ \A file \in files : file.name # name
  /\ files' = files \cup
       {[name |-> name, size |-> size, contents |-> Whole(name, size)]}

StoreNext == \E name \in FileNames, size \in Lengths : Create(name, size)

StoreSpec == StoreInit /\ [][StoreNext]_files
=============================================================================
