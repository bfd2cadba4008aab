--------------------------- MODULE MCGuardedSave ---------------------------
(***************************************************************************)
(* Values for the constants of GuardedSave: two names, two directories and *)
(* the worlds the runs start in.  Inodes and processes are interchangeable.*)
(***************************************************************************)
EXTENDS GuardedSave, TLC

CONSTANTS p1, p2, a, b, d1, d2

Symmetry == Permutations(Inodes) \cup Permutations(Procs)

NoFile == {[place \in Places |-> NoInode]}

(* One file under one of the names.                                        *)
OneFile == {[place \in Places |-> IF place = <<d1, a>> THEN i ELSE NoInode] : i \in Inodes}

(* A file, and a symbolic link to it.                                      *)
LinkedFile ==
  {[place \in Places |-> IF place = <<d1, a>> THEN b
                         ELSE IF place = <<d1, b>> THEN i ELSE NoInode] : i \in Inodes}

(* One editor, every call may fail and other programs change the file.     *)
Failing ==
  [editors |-> 1, names |-> {a}, dirs |-> {d1}, entries |-> OneFile, last |-> 2,
   foreign |-> {"write", "replace", "remove", "create", "clean"},
   failures |-> {"stage", "rename", "norename", "unlink", "sync"}]

(* One editor, two directories, a crash or loss of power at any moment.    *)
Crashing ==
  [editors |-> 1, names |-> {a}, dirs |-> {d1, d2}, entries |-> OneFile, last |-> 2,
   foreign |-> {"parent"},
   failures |-> {"norename", "sync", "crash", "power"}]

(* One editor, two names that are linked to each other and unlinked.       *)
Linking ==
  [editors |-> 1, names |-> {a, b}, dirs |-> {d1}, entries |-> OneFile, last |-> 1,
   foreign |-> {"symlink", "hardlink", "remove"}, failures |-> {}]

(* Two editors and one name, free at first.                                *)
Sharing ==
  [editors |-> 2, names |-> {a}, dirs |-> {d1}, entries |-> NoFile, last |-> 2,
   foreign |-> {}, failures |-> {"norename"}]

AllWorlds ==
  [failing |-> Failing, crashing |-> Crashing, linking |-> Linking, sharing |-> Sharing]

(* One editor, and a program that puts another file in the place.          *)
ReplacingWorld ==
  [replacing |-> [editors |-> 1, names |-> {a}, dirs |-> {d1}, entries |-> OneFile, last |-> 3,
                  foreign |-> {"replace"}, failures |-> {}]]

(* One editor, a file that has two names and a program that changes it.    *)
LinkedWorld ==
  [linked |-> [editors |-> 1, names |-> {a, b}, dirs |-> {d1}, entries |-> LinkedFile, last |-> 4,
               foreign |-> {"write"}, failures |-> {}]]
=============================================================================
