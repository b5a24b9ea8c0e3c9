---------------------------- MODULE MCFileSystem ----------------------------
(* Small disks for FileSystem: the names users choose are interchangeable.  *)
EXTENDS FileSystem, TLC

Symmetry == Permutations(Names)
=============================================================================
