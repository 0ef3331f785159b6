---------------------------- MODULE MCFileSystem ----------------------------
(* Instances of FileSystem for TLC. *)
EXTENDS FileSystem, TLC

MCWriteRange == {<<1, 2>>, <<5, 1>>}
MCWriteWhole == {<<0, 2>>, <<1, 2>>}
Symmetry == Permutations(Name) \cup Permutations(Handle)
=============================================================================
