------------------------------- MODULE Record -------------------------------
(***************************************************************************)
(* What is recorded of files (libpijul/src/record.rs), as hunks over the   *)
(* graph: additions, moves and deletions of names, and the differences of  *)
(* module Diff.                                                            *)
(***************************************************************************)
EXTENDS Diff, Changes

RootPos == Pos(0, 0)
RootAtoms(own, p, inode) ==
    <<NewVertex(RootPos, FOLDER \cup BLOCK, <<RootPos>>, p, p, <<>>),
      NewVertex(RootPos, FOLDER \cup BLOCK, <<Pos(own, p)>>, inode, inode, <<>>)>>
(* The first file added at the root brings the root with it: an empty name *)
(* and its inode.                                                          *)
add_root_if_needed(rec, own, papa) ==
    IF papa # RootPos THEN [rec |-> rec, papa |-> papa]
    ELSE [rec |-> Push([rec EXCEPT !.len = @ + 3], Hunk("root", 0, RootAtoms(own, rec.len + 1, rec.len + 2))),
          papa |-> Pos(own, rec.len + 2)]
(* A file: its name, its inode, and its contents if there are any.         *)
AddFileAt(rec, own, papa, at, name, lines, is_file) ==
    LET inode == rec.len + 1
        start == inode + 1
        end == start + Len(lines)
        name_start == IF is_file THEN end + 1 ELSE start
        contents == IF lines = <<>> THEN <<>> ELSE <<NewVertex(Pos(own, inode), BLOCK, <<Pos(own, inode)>>, start, end, <<>>)>>
        text == [p \in start..(end - 1) |-> lines[p - start + 1]] @@ (name_start :> name)
    IN  [rec |-> Push([rec EXCEPT !.len = name_start + 2, !.text = text @@ @],
                      Hunk("file_add", 0, <<NewVertex(at, FOLDER \cup BLOCK, <<papa>>, name_start, name_start + 1, <<>>),
                                            NewVertex(at, FOLDER \cup BLOCK, <<Pos(own, name_start + 1)>>, inode, inode, <<>>)>> \o contents)),
         inode |-> Pos(own, inode)]
add_file(rec, own, papa, name, lines) ==
    LET r == add_root_if_needed(rec, own, papa) IN AddFileAt(r.rec, own, r.papa, papa, name, lines, TRUE)
=============================================================================
