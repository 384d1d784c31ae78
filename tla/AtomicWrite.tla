---------------------------- MODULE AtomicWrite ----------------------------
(***************************************************************************)
(* util/fs.rs: replacing a file by writing a sibling and renaming it.      *)
(*                                                                         *)
(* A path and its sibling `.tmp` name inodes.  The sibling has one name    *)
(* whoever writes, so two writers of one path open the same inode, and the *)
(* rename moves whichever inode the sibling names at that moment.  What an *)
(* inode holds is the set of writes whose fields are in it: {} when it was *)
(* truncated and not written yet, Garbled when two writers wrote over each *)
(* other.  An inode is named after the write that created it.              *)
(***************************************************************************)
EXTENDS Integers

CONSTANTS Paths,     \* the files
          MaxOps     \* bound on the number of writes

VARIABLES file,      \* the inode a path names, 0 for no file
          tmp,       \* the inode its sibling names, 0 for no file
          content    \* what each inode holds

Inodes == 1 .. MaxOps

\* 0 is no write: it marks what does not parse.
Garbled == {0}

Bodies == SUBSET (0 .. MaxOps)

\* serde_json::from_str succeeds.
Whole(c) == c # {} /\ 0 \notin c

\* read_json; {} for a file that is missing or does not parse.
read_json(p) ==
    IF file[p] # 0 /\ Whole(content[file[p]]) THEN content[file[p]] ELSE {}

\* The inode that opening the sibling with create and truncate gives write o.
OpenedBy(p, o) == IF tmp[p] = 0 THEN o ELSE tmp[p]

\* Mutant: the file is written in place.
OpenInPlace(p, o) ==
    LET inode == IF file[p] = 0 THEN o ELSE file[p]
    IN  /\ tmp' = [tmp EXCEPT ![p] = inode]
        /\ file' = [file EXCEPT ![p] = inode]
        /\ content' = [content EXCEPT ![inode] = {}]

\* Opening the sibling, the first half of `staged`.
OpenSibling(p, o) ==
    /\ tmp' = [tmp EXCEPT ![p] = OpenedBy(p, o)]
    /\ content' = [content EXCEPT ![OpenedBy(p, o)] = {}]
    /\ UNCHANGED file

\* write_all and sync_all, at offset 0 of an inode that another writer may
\* have filled meanwhile: the longer of the two leaves its tail behind.
WriteAll(inode, body) ==
    /\ content' \in {[content EXCEPT ![inode] = b] :
                        b \in {body} \cup (IF content[inode] = {} THEN {} ELSE {Garbled})}
    /\ UNCHANGED <<file, tmp>>

\* remove_file(tmp), on every failure.
RemoveStaged(p) ==
    /\ tmp' = [tmp EXCEPT ![p] = 0]
    /\ UNCHANGED <<file, content>>

\* rename and the fsync of the directory.  There is nothing to rename when
\* another writer renamed or removed the sibling first.
Rename(p) ==
    /\ tmp[p] # 0
    /\ file' = [file EXCEPT ![p] = tmp[p]]
    /\ tmp' = [tmp EXCEPT ![p] = 0]
    /\ UNCHANGED content
=============================================================================
