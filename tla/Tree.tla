-------------------------------- MODULE Tree --------------------------------
(***************************************************************************)
(* What the file system promises: a tree of names. tree maps the paths in  *)
(* use to their nodes, last is the call that was made and whether it       *)
(* succeeded. A call that fails leaves the tree alone.                     *)
(***************************************************************************)
EXTENDS Sequences, SequencesExt

VARIABLES tree, last

treeVars == <<tree, last>>

DirNode == [type |-> "dir", data |-> <<>>]

FileNode == [type |-> "file", data |-> <<>>]

IsFile(p) == p \in DOMAIN tree /\ tree[p].type = "file"

IsDir(p) == p = <<>> \/ (p \in DOMAIN tree /\ tree[p].type = "dir")

\* A path that goes on after the name of a file stands for that file.
Target(p) ==
    IF \E k \in 1..Len(p) : IsFile(SubSeq(p, 1, k))
    THEN SubSeq(p, 1, CHOOSE k \in 1..Len(p) : IsFile(SubSeq(p, 1, k)))
    ELSE p

Add(p, node) ==
    /\ p \notin DOMAIN tree
    /\ IsDir(Front(p))
    /\ tree' = [q \in DOMAIN tree \cup {p} |-> IF q = p THEN node ELSE tree[q]]

Drop(p) == tree' = [q \in DOMAIN tree \ {p} |-> tree[q]]

\* empty files may be there
TreeInit ==
    /\ \A p \in DOMAIN tree : Len(p) = 1 /\ tree[p] = FileNode
    /\ last = [call |-> "boot", path |-> <<>>, ok |-> TRUE]

Done(call, p) == last' = [call |-> call, path |-> p, ok |-> TRUE]

Create(p) == Done("create", p) /\ Add(p, FileNode)

Mkdir(p) == Done("mkdir", p) /\ Add(p, DirNode)

Unlink(p) == Done("unlink", p) /\ IsFile(Target(p)) /\ Drop(Target(p))

Rmdir(p) ==
    /\ Done("rmdir", p)
    /\ IsDir(p) /\ p # <<>>
    /\ \A q \in DOMAIN tree : ~IsStrictPrefix(p, q)
    /\ Drop(p)

\* a write only adds bytes at the end of its file
Append_(p) ==
    /\ Done("write", p)
    /\ IsFile(p)
    /\ p \in DOMAIN tree'
    /\ tree' = [tree EXCEPT ![p].data = tree'[p].data]
    /\ IsPrefix(tree[p].data, tree'[p].data)

\* a call of a file that exists
Visit(call, p) == Done(call, p) /\ IsFile(p) /\ UNCHANGED tree

\* a call of a directory that exists
Enter(call, p) == Done(call, p) /\ IsDir(p) /\ UNCHANGED tree

Fail == ~last'.ok /\ UNCHANGED tree

\* closing, and a restart of the system: nothing is lost
Rest == last'.call \in {"close", "closedir", "boot"} /\ UNCHANGED tree

TreeNext ==
    \/ Create(last'.path)
    \/ Mkdir(last'.path)
    \/ Unlink(last'.path)
    \/ Rmdir(last'.path)
    \/ Append_(last'.path)
    \/ Visit("open", last'.path)
    \/ Visit("read", last'.path)
    \/ Visit("lseek", last'.path)
    \/ Enter("opendir", last'.path)
    \/ Enter("chdir", last'.path)
    \/ Fail
    \/ Rest

TreeSpec == TreeInit /\ [][TreeNext]_treeVars
=============================================================================
