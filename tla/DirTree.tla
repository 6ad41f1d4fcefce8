------------------------------ MODULE DirTree ------------------------------
(* What mkdir, touch and cd promise their callers: a namespace that only      *)
(* grows, one entry at a time, each in the folder the user is in; a new       *)
(* folder is empty and shares its cluster with nothing; nothing else the      *)
(* machine does, including failing at any point, changes the namespace.       *)
EXTENDS Integers

CONSTANTS Trees, OK, NONE
VARIABLES
  root,     \* cluster of the root folder
  tree,     \* set of entries [dir, at, slot]
  folder,   \* cluster of the folder the user is in, NONE before the mount
  answer    \* [op, val] of the last call that ended

tvars == <<root, tree, folder, answer>>

InUse(c) == c = root \/ \E e \in tree : e.slot.cluster = c \/ e.dir = c
Fresh(e) ==
  /\ e.dir = folder
  /\ \A f \in tree : <<f.dir, f.at>> # <<e.dir, e.at>>
  /\ \/ e.slot.t = "file" /\ e.slot.cluster = 0
     \/ e.slot.t = "dir" /\ ~InUse(e.slot.cluster)

InitTree == tree \in Trees /\ folder = NONE /\ answer.val = OK

(* mkdir or touch: on success its entry is there; when it reports an error    *)
(* the entry may be there or not (the card may have stored the write).        *)
Create ==
  /\ answer'.op \in {"mkdir", "touch"} /\ folder' = folder
  /\ \/ \E e \in tree' \ tree :
          Fresh(e) /\ tree' = tree \cup {e}
          /\ e.slot.t = IF answer'.op = "mkdir" THEN "dir" ELSE "file"
     \/ answer'.val # OK /\ tree' = tree

(* cd: to the root, to a folder of the folder the user is in, or back to one  *)
(* that holds others.                                                         *)
Move ==
  /\ answer'.op = "chdir" /\ tree' = tree
  /\ folder' \in {folder, root}
       \cup {e.slot.cluster : e \in {f \in tree : f.dir = folder /\ f.slot.t = "dir"}}
       \cup {e.dir : e \in {f \in tree : f.slot.t = "dir"}}

(* Every other call, the start of a call, mounting and resets.                *)
Other ==
  /\ answer'.op \notin {"mkdir", "touch"} /\ tree' = tree
  /\ folder' \in {folder, NONE} \cup (IF folder = NONE THEN {root} ELSE {})

TreeNext == root' = root /\ (Create \/ Move \/ Other)
TreeSpec == InitTree /\ [][TreeNext]_tvars
=============================================================================
