-------------------------------- MODULE Archive --------------------------------
(***************************************************************************)
(* The virtual tree of an archive: files by path, policies by folder, and  *)
(* the operations on them: put_file with its placement, remove_file,       *)
(* move_path, and the setting of policies (pipeline.py, register.py).      *)
(*                                                                         *)
(* A path is a sequence of names; there are no directories but those that  *)
(* the paths of files imply.  Operations of the daemon's worker, its API   *)
(* and the command-line program overlap: each reads the register first and *)
(* writes one transaction at its end.  A chunk is one unit of space.       *)
(***************************************************************************)
EXTENDS Placement

CONSTANTS
    Name,
    MaxDepth,       \* bound: names in a path
    MaxFiles,       \* bound: files, and so their ids
    Putter, Mover,  \* those who put and remove, one at a time; those who move
    PutPath, Source, Destination,   \* bound: the paths that are asked for
    Override,       \* bound: the options given with an upload
    FolderPolicy,   \* bound: pairs of a folder and a policy given to it
    Fleet,          \* bound: states of the providers
    NoFile, NoPolicy

VARIABLES
    tree,           \* the files table, by vpath, with what the manifest says
    policies,       \* the policies table: sparse, by folder
    fleet,          \* the providers: any of Fleet, and the same throughout
    op              \* what each one is doing

vars == <<tree, policies, fleet, op>>

Root == <<>>
Path == UNION {[1..d -> Name] : d \in 1..MaxDepth}
Folder == {Root} \cup Path
Present == {path \in Path : tree[path] # NoFile}
IdOf(path) == tree[path].id
Ids == {IdOf(path) : path \in Present}
PathOf(id) == CHOOSE path \in Present : IdOf(path) = id
\* SQLite gives out the largest id in use plus one.
NextId == IF Ids = {} THEN 1 ELSE 1 + CHOOSE i \in Ids : \A j \in Ids : i >= j

(***************************************************************************)
(* The tree.                                                               *)
(***************************************************************************)
IsUnder(folder, path) == Len(folder) < Len(path) /\ SubSeq(path, 1, Len(folder)) = folder
Under(folder) == {path \in Present : IsUnder(folder, path)}

\* list_children: the files of a folder, and the first names of what is deeper.
ChildFiles(folder) == {path \in Under(folder) : Len(path) = Len(folder) + 1}

\* Mutant: a name is a file or a directory, as in list_dir, which stops at a file.
ChildDirsOnly(folder) ==
    {path[Len(folder) + 1] : path \in {q \in Under(folder) : Len(q) > Len(folder) + 1}}
        \ {path[Len(folder) + 1] : path \in ChildFiles(folder)}

ChildDirs(folder) ==
    {path[Len(folder) + 1] : path \in {q \in Under(folder) : Len(q) > Len(folder) + 1}}

HasChildren(folder) == \E path \in Present : IsUnder(folder, path)

Governs(folder, path) == folder = path \/ IsUnder(folder, path)

\* folder_policy_for: the deepest folder with a policy.
FolderPolicyFor(path) ==
    LET governing == {f \in Folder : policies[f] # NoPolicy /\ Governs(f, path)}
    IN  IF governing = {} THEN NoPolicy
        ELSE policies[CHOOSE f \in governing : \A g \in governing : Len(f) >= Len(g)]

ResolvePolicy(path) == IF FolderPolicyFor(path) = NoPolicy THEN Default ELSE Full(FolderPolicyFor(path))

(***************************************************************************)
(* Upload: policy and placement are settled at the start.                  *)
(***************************************************************************)
Asked == {Over(options, base) : options \in Override, base \in {Default} \cup {fp[2] : fp \in FolderPolicy}}

\* The root is not moved; policies and providers are what their classes make them.
ASSUME ArchiveAssumption ==
    /\ MaxDepth \in Nat /\ MaxFiles \in Nat
    /\ PutPath \subseteq Path /\ Source \subseteq Path /\ Destination \subseteq Folder
    /\ FolderPolicy \subseteq Folder \X Policy /\ Asked \subseteq Policy
    /\ Fleet \subseteq [Provider -> Handle]

Plan == [f \in Fleet |-> [policy \in Asked |-> Groups(f, policy, 1)]]

Idle == [at |-> "idle"]
Begins(a, o) == op' = [op EXCEPT ![a] = o]
Ends(a) == op' = [op EXCEPT ![a] = Idle]

StartPut(a, path, options) ==
    LET policy == Over(options, ResolvePolicy(path))
        groups == Plan[fleet][policy]
    IN  /\ op[a] = Idle /\ tree[path] = NoFile /\ groups # Failed
        /\ Begins(a, [at |-> "put", path |-> path, policy |-> policy, groups |-> groups])
        /\ UNCHANGED <<tree, policies, fleet>>

\* The insert; the path is unique.
EndPut(a) ==
    /\ op[a].at = "put" /\ NextId <= MaxFiles
    /\ Ends(a)
    /\ IF tree[op[a].path] = NoFile
       THEN tree' = [tree EXCEPT ![op[a].path] =
                        [id |-> NextId, policy |-> op[a].policy, groups |-> op[a].groups]]
       ELSE UNCHANGED tree
    /\ UNCHANGED <<policies, fleet>>

(***************************************************************************)
(* Removal: the file that had the name is removed by its id.               *)
(***************************************************************************)
StartRemove(a, path) ==
    /\ op[a] = Idle /\ tree[path] # NoFile
    /\ Begins(a, [at |-> "remove", id |-> IdOf(path)])
    /\ UNCHANGED <<tree, policies, fleet>>

EndRemove(a) ==
    /\ op[a].at = "remove"
    /\ Ends(a)
    /\ tree' = [path \in Path |-> IF path \in Present /\ IdOf(path) = op[a].id THEN NoFile ELSE tree[path]]
    /\ UNCHANGED <<policies, fleet>>

(***************************************************************************)
(* move_path.                                                              *)
(***************************************************************************)

\* Into a directory that is there, or that the path names with a slash.
Target(src, dst, into) == IF into \/ HasChildren(dst) THEN Append(dst, src[Len(src)]) ELSE dst

StartMove(a, src, dst, into) ==
    LET target == Target(src, dst, into) IN
    /\ op[a] = Idle /\ dst # src /\ ~IsUnder(src, dst)
    /\ target \in Path /\ tree[target] = NoFile
    /\ Begins(a, IF tree[src] # NoFile
                 THEN [at |-> "move file", id |-> IdOf(src), target |-> target]
                 ELSE [at |-> "move tree", src |-> src, target |-> target])
    /\ UNCHANGED <<tree, policies, fleet>>

\* Mutant: the name is taken from the file that has it.
MoveFileOver(a) ==
    /\ op[a].at = "move file"
    /\ Ends(a)
    /\ IF op[a].id \in Ids /\ PathOf(op[a].id) # op[a].target
       THEN tree' = [tree EXCEPT ![op[a].target] = tree[PathOf(op[a].id)], ![PathOf(op[a].id)] = NoFile]
       ELSE UNCHANGED tree
    /\ UNCHANGED <<policies, fleet>>

\* move_file, by id: a file that has gone is not missed, a name that is taken is.
MoveFile(a) ==
    /\ op[a].at = "move file"
    /\ Ends(a)
    /\ IF op[a].id \in Ids /\ tree[op[a].target] = NoFile
       THEN tree' = [tree EXCEPT ![op[a].target] = tree[PathOf(op[a].id)], ![PathOf(op[a].id)] = NoFile]
       ELSE UNCHANGED tree
    /\ UNCHANGED <<policies, fleet>>

Renamed(path, src, target) == target \o SubSeq(path, Len(src) + 1, Len(path))

\* Mutant: files whose new name is taken stay behind.
MoveTreeWhatFits(a) ==
    LET src == op[a].src  target == op[a].target
        below == {path \in Under(src) : tree[Renamed(path, src, target)] = NoFile}
        new == {Renamed(path, src, target) : path \in below}
    IN  /\ op[a].at = "move tree" /\ \A path \in Under(src) : Renamed(path, src, target) \in Path
        /\ Ends(a)
        /\ tree' = [path \in Path |-> IF path \in new THEN tree[Renamed(path, target, src)]
                                     ELSE IF path \in below THEN NoFile ELSE tree[path]]
        /\ UNCHANGED <<policies, fleet>>

\* move_tree: one UPDATE, refused if a new name is taken; the name of a file
\* that is moved too may count as taken, by the order of the rows.
MoveTree(a) ==
    LET src == op[a].src  target == op[a].target
        below == Under(src)
        new == {Renamed(path, src, target) : path \in below}
        taken == new \cap Present
    IN  /\ op[a].at = "move tree" /\ new \subseteq Path
        /\ Ends(a)
        /\ \/ taken # {} /\ UNCHANGED tree
           \/ /\ taken \subseteq below
              /\ tree' = [path \in Path |-> IF path \in new THEN tree[Renamed(path, target, src)]
                                           ELSE IF path \in below THEN NoFile ELSE tree[path]]
        /\ UNCHANGED <<policies, fleet>>

(***************************************************************************)
(* Policies, and what happens to the providers and the processes.          *)
(***************************************************************************)
SetPolicy(folder, policy) ==
    /\ IsValid(policy)
    /\ policies' = [policies EXCEPT ![folder] = Sparse(policy)]
    /\ UNCHANGED <<tree, fleet, op>>

UnsetPolicy(folder) ==
    /\ policies[folder] # NoPolicy
    /\ policies' = [policies EXCEPT ![folder] = NoPolicy]
    /\ UNCHANGED <<tree, fleet, op>>

\* An upload or a removal that fails, or a process that dies.
Aborts(a) ==
    /\ op[a] # Idle /\ Ends(a)
    /\ UNCHANGED <<tree, policies, fleet>>

Init ==
    /\ tree = [path \in Path |-> NoFile] /\ policies = [folder \in Folder |-> NoPolicy]
    /\ fleet \in Fleet
    /\ op = [a \in Putter \cup Mover |-> Idle]

Next ==
    \/ \E a \in Putter :
          \/ \E path \in PutPath, options \in Override : StartPut(a, path, options)
          \/ \E path \in Path : StartRemove(a, path)
          \/ EndPut(a) \/ EndRemove(a)
    \/ \E a \in Mover :
          \/ \E src \in Source, dst \in Destination, into \in BOOLEAN : StartMove(a, src, dst, into)
          \/ MoveFile(a) \/ MoveTree(a)
    \/ \E fp \in FolderPolicy : SetPolicy(fp[1], fp[2]) \/ UnsetPolicy(fp[1])
    \/ \E a \in Putter \cup Mover : Aborts(a)

Spec == Init /\ [][Next]_vars

(***************************************************************************)
(* Properties.                                                             *)
(***************************************************************************)

\* Every variable has its type.
Placing == {Plan[f][policy] : f \in Fleet, policy \in Asked}
File == [id : 1..MaxFiles, policy : Asked, groups : Placing]
Operation ==
    {Idle} \cup [at : {"put"}, path : Path, policy : Asked, groups : Placing]
           \cup [at : {"remove"}, id : 1..MaxFiles]
           \cup [at : {"move file"}, id : 1..MaxFiles, target : Path]
           \cup [at : {"move tree"}, src : Path, target : Path]
TypeOK ==
    /\ tree \in [Path -> File \cup {NoFile}]
    /\ policies \in [Folder -> {Sparse(fp[2]) : fp \in FolderPolicy} \cup {NoPolicy}]
    /\ fleet \in Fleet
    /\ op \in [Putter \cup Mover -> Operation]

\* Whatever overlaps, a file leaves the register only by its own removal, and
\* keeps its manifest under any name: no upload or move overwrites another.
FilesStay ==
    [][tree' # tree => \A path \in Present :
          \/ \E q \in Path : tree'[q] = tree[path]
          \/ \E a \in Putter : op[a].at = "remove" /\ op[a].id = IdOf(path) /\ op'[a] = Idle]_vars

\* A directory moves as a whole or not at all, whatever was put or moved while
\* the move looked at it.
MovesWhole ==
    [][\A a \in Mover : op[a].at = "move tree" /\ op'[a] = Idle /\ tree' # tree
          => \A path \in Under(op[a].src) :
                tree'[Renamed(path, op[a].src, op[a].target)] = tree[path]]_vars

\* Browsing finds every file: down the listings of directories from the root,
\* even below a path that is a file too.
Walk ==
    LET found[d \in 0..MaxDepth] ==
            IF d = 0 THEN {Root}
            ELSE found[d - 1] \cup UNION {{Append(f, x) : x \in ChildDirs(f)} : f \in found[d - 1]}
    IN  found[MaxDepth]
EveryFileListed == Present = UNION {ChildFiles(folder) : folder \in Walk}

\* "No provider ever holds a complete copy of the file" (placement.py:66), when
\* it is to be spread, and no provider is in more groups than its cap.
NobodyHoldsWhole ==
    \A path \in Present :
        LET r == tree[path]
            Held(p) == {i \in DOMAIN r.groups : p \in Range(r.groups[i])}
        IN  r.policy.scheme # "ec" /\ r.policy.minSpread > 1
              => \A p \in Provider : /\ Held(p) # DOMAIN r.groups
                                     /\ Cardinality(Held(p)) <= ResolvedSpreadCap(r.policy)

\* A group is as durable as the ceiling lets it be: a chunk at more risk than one
\* in a thousand has its two extra copies, or there was nobody else to ask.
DurableOrNobodyElse ==
    [][\A a \in Putter : op[a] = Idle /\ op'[a].at = "put" /\ op'[a].policy.scheme # "ec"
          => \A i \in DOMAIN op'[a].groups :
                LET g == op'[a].groups[i]  policy == op'[a].policy
                    Held(p) == {j \in 1..i - 1 : p \in Range(op'[a].groups[j])}
                IN  \/ IsDurable(fleet, g)
                    \/ Len(g) = policy.replicas + MaxExtra
                    \/ \A p \in Candidates(fleet, policy, 1, Range(g)) :
                          policy.minSpread > 1 /\ Cardinality(Held(p)) >= ResolvedSpreadCap(policy)]_vars

================================================================================
