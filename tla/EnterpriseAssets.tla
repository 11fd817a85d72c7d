--------------------------- MODULE EnterpriseAssets ---------------------------
(***************************************************************************)
(* The documents of an Enterprise instance (application/enterprise:        *)
(* documents.py, manual_groups.py): manuals and one active catalog, each a *)
(* row with a file, and groups of manuals.  Uploads run on the event loop  *)
(* and wait while a file is read and written; deletions and group changes  *)
(* run in threads of the pool, so two of them interleave at every          *)
(* statement; the bot reads a row first and its file later.                *)
(***************************************************************************)
EXTENDS Naturals, Sequences

CONSTANTS
    MaxRows,       \* bound: assets
    Names,         \* names of groups
    MaxChanges     \* bound: changes of groups

\* What the constants have to be; the module that gives them values assumes it.
AssetsAssumption ==
    MaxRows \in Nat \ {0} /\ MaxChanges \in Nat /\ "deleted" \notin Names

Uploads == {"first", "second"}
Threads == {"one", "other"}

VARIABLES
    rows,         \* committed assets: their kind and whether they are active
    files,        \* assets whose file is there
    upload,       \* the uploads under way
    deletion,     \* the deletion under way
    cut,          \* assets whose deletion was begun
    groups,       \* committed groups: their names
    members,      \* committed assignments of manuals to groups
    editor,       \* the group changes under way
    changes       \* bound

fileVars == <<rows, files, upload, deletion, cut>>
groupVars == <<groups, members, editor, changes>>
assetVars == <<fileVars, groupVars>>

Gone == [kind |-> "gone", active |-> FALSE]
NoUpload == [pc |-> "idle", kind |-> "manual", old |-> 0]
NoDeletion == [pc |-> "idle", row |-> 0]
NoEdit == [pc |-> "idle", op |-> "create", group |-> 0, name |-> "none", row |-> 0]

AssetsInit ==
    /\ rows = <<>> /\ files = {} /\ cut = {}
    /\ upload = [u \in Uploads |-> NoUpload]
    /\ deletion = NoDeletion
    /\ groups = <<>> /\ members = {} /\ changes = 0
    /\ editor = [t \in Threads |-> NoEdit]

ActiveCatalogs == {i \in DOMAIN rows : rows[i].kind = "catalog" /\ rows[i].active}

----------------------------------------------------------------------------
(* Documents.  A file has the number of its row.                           *)

\* upload_manual and replace_catalog with a file, up to their first await.
UploadBegins(u) ==
    /\ upload[u].pc = "idle"
    /\ \E kind \in {"manual", "catalog"},
          old \in IF ActiveCatalogs = {} THEN {0} ELSE ActiveCatalogs :
          upload' = [upload EXCEPT ![u] = [pc |-> "writing", kind |-> kind,
                         old |-> IF kind = "catalog" THEN old ELSE 0]]
    /\ UNCHANGED <<rows, files, deletion, cut, groupVars>>

\* Mutant: only the catalog that was active at the start is deactivated.
UploadCommitsOverOld(u) ==
    /\ upload[u].pc = "writing" /\ Len(rows) < MaxRows
    /\ LET old == upload[u].old
       IN /\ rows' = Append([i \in DOMAIN rows |->
                          IF i = old THEN [rows[i] EXCEPT !.active = FALSE] ELSE rows[i]],
                          [kind |-> upload[u].kind, active |-> TRUE])
          /\ files' = (files \union {Len(rows) + 1}) \ {old}
    /\ upload' = [upload EXCEPT ![u] = NoUpload]
    /\ UNCHANGED <<deletion, cut, groupVars>>

\* The PDF is valid and its file is written, under a name of its own; the row
\* is committed with every other catalog deactivated; then the old catalog's
\* file is deleted, quietly if that fails.
UploadCommits(u) ==
    /\ upload[u].pc = "writing" /\ Len(rows) < MaxRows
    /\ LET kind == upload[u].kind
           rest == [i \in DOMAIN rows |->
                     IF kind = "catalog" /\ rows[i].kind = "catalog"
                     THEN [rows[i] EXCEPT !.active = FALSE] ELSE rows[i]]
       IN rows' = Append(rest, [kind |-> kind, active |-> TRUE])
    /\ \E gone \in SUBSET ({upload[u].old} \ {0}) :
          files' = (files \union {Len(rows) + 1}) \ gone
    /\ upload' = [upload EXCEPT ![u] = NoUpload]
    /\ UNCHANGED <<deletion, cut, groupVars>>

\* delete_asset, in a thread: the file goes first, quietly if that fails.
DeletionBegins ==
    /\ deletion.pc = "idle"
    /\ \E i \in DOMAIN rows : rows[i] # Gone /\ deletion' = [pc |-> "file", row |-> i]
    /\ UNCHANGED <<rows, files, upload, cut, groupVars>>
FileDeleted ==
    /\ deletion.pc = "file"
    /\ \E gone \in SUBSET {deletion.row} : files' = files \ gone
    /\ deletion' = [deletion EXCEPT !.pc = "row"]
    /\ cut' = cut \union {deletion.row}
    /\ UNCHANGED <<rows, upload, groupVars>>
RowDeleted ==
    /\ deletion.pc = "row"
    /\ rows' = [rows EXCEPT ![deletion.row] = Gone]
    /\ members' = {m \in members : m.row # deletion.row}
    /\ deletion' = NoDeletion
    /\ UNCHANGED <<files, upload, cut, groups, editor, changes>>

\* The commit of a deletion fails, or the process dies: uploads are lost,
\* with their files left behind.
DeletionFails ==
    /\ deletion.pc # "idle"
    /\ deletion' = NoDeletion
    /\ UNCHANGED <<rows, files, upload, cut, groupVars>>
UploadFails(u) ==
    /\ upload[u].pc = "writing"
    /\ upload' = [upload EXCEPT ![u] = NoUpload]
    /\ UNCHANGED <<rows, files, deletion, cut, groupVars>>

----------------------------------------------------------------------------
(* Groups.  A thread checks first and commits later; the unique indexes of *)
(* the database make the commit fail when another thread was faster.       *)

NoGroup == "deleted"
GroupIds == {g \in DOMAIN groups : groups[g] # NoGroup}
Named(name) == {g \in GroupIds : groups[g] = name}

\* create_group, rename_group, delete_group, add_manual_to_group: the checks.
EditBegins(t) ==
    /\ editor[t].pc = "idle" /\ changes < MaxChanges /\ changes' = changes + 1
    /\ \E op \in {"create", "rename", "delete", "add"}, g \in GroupIds \union {0},
          name \in Names, i \in DOMAIN rows \union {0} :
          /\ op = "create" <=> g = 0
          /\ op \in {"create", "rename"} => Named(name) \ {g} = {}
          /\ op = "add" <=> i # 0
          /\ op = "add" => rows[i] # Gone /\ [group |-> g, row |-> i] \notin members
          /\ editor' = [editor EXCEPT ![t] = [pc |-> "checked", op |-> op, group |-> g,
                                              name |-> name, row |-> i]]
    /\ UNCHANGED <<fileVars, groups, members>>

\* uq_enterprise_manual_group_instance_name, the assignments' unique pair and
\* the foreign keys.
Allowed(e) ==
    CASE e.op = "create" -> Named(e.name) = {}
      [] e.op = "rename" -> e.group \in GroupIds /\ Named(e.name) \ {e.group} = {}
      [] e.op = "delete" -> e.group \in GroupIds
      [] e.op = "add" -> /\ e.group \in GroupIds /\ rows[e.row] # Gone
                         /\ [group |-> e.group, row |-> e.row] \notin members

EditCommits(t) ==
    /\ editor[t].pc = "checked"
    /\ LET e == editor[t]
       IN IF ~Allowed(e) THEN UNCHANGED <<groups, members>>
          ELSE /\ groups' = CASE e.op = "create" -> Append(groups, e.name)
                              [] e.op = "rename" -> [groups EXCEPT ![e.group] = e.name]
                              [] e.op = "delete" -> [groups EXCEPT ![e.group] = NoGroup]
                              [] e.op = "add" -> groups
               /\ members' = CASE e.op = "delete" -> {m \in members : m.group # e.group}
                               [] e.op = "add" -> members \union
                                     {[group |-> e.group, row |-> e.row]}
                               [] OTHER -> members
    /\ editor' = [editor EXCEPT ![t] = NoEdit]
    /\ UNCHANGED <<fileVars, changes>>

\* remove_manual_from_group.
MemberRemoved ==
    /\ \E m \in members : members' = members \ {m}
    /\ UNCHANGED <<fileVars, groups, editor, changes>>

----------------------------------------------------------------------------
Documents ==
    \/ \E u \in Uploads : UploadBegins(u) \/ UploadCommits(u) \/ UploadFails(u)
    \/ DeletionBegins \/ FileDeleted \/ RowDeleted \/ DeletionFails
ManualGroups == (\E t \in Threads : EditBegins(t) \/ EditCommits(t)) \/ MemberRemoved
AssetsNext == Documents \/ ManualGroups

AssetsSpec == AssetsInit /\ [][AssetsNext]_assetVars

\* However replacements overlap, one catalog is active, and the file of what
\* is active is there, unless a deletion of it was begun and cut short.
ActiveIsReadable ==
    /\ \A i, k \in ActiveCatalogs : i = k
    /\ \A i \in DOMAIN rows : rows[i].active => i \in files \union cut

\* Group names stay unique and assignments refer to what exists, although two
\* threads check before either commits.
GroupsConsistent ==
    /\ \A g1, g2 \in GroupIds : groups[g1] = groups[g2] => g1 = g2
    /\ \A m \in members : m.group \in GroupIds /\ rows[m.row] # Gone
=============================================================================
