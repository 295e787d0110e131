----------------------------- MODULE FileStore -----------------------------
(***************************************************************************)
(* The files and folders of modules/backend/routes/files.mjs and           *)
(* folders.mjs over their repositories.  The database applies one          *)
(* statement at a time; a transaction of updateContent() reads and writes  *)
(* what is committed by then.  A request that reads before it writes is    *)
(* kept between the two.                                                   *)
(*                                                                         *)
(* A content is the number of the request that wrote it.  Descriptions,    *)
(* tags, metadata, sizes, and the pages and order of lists are left out.   *)
(***************************************************************************)
EXTENDS Integers, Sequences, FiniteSets, FiniteSetsExt

CONSTANTS Users, Names,
          MaxFiles, MaxFolders, MaxRequests, MaxContents   \* bounds

VARIABLES files, folders,   \* the rows; an id is an index, a deleted folder is Gone
          requests,         \* those between their read and their write
          contents    \* history: contents asked to be written

vars == <<files, folders, requests, contents>>

Null == 0
Gone == [user |-> "nobody", parent |-> Null, path |-> <<>>, name |-> "none"]

Init == files = <<>> /\ folders = <<>> /\ requests = {} /\ contents = 0

Live(f) == f \in DOMAIN files /\ ~files[f].deleted
Exists(d) == d \in DOMAIN folders /\ folders[d] # Gone

NewFile(user, content, folder) ==
  [user |-> user, content |-> content, version |-> 1, folder |-> folder, public |-> FALSE,
   deleted |-> FALSE, writes |-> 0]

\* The folder may be anybody's; one that does not exist violates the foreign key.
CreateFile(user, folder) ==
  /\ Len(files) < MaxFiles /\ (folder = Null \/ Exists(folder))
  /\ contents < MaxContents /\ contents' = contents + 1
  /\ files' = Append(files, NewFile(user, contents + 1, folder))
  /\ UNCHANGED <<folders, requests>>

Mine(f, user) == Live(f) /\ files[f].user = user

UpdateFile(f, user, folder, public) ==
  /\ Mine(f, user) /\ (folder = Null \/ Exists(folder))
  /\ files' = [files EXCEPT ![f].folder = folder, ![f].public = public]
  /\ UNCHANGED <<folders, requests, contents>>

DeleteFile(f, user) ==
  /\ Mine(f, user) /\ files' = [files EXCEPT ![f].deleted = TRUE]
  /\ UNCHANGED <<folders, requests, contents>>

Ask(request) == Cardinality(requests) < MaxRequests /\ requests' = requests \cup {request}

\* The SELECT of the transaction.
BeginContent(f, user) ==
  /\ Mine(f, user) /\ contents < MaxContents /\ contents' = contents + 1
  /\ Ask([kind |-> "content", id |-> f, user |-> user, content |-> contents + 1, version |-> files[f].version, path |-> <<>>])
  /\ UNCHANGED <<files, folders>>

\* Mutant of the next operator: the version that was read, plus one.
NextVersionRead(f, q) == q.version + 1

NextVersion(f, q) == files[f].version + 1

\* Its UPDATE, which does not ask whether the file has been deleted.
WriteContent(q) ==
  /\ q \in requests /\ q.kind = "content" /\ requests' = requests \ {q}
  /\ files' = [files EXCEPT ![q.id].content = q.content, ![q.id].version = NextVersion(q.id, q),
                            ![q.id].writes = @ + 1]
  /\ UNCHANGED <<folders, contents>>

BeginDuplicate(f, user) ==
  /\ Live(f) /\ (files[f].user = user \/ files[f].public)
  /\ Ask([kind |-> "duplicate", id |-> files[f].folder, user |-> user,
          content |-> files[f].content, version |-> 0, path |-> <<>>])
  /\ UNCHANGED <<files, folders, contents>>

\* In the folder of the original, as it was read; the original may be gone by now.
WriteDuplicate(q) ==
  /\ q \in requests /\ q.kind = "duplicate" /\ requests' = requests \ {q}
  /\ IF Len(files) < MaxFiles /\ (q.id = Null \/ Exists(q.id))
     THEN files' = Append(files, NewFile(q.user, q.content, q.id))
     ELSE UNCHANGED files
  /\ UNCHANGED <<folders, contents>>

\* create(): the path of the parent, whoever owns it, if it is there.
BeginFolder(user, name, parent) ==
  /\ Ask([kind |-> "folder", id |-> parent, user |-> user, content |-> 0, version |-> 0,
          path |-> IF parent = Null \/ ~Exists(parent) THEN <<name>>
                   ELSE Append(folders[parent].path, name)])
  /\ UNCHANGED <<files, folders, contents>>

\* UNIQUE(user_id, path) and the parent's foreign key.
Insertable(q) ==
  /\ Len(folders) < MaxFolders /\ (q.id = Null \/ Exists(q.id))
  /\ \A d \in DOMAIN folders : folders[d].user = q.user => folders[d].path # q.path

WriteFolder(q) ==
  /\ q \in requests /\ q.kind = "folder" /\ requests' = requests \ {q}
  /\ folders' = IF Insertable(q)
                THEN Append(folders, [user |-> q.user, parent |-> q.id, path |-> q.path,
                                      name |-> q.path[Len(q.path)]])
                ELSE folders
  /\ UNCHANGED <<files, contents>>

\* The paths, its own and those below it, stay as they were.
RenameFolder(d, name) ==
  /\ Exists(d) /\ folders' = [folders EXCEPT ![d].name = name]
  /\ UNCHANGED <<files, requests, contents>>

\* A folder's parent is older than itself.
Ancestors[d \in 0..MaxFolders] == IF d = Null THEN {} ELSE {d} \cup Ancestors[folders[d].parent]
Below(d) == {e \in DOMAIN folders : Exists(e) /\ d \in Ancestors[e]}

\* Mutant of the next action: what is below it stays.
DeleteFolderOnly(d) ==
  /\ Exists(d)
  /\ folders' = [folders EXCEPT ![d] = Gone]
  /\ files' = [f \in DOMAIN files |->
       IF files[f].folder = d THEN [files[f] EXCEPT !.folder = Null] ELSE files[f]]
  /\ UNCHANGED <<requests, contents>>

\* ON DELETE CASCADE for folders, SET NULL for files.
DeleteFolder(d) ==
  /\ Exists(d)
  /\ folders' = [e \in DOMAIN folders |-> IF e \in Below(d) THEN Gone ELSE folders[e]]
  /\ files' = [f \in DOMAIN files |->
       IF files[f].folder \in Below(d) THEN [files[f] EXCEPT !.folder = Null] ELSE files[f]]
  /\ UNCHANGED <<requests, contents>>

Next ==
  \/ \E user \in Users :
       \/ \E folder \in 0..Len(folders) : CreateFile(user, folder)
       \/ \E f \in DOMAIN files :
            \/ \E folder \in 0..Len(folders), public \in BOOLEAN : UpdateFile(f, user, folder, public)
            \/ DeleteFile(f, user) \/ BeginContent(f, user) \/ BeginDuplicate(f, user)
       \/ \E name \in Names, parent \in 0..Len(folders) : BeginFolder(user, name, parent)
  \/ \E d \in DOMAIN folders :
       \/ \E name \in Names : RenameFolder(d, name)
       \/ DeleteFolder(d)
  \/ \E q \in requests : WriteContent(q) \/ WriteDuplicate(q) \/ WriteFolder(q)

Spec == Init /\ [][Next]_vars

----------------------------------------------------------------------------
(* What is listed                                                          *)

MyFiles(user) == {f \in DOMAIN files : Mine(f, user)}
CountByUser(user) == Cardinality(MyFiles(user))
ListByUser(user, folder) == {f \in MyFiles(user) : files[f].folder = folder}
\* Of a term all names have.
SearchFiles(user, includePublic) ==
  MyFiles(user) \cup {f \in DOMAIN files : includePublic /\ Live(f) /\ files[f].public}
\* Nothing sets a file's parent_file_id.
GetVersions(f, user) == IF Mine(f, user) THEN {files[f].version} ELSE {}
MayRead(f, user) == Live(f) /\ (files[f].user = user \/ files[f].public)

MyFolders(user) == {d \in DOMAIN folders : folders[d].user = user}
ListFolders(user, parent) == {d \in MyFolders(user) : folders[d].parent = parent}
\* What hangs, in the end, from a root; a folder in somebody else's hangs from none.
GetTree(user) ==
  LET inTree[d \in 0..MaxFolders] == d = Null \/ (d \in MyFolders(user) /\ inTree[folders[d].parent])
  IN {d \in MyFolders(user) : inTree[d]}

----------------------------------------------------------------------------
TypeOK ==
  /\ \A f \in DOMAIN files : /\ files[f].user \in Users /\ files[f].content \in 1..MaxContents
                             /\ files[f].folder \in 0..MaxFolders
                             /\ files[f].version \in 1..(MaxContents + 1)
  /\ \A d \in DOMAIN folders : /\ folders[d].user \in Users \cup {"nobody"}
                               /\ folders[d].parent \in 0..(d - 1)
                               /\ folders[d].path \in Seq(Names)
  /\ Cardinality(requests) <= MaxRequests /\ contents \in 0..MaxContents

\* With writes that rest on older reads, and folders deleted in between: every new
\* content of a file counts one version, each folder and file lies in a folder that
\* is there, under the path it was made with, and a user has no path twice.  The lists
\* of the folders and of none have each file of a user once, a search finds what may be
\* read and nothing deleted; and a folder is missing from the tree only if it lies below
\* somebody else's.
StoreSound ==
  /\ \A f \in DOMAIN files :
       /\ files[f].version = files[f].writes + 1
       /\ files[f].folder # Null => Exists(files[f].folder)
  /\ \A d \in DOMAIN folders : Exists(d) /\ folders[d].parent # Null =>
       /\ Exists(folders[d].parent)
       /\ folders[folders[d].parent].path = SubSeq(folders[d].path, 1, Len(folders[d].path) - 1)
  /\ \A d, e \in DOMAIN folders : d # e /\ Exists(d) /\ Exists(e) =>
       <<folders[d].user, folders[d].path>> # <<folders[e].user, folders[e].path>>
  /\ \A user \in Users :
       /\ CountByUser(user) = MapThenSumSet(LAMBDA d : Cardinality(ListByUser(user, d)),
                                           {Null} \cup {d \in DOMAIN folders : Exists(d)})
       /\ SearchFiles(user, TRUE) = {f \in DOMAIN files : MayRead(f, user)}
       /\ \A f \in MyFiles(user) : \A version \in GetVersions(f, user) : version > files[f].writes
       /\ MyFolders(user) \ GetTree(user) =
            UNION {Below(d) \cap MyFolders(user) : d \in {e \in DOMAIN folders : Exists(e) /\ folders[e].user # user}}
       /\ ListFolders(user, Null) \subseteq GetTree(user)
=============================================================================
