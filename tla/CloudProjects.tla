---------------------------- MODULE CloudProjects ----------------------------
(***************************************************************************)
(* What the cloud keeps of a project: the versions of its files, and its   *)
(* members.                                                                *)
(***************************************************************************)
EXTENDS Integers, Sequences, FiniteSets, SequencesExt

(***************************************************************************)
(* The versions of a file of modules/cloud/cloud-storage-manager.mjs.  A   *)
(* version is named by the millisecond of its upload, which is one step:   *)
(* under way and completed in the same call.                               *)
(*                                                                         *)
(* Paths share nothing.  Sizes, providers, checksums, which hash the       *)
(* file's name, and the backup configuration, which is only announced, are *)
(* left out; the n-th upload is the number n.                              *)
(***************************************************************************)

CONSTANTS MaxVersions, MaxTime, MaxHistory   \* bounds

VARIABLES now,
          versionHistory,   \* of the path: the id of each version and its upload
          storageHistory,   \* what was done: the version asked for, the upload it got
                            \* and the number of uploads then
          uploadedAt        \* history: when each upload took place

storageVars == <<now, versionHistory, storageHistory, uploadedAt>>

StorageInit == now = 1 /\ versionHistory = <<>> /\ storageHistory = <<>> /\ uploadedAt = <<>>

Record(entry) ==
  /\ Len(storageHistory) < MaxHistory
  /\ storageHistory' = Append(storageHistory, entry)

\* A file that is too big is refused.
UploadFile ==
  /\ Len(versionHistory) < MaxVersions
  /\ LET n == Len(versionHistory) + 1
     IN /\ versionHistory' = Append(versionHistory, [versionId |-> now, upload |-> n])
        /\ Record([call |-> "upload", asked |-> now, got |-> n, of |-> n])
  /\ uploadedAt' = Append(uploadedAt, now)
  /\ UNCHANGED now

\* Mutant of the next operator: the first that is not older.
FindNotOlder(id) == SelectInSeq(versionHistory, LAMBDA v : v.versionId >= id)

\* The first version with the id; 0 is not found, and the call throws.
Find(id) == SelectInSeq(versionHistory, LAMBDA v : v.versionId = id)

\* Neither a download nor a restoration changes which version is the latest.
Fetch(i, id, call) ==
  /\ i # 0
  /\ Record([call |-> call, asked |-> id, got |-> versionHistory[i].upload,
             of |-> Len(versionHistory)])
  /\ UNCHANGED <<now, versionHistory, uploadedAt>>

Latest == 0
DownloadFile(id) ==
  Fetch(IF id = Latest THEN Len(versionHistory) ELSE Find(id), id, "download")
RestoreFileVersion(id) == Fetch(Find(id), id, "restore")

ClearChangeHistory ==
  /\ storageHistory # <<>> /\ storageHistory' = <<>>
  /\ UNCHANGED <<now, versionHistory, uploadedAt>>

Tick == /\ now' = IF now < MaxTime THEN now + 1 ELSE now
        /\ UNCHANGED <<versionHistory, storageHistory, uploadedAt>>

StorageNext ==
  \/ UploadFile
  \/ \E id \in Latest..MaxTime : DownloadFile(id)
  \/ \E id \in 1..MaxTime : RestoreFileVersion(id)
  \/ ClearChangeHistory \/ Tick


----------------------------------------------------------------------------
(* What the manager tells.                                                  *)

\* getVersionHistory(): the last ones in their order, numbered downwards, so that the
\* oldest of them has the highest number.
VersionHistory(limit) ==
  LET total == Len(versionHistory)
      shown == IF limit < total THEN limit ELSE total
  IN [i \in 1..shown |-> [versionNumber |-> total - (i - 1),
                         versionId |-> versionHistory[total - shown + i].versionId]]

\* listFiles(), getStorageUsage(): the file as its last version has it.
Listed == [lastModified |-> versionHistory[Len(versionHistory)].versionId,
           versionCount |-> Len(versionHistory)]

\* getStatistics(): a download has a cloudUrl, too, and counts as an upload.
TotalUploads == Len(SelectSeq(storageHistory, LAMBDA h : h.call \in {"upload", "download"}))

----------------------------------------------------------------------------
StorageTyped ==
  /\ now \in 1..MaxTime
  /\ versionHistory \in Seq([versionId : 1..now, upload : 1..MaxVersions])
  /\ storageHistory \in Seq([call : {"upload", "download", "restore"}, asked : 0..now,
                             got : 1..MaxVersions, of : 1..MaxVersions])

\* A version that is asked for by its id is the upload of that millisecond, the first
\* one: the later uploads of a millisecond can only be had as the latest, which is
\* still the last upload after any number of restorations; the last ones that are
\* listed have numbers of their own and are as many as there are, and no restoration
\* counts as an upload.
RightVersion ==
  /\ \A i \in DOMAIN storageHistory :
       LET h == storageHistory[i]
       IN CASE h.asked = Latest    -> h.got = h.of
            [] h.call = "upload"   -> uploadedAt[h.got] = h.asked
            [] OTHER               -> /\ uploadedAt[h.got] = h.asked
                                      /\ \A n \in 1..(h.got - 1) : uploadedAt[n] # h.asked
  /\ versionHistory # <<>> =>
       /\ \A v \in ToSet(VersionHistory(MaxVersions)) : v.versionId <= Listed.lastModified
       /\ \A limit \in 1..MaxVersions :
            /\ IsInjective(VersionHistory(limit))
            /\ VersionHistory(limit)[1].versionNumber = Listed.versionCount
  /\ TotalUploads <= Len(storageHistory)
             - Len(SelectSeq(storageHistory, LAMBDA h : h.call = "restore"))

-----------------------------------------------------------------------------
(***************************************************************************)
(* The members of a project of modules/cloud/project-sharing-manager.mjs.  *)
(* Projects share nothing but the audit log, of which only the length is   *)
(* kept.  Nobody checks who calls.                                         *)
(***************************************************************************)

CONSTANTS Users,
          MaxLog   \* bound: audit entries

VARIABLES owner,         \* ownerId, or None
          permissions,   \* userId, role and permissions of each member, in order
          memberCount,
          log,           \* length of the audit log
          emptied        \* history: the last member has been removed

sharingVars == <<owner, permissions, memberCount, log, emptied>>

None == "none"
Roles == {"ADMIN", "EDITOR", "COMMENTER", "VIEWER"}
ValidPermissions == {"READ", "WRITE", "DELETE", "SHARE", "INVITE", "COMMENT"}

rolePermissions == [
  ADMIN     |-> {"READ", "WRITE", "DELETE", "SHARE", "INVITE"},
  EDITOR    |-> {"READ", "WRITE", "INVITE"},
  COMMENTER |-> {"READ", "COMMENT"},
  VIEWER    |-> {"READ"}]

Member(user, role) == [userId |-> user, role |-> role, permissions |-> rolePermissions[role]]
Position(user) == SelectInSeq(permissions, LAMBDA p : p.userId = user)

SharingInit == owner = None /\ permissions = <<>> /\ memberCount = 0 /\ log = 0 /\ emptied = FALSE

Logged == log' = IF log < MaxLog THEN log + 1 ELSE log

CreateProject(user) ==
  /\ owner = None /\ owner' = user
  /\ permissions' = <<Member(user, "ADMIN")>>
  /\ memberCount' = 1 /\ Logged
  /\ UNCHANGED emptied

\* Mutant of the next action: the count goes up with every call.
ShareProjectCounting(user, role) ==
  /\ owner # None
  /\ permissions' = IF Position(user) = 0 THEN Append(permissions, Member(user, role))
                    ELSE [permissions EXCEPT ![Position(user)] = Member(user, role)]
  /\ memberCount' = memberCount + 1
  /\ Logged /\ UNCHANGED <<owner, emptied>>

\* The owner may be given another role like anybody else.
ShareProject(user, role) ==
  /\ owner # None
  /\ permissions' = IF Position(user) = 0 THEN Append(permissions, Member(user, role))
                    ELSE [permissions EXCEPT ![Position(user)] = Member(user, role)]
  /\ memberCount' = IF Position(user) = 0 THEN memberCount + 1 ELSE memberCount
  /\ Logged /\ UNCHANGED <<owner, emptied>>

\* The role stays as it is.
UpdateUserPermissions(user, granted) ==
  /\ Position(user) # 0
  /\ permissions' = [permissions EXCEPT ![Position(user)].permissions = granted]
  /\ Logged /\ UNCHANGED <<owner, memberCount, emptied>>

RevokeAccess(user) ==
  /\ Position(user) # 0
  /\ permissions' = RemoveAt(permissions, Position(user))
  /\ memberCount' = IF memberCount > 1 THEN memberCount - 1 ELSE 1
  /\ emptied' = (emptied \/ Len(permissions) = 1)
  /\ Logged /\ UNCHANGED owner

ClearActivity == log > 0 /\ log' = 0 /\ UNCHANGED <<owner, permissions, memberCount, emptied>>

SharingNext ==
  \/ \E user \in Users :
       \/ CreateProject(user) \/ RevokeAccess(user)
       \/ \E role \in Roles : ShareProject(user, role)
       \/ \E granted \in {{}, {"READ"}, ValidPermissions} : UpdateUserPermissions(user, granted)
  \/ ClearActivity


----------------------------------------------------------------------------
(* What the manager tells.                                                  *)

\* getProjectMembers(): its memberCount is counted.
ProjectMembers == [memberCount |-> Len(permissions),
                   owners |-> {i \in DOMAIN permissions : permissions[i].userId = owner}]

\* getUserProjects(): an owner who is no member any more still sees the project, as
\* any user sees a public one, with the role of a viewer.
UserRole(user) == IF Position(user) = 0 THEN "VIEWER" ELSE permissions[Position(user)].role
Sees(user) == owner = user \/ Position(user) # 0

----------------------------------------------------------------------------
SharingTyped ==
  /\ owner \in Users \cup {None}
  /\ permissions \in Seq([userId : Users, role : Roles, permissions : SUBSET ValidPermissions])
  /\ memberCount \in 0..(Cardinality(Users) + 1) /\ log \in 0..MaxLog /\ emptied \in BOOLEAN

\* Whatever is shared, changed and revoked, nobody is a member twice, and the
\* project's memberCount, which is kept beside the list, is its length; after the
\* last member has been removed it stays one too high.  Its owner sees the project
\* whatever is revoked, and nobody else has a role in it who is not listed.
MembersCounted ==
  /\ \A i, j \in DOMAIN permissions : permissions[i].userId = permissions[j].userId => i = j
  /\ owner # None => memberCount = ProjectMembers.memberCount + (IF emptied THEN 1 ELSE 0)
  /\ \A user \in Users :
       /\ Sees(user) /\ UserRole(user) # "VIEWER" => Position(user) # 0
       /\ owner = user => Sees(user) /\ Cardinality(ProjectMembers.owners) <= 1

-----------------------------------------------------------------------------
\* The two share no state.
vars == <<storageVars, sharingVars>>
Init == StorageInit /\ SharingInit
Next ==
  \/ StorageNext /\ UNCHANGED sharingVars
  \/ SharingNext /\ UNCHANGED storageVars
Spec == Init /\ [][Next]_vars

TypeOK == StorageTyped /\ SharingTyped
==============================================================================
