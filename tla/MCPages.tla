------------------------------ MODULE MCPages -------------------------------
(* What one page, its server and its editor keep: the parts share no state, *)
(* and a behaviour is one of them.                                          *)
EXTENDS UndoRedo, Accounts, SessionServer, ProgressiveLoader, TLC

CONSTANT Nothing   \* no time, no bookmark, no session

\* Commands that move, cut, change a tool, set an origin, start the spindle, and
\* one that only sets a feed; and limits that each can go beyond.
GCodes ==
  {"G" :> 1 @@ "X" :> 1 @@ "F" :> 2, "G" :> 1 @@ "X" :> 2, "G" :> 1 @@ "Z" :> -1 @@ "F" :> 3,
   "G" :> 0 @@ "Z" :> 2, "T" :> 1 @@ "M" :> 6, "G" :> 43 @@ "H" :> 1, "F" :> 2,
   "G" :> 92 @@ "X" :> 0, "M" :> 3 @@ "S" :> 2}
Everywhere(v) == [a \in {"X", "Y", "Z"} |-> v]
GLimits ==
  [min |-> Everywhere(-1), max |-> Everywhere(2), maxFeedRate |-> 2, maxSpindleSpeed |-> 1,
   maxRapidPlunge |-> 2, minSafeZ |-> 2, toolRadius |-> 1, piece |-> Everywhere(<<0, 1>>), pieceTop |-> 0]

VARIABLES part,  \* the part of the system whose calls are made
          state, statistics, stateSnapshots, stale, early, passwordsUsers,
          passwordsTokens, passwordsRequests, passwordsChanges, files, folders,
          filesRequests, contents,
          versionsFiles, versionsFolders, versionsRequests, versionsContents,
          treeFiles, treeFolders, treeRequests, treeContents, roomSessions, clients, born, up, down, link, tab, joinedAt, program,
          tools, activeTool

Measuring == INSTANCE SimulationState WITH
  Length <- 1, Feeds <- {2, 3}, MaxDistance <- 3
Changing == INSTANCE Accounts WITH
  Names <- {"n"}, Emails <- {"e"}, Passwords <- {"p", "q"}, MaxRequests <- 3,
  users <- passwordsUsers, tokens <- passwordsTokens,
  requests <- passwordsRequests, changes <- passwordsChanges
Filing == INSTANCE FileStore WITH
  Users <- {"a", "b"}, Names <- {"x"}, MaxFiles <- 2, MaxFolders <- 2,
  MaxRequests <- 1, MaxContents <- 1, requests <- filesRequests
Nesting == INSTANCE FileStore WITH
  Users <- {"a", "b"}, Names <- {"x", "y"}, MaxFiles <- 0, MaxFolders <- 3,
  MaxRequests <- 1, MaxContents <- 1, files <- treeFiles,
  folders <- treeFolders, requests <- treeRequests, contents <- treeContents
Versioned == INSTANCE FileStore WITH
  Users <- {"a", "b"}, Names <- {"x"}, MaxFiles <- 1, MaxFolders <- 2,
  MaxRequests <- 2, MaxContents <- 3, files <- versionsFiles,
  folders <- versionsFolders, requests <- versionsRequests,
  contents <- versionsContents
Rooms == INSTANCE CollabEditing WITH
  Tabs <- {"t1", "t2", "t3"}, Users <- {{"t1", "t3"}, {"t2"}},
  Ids <- {"r", "s"}, Chars <- {"a"}, Prefilled <- {"t1"}, Now <- 1000,
  Writing <- {"t1"}, MaxEdits <- 1, Breakable <- {"t1"},
  NoSession <- Nothing, sessions <- roomSessions
Gcode == INSTANCE GCode WITH
  Commands <- GCodes, Tools <- {1}, Offsets <- {0, 1}, Limits <- GLimits,
  MaxCommands <- 3

ASSUME Measuring!Assumption

measuresVars == <<state, statistics, stateSnapshots, stale, early>>
passwordsVars == <<passwordsUsers, passwordsTokens, passwordsRequests,
                   passwordsChanges>>
filesVars == <<files, folders, filesRequests, contents>>
versionsVars == <<versionsFiles, versionsFolders, versionsRequests,
                  versionsContents>>
treeVars == <<treeFiles, treeFolders, treeRequests, treeContents>>
roomsVars == <<roomSessions, clients, born, up, down, link, tab, joinedAt>>
gcodeVars == <<program, tools, activeTool>>

Parts == {"undo", "measures", "loader", "accounts", "passwords", "files", "versions",
          "tree", "rooms", "gcode", "sessions"}

MCInit ==
  /\ part \in Parts
  /\ Init /\ Measuring!Init /\ LoaderInit /\ AccountsInit /\ Changing!AccountsInit
  /\ Filing!Init /\ Versioned!Init /\ Nesting!Init /\ Rooms!Init /\ Gcode!Init /\ SessionsInit
  /\ part # "undo" => document = CHOOSE v \in Values : TRUE
  /\ part # "loader" => ~delays /\ kind = "parser"

\* The variables of the parts whose turn it is not.
OthersStay ==
  /\ IF part = "undo" THEN TRUE ELSE UNCHANGED vars
  /\ IF part = "measures" THEN TRUE ELSE UNCHANGED measuresVars
  /\ IF part = "loader" THEN TRUE ELSE UNCHANGED loaderVars
  /\ IF part = "accounts" THEN TRUE ELSE UNCHANGED accountsVars
  /\ IF part = "passwords" THEN TRUE ELSE UNCHANGED passwordsVars
  /\ IF part = "files" THEN TRUE ELSE UNCHANGED filesVars
  /\ IF part = "versions" THEN TRUE ELSE UNCHANGED versionsVars
  /\ IF part = "tree" THEN TRUE ELSE UNCHANGED treeVars
  /\ IF part = "rooms" THEN TRUE ELSE UNCHANGED roomsVars
  /\ IF part = "gcode" THEN TRUE ELSE UNCHANGED gcodeVars
  /\ IF part = "sessions" THEN TRUE ELSE UNCHANGED sessionsVars

MCNext ==
  \/ part = "undo" /\ Next /\ OthersStay /\ UNCHANGED part
  \/ part = "measures" /\ Measuring!Next /\ OthersStay /\ UNCHANGED part
  \/ part = "loader" /\ LoaderNext /\ OthersStay /\ UNCHANGED part
  \/ part = "accounts" /\ AccountsNext /\ OthersStay /\ UNCHANGED part
  \/ part = "passwords" /\ Changing!AccountsNext /\ OthersStay /\ UNCHANGED part
  \/ part = "files" /\ Filing!Next /\ OthersStay /\ UNCHANGED part
  \/ part = "versions" /\ Versioned!Next /\ OthersStay /\ UNCHANGED part
  \/ part = "tree" /\ Nesting!Next /\ OthersStay /\ UNCHANGED part
  \/ part = "rooms" /\ Rooms!Next /\ OthersStay /\ UNCHANGED part
  \/ part = "gcode" /\ Gcode!Next /\ OthersStay /\ UNCHANGED part
  \/ part = "sessions" /\ SessionsNext /\ OthersStay /\ UNCHANGED part

MCvars == <<part, vars, measuresVars, loaderVars, accountsVars, passwordsVars,
            filesVars, versionsVars, treeVars, roomsVars, gcodeVars, sessionsVars>>
MCSpec == MCInit /\ [][MCNext]_MCvars

\* The types of the part whose turn it is.
AllTyped ==
  CASE part = "undo" -> TypeOK
    [] part = "measures" -> Measuring!TypeOK
    [] part = "loader" -> LoaderTyped
    [] part = "accounts" -> AccountsTyped
    [] part = "passwords" -> Changing!AccountsTyped
    [] part = "files" -> Filing!TypeOK
    [] part = "versions" -> Versioned!TypeOK
    [] part = "tree" -> Nesting!TypeOK
    [] part = "rooms" -> Rooms!TypeOK
    [] part = "gcode" -> Gcode!TypeOK
    [] part = "sessions" -> SessionsTyped

\* Measures and files stay whole, whatever overlaps, and everything has its type;
\* editors of one session never see what happens in another; what reads a program reads
\* the same, and the optimizer of modules/gcode changes neither the path, the feeds nor
\* the tools of a program it can read (none of its passes asks for the library).
PagesKept ==
  /\ AllTyped
  /\ part = "measures" => Measuring!StatisticsAgree
  /\ part = "passwords" => Changing!AccountsSound
  /\ part = "files" => Filing!StoreSound
  /\ part = "versions" => Versioned!StoreSound
  /\ part = "tree" => Nesting!StoreSound
  /\ part = "rooms" => Rooms!NothingMissedNorTwice /\ Rooms!PresenceAgrees
  /\ part = "gcode" => Gcode!ReadersAgree
  /\ part = "gcode" /\ tools = <<>> => Gcode!PassesKeepTheProgram
=============================================================================
