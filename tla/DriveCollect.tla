---------------------------- MODULE DriveCollect ----------------------------
(***************************************************************************)
(* GoogleDriveConnector.collect: a breadth-first walk over the folders of  *)
(* a shared drive, whose files are downloaded or exported one by one.      *)
(* The HTTP client gives every call a timeout, so that each one returns.   *)
(***************************************************************************)
EXTENDS Naturals, Sequences, SequencesExt, FiniteSets

CONSTANTS
    Folders,     \* folders of the drive
    Files,       \* files of the drive
    Shortcuts,   \* shortcuts of the drive, which are never followed
    Children,    \* [Folders -> Seq(Folders \cup Files \cup Shortcuts)]
    Root,        \* the folder of the request
    Recursive,   \* request.recursive
    MaxFiles     \* request.max_files

VARIABLES
    drive,      \* "idle", "walk", "folder", "ended" or "failed"
    folders,    \* the queue of folders
    opened,     \* the folders visited
    folder,     \* the folder that is read
    children,   \* its children not yet looked at
    fetched,    \* the files collected, each with the folder it was found in
    skipped,    \* the children left out with a warning
    stopped     \* the warning that the file limit stopped the walk

vars == <<drive, folders, opened, folder, children, fetched, skipped, stopped>>

Init ==
    /\ drive = "idle"
    /\ folders = <<>>
    /\ opened = {}
    /\ folder = Root
    /\ children = <<>>
    /\ fetched = <<>>
    /\ skipped = {}
    /\ stopped = FALSE

\* An address without a folder identifier, or a disabled connector, is refused.
StartDrive ==
    /\ drive = "idle"
    /\ \/ drive' = "walk" /\ folders' = <<Root>>
       \/ drive' = "failed" /\ UNCHANGED folders
    /\ UNCHANGED <<opened, folder, children, fetched, skipped, stopped>>

WalkingDrive == drive = "walk" /\ folders # <<>> /\ Len(fetched) < MaxFiles

\* _list_children: all pages of the list, or an error that ends the request and
\* loses what was collected.
OpenFolder ==
    /\ WalkingDrive
    /\ Head(folders) \notin opened
    /\ folders' = Tail(folders)
    /\ opened' = opened \cup {Head(folders)}
    /\ folder' = Head(folders)
    /\ \/ drive' = "folder" /\ children' = Children[Head(folders)] /\ UNCHANGED fetched
       \/ drive' = "failed" /\ fetched' = <<>> /\ UNCHANGED children
    /\ UNCHANGED <<skipped, stopped>>

SkipOpened ==
    /\ WalkingDrive
    /\ Head(folders) \in opened
    /\ folders' = Tail(folders)
    /\ UNCHANGED <<drive, opened, folder, children, fetched, skipped, stopped>>

Reading == drive = "folder" /\ children # <<>> /\ Len(fetched) < MaxFiles

QueueFolder ==
    /\ Reading
    /\ Head(children) \in Folders
    /\ folders' = IF Recursive THEN Append(folders, Head(children)) ELSE folders
    /\ children' = Tail(children)
    /\ UNCHANGED <<drive, opened, folder, fetched, skipped, stopped>>

SkipShortcut ==
    /\ Reading
    /\ Head(children) \in Shortcuts
    /\ skipped' = skipped \cup {Head(children)}
    /\ children' = Tail(children)
    /\ UNCHANGED <<drive, folders, opened, folder, fetched, stopped>>

\* Mutant: a file that cannot be downloaded ends its folder.
DownloadOrLeave ==
    /\ Reading
    /\ Head(children) \in Files
    /\ \/ /\ fetched' = Append(fetched, [from |-> folder, file |-> Head(children)])
          /\ children' = Tail(children)
          /\ UNCHANGED <<drive, skipped>>
       \/ /\ skipped' = skipped \cup {Head(children)}
          /\ drive' = "walk" /\ children' = <<>>
          /\ UNCHANGED fetched
    /\ UNCHANGED <<folders, opened, folder, stopped>>

\* _download: the bytes, or an error of the service, of the type or of the size.
\* Only an error of the transport ends the request.
Download ==
    /\ Reading
    /\ Head(children) \in Files
    /\ \/ /\ fetched' = Append(fetched, [from |-> folder, file |-> Head(children)])
          /\ UNCHANGED <<drive, skipped>>
       \/ skipped' = skipped \cup {Head(children)} /\ UNCHANGED <<drive, fetched>>
       \/ drive' = "failed" /\ fetched' = <<>> /\ UNCHANGED skipped
    /\ children' = Tail(children)
    /\ UNCHANGED <<folders, opened, folder, stopped>>

\* The children end, or the limit is reached.
CloseFolder ==
    /\ drive = "folder" /\ ~Reading
    /\ drive' = "walk"
    /\ children' = <<>>
    /\ UNCHANGED <<folders, opened, folder, fetched, skipped, stopped>>

EndDrive ==
    /\ drive = "walk" /\ ~WalkingDrive
    /\ drive' = "ended"
    /\ stopped' = (folders # <<>>)
    /\ UNCHANGED <<folders, opened, folder, children, fetched, skipped>>

Next == \/ StartDrive \/ OpenFolder \/ SkipOpened \/ QueueFolder
        \/ SkipShortcut \/ Download \/ CloseFolder \/ EndDrive

Spec == Init /\ [][Next]_vars

-----------------------------------------------------------------------------
(* Properties.                                                             *)

\* The folders below the requested one, over at most n steps.
Below[n \in 0 .. Cardinality(Folders)] ==
    IF n = 0 THEN {Root}
    ELSE Below[n - 1] \cup
         IF Recursive THEN Folders \cap UNION {ToSet(Children[f]) : f \in Below[n - 1]} ELSE {}

\* A walk that ends below its limit accounts for everything under the requested
\* folder: each file of each folder is collected from it once or named in a
\* warning, in whatever order folders share subfolders.
DriveIsComplete ==
    drive = "ended" =>
        /\ Len(fetched) <= MaxFiles
        /\ \A i, j \in DOMAIN fetched : fetched[i] = fetched[j] => i = j
        /\ Len(fetched) < MaxFiles =>
              \A f \in Below[Cardinality(Folders)] : \A c \in ToSet(Children[f]) \ Folders :
                  c \in skipped \/ [from |-> f, file |-> c] \in ToSet(fetched)

=============================================================================
