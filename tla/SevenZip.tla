------------------------------ MODULE SevenZip ------------------------------
(***************************************************************************)
(* The 7-Zip wrapper (7Zip/ZipLib.cpp, exported by ZipSdk.cpp): Compress   *)
(* packs the files below a folder into an archive, UnCompress unpacks an   *)
(* archive.  The work is done by an engine, 7z.dll, that calls back: for   *)
(* streams, for results and to tell how far it is.  Any call may fail, and *)
(* other programs lock, make and delete the files meanwhile.               *)
(***************************************************************************)
EXTENDS Naturals, Sequences

CONSTANTS
    File,      \* the files, by their path below the folder or the target
    Folder,    \* the folders of the tree that is packed
    Root,      \* the folder that Compress is called for
    Svn,       \* the folders with the name .svn
    Parent,    \* the folder of each file and of each folder but the root: a tree
    Archives,  \* archives of other programs
    None       \* no file, no folder

Stamp == 1 .. 2   \* attributes and times; 0 where an item has none
Item == [path : File, isDir : BOOLEAN, attrib : {0} \cup Stamp, mtime : {0} \cup Stamp]

ASSUME TreeAssumption ==
    /\ Root \in Folder /\ Svn \subseteq Folder \ {Root} /\ None \notin File \cup Folder
    /\ Parent \in [File \cup (Folder \ {Root}) -> Folder]
    /\ \A S \in SUBSET (Folder \ {Root}) : S # {} => \E e \in S : Parent[e] \notin S
ASSUME ArchivesAssumption == Archives \subseteq Seq(Item)

VARIABLES
    src,        \* below the folder of Compress, each file: absent, plain, locked
    out,        \* what is in the target folder of UnCompress at each path
    archive,    \* the archive on disk: its items, and whether it is finished
    pc,         \* the call: control
    ret,        \* what the last call returned
    pfn,        \* whether the caller gave a callback for the progress
    pending,    \* folders that TraverseFloder has yet to list
    vecFilelist, dirItems, FailedFiles,    \* Compress: sets of files
    item,       \* UnCompress: the item that the engine is at
    epc,        \* the engine: between two items, stream got, item decoded
    opResult,   \* its verdict on the item
    info,       \* _processedFileInfo
    diskFile,   \* _diskFilePath
    stream,     \* the file behind _outFileStream, or None
    NumErrors,
    refused,    \* history: what could not be set of the files, and of which item
    same,       \* history: files nobody has touched during the call
    unlisted,   \* history: folders that could not be listed to their end
    first,      \* history: the entry that TraverseFloder has passed over
    before,     \* history: the archive when the call began
    cancelled   \* history: the callback has returned a negative number

diskVars == <<src, out, archive>>
packVars == <<pending, vecFilelist, dirItems, FailedFiles>>
extractVars == <<item, epc, opResult, info, diskFile, stream, NumErrors,
                 refused, cancelled>>
callVars == <<pc, ret, pfn>>
historyVars == <<same, unlisted, first, before>>
vars == <<diskVars, packVars, extractVars, callVars, historyVars>>

Nothing == [kind |-> "absent", item |-> 0, whole |-> FALSE, attrib |-> 0, mtime |-> 0]
NoInfo == [attrib |-> 0, mtime |-> 0]
NoArchive == [items |-> <<>>, whole |-> FALSE]

-----------------------------------------------------------------------------
Init ==
    /\ src = [f \in File |-> "absent"] /\ out = [f \in File |-> Nothing]
    /\ archive = NoArchive
    /\ pc = "idle" /\ ret = "OK" /\ pfn = FALSE
    /\ pending = {} /\ vecFilelist = {} /\ dirItems = {} /\ FailedFiles = {}
    /\ item = 0 /\ epc = "between" /\ opResult = "kOK" /\ info = NoInfo
    /\ diskFile = None /\ stream = None /\ NumErrors = 0
    /\ refused = {} /\ cancelled = FALSE
    /\ same = {} /\ unlisted = {} /\ first = None /\ before = NoArchive

\* While Compress runs, other programs make, delete, lock and release files;
\* between two calls they bring archives.
Touch(f) ==
    /\ pc \in {"traverse", "find", "object", "update"}
    /\ \E v \in {"absent", "plain", "locked"} \ {src[f]} : src' = [src EXCEPT ![f] = v]
    /\ same' = same \ {f}
    /\ UNCHANGED <<archive, out, packVars, extractVars, callVars, unlisted, first, before>>

Bring(a) ==
    /\ pc = "idle" /\ archive' = [items |-> a, whole |-> TRUE]
    /\ UNCHANGED <<src, out, packVars, extractVars, callVars, historyVars>>

-----------------------------------------------------------------------------
(* What both functions share.                                              *)

\* Each call has a folder of its own: what Compress finds, what UnCompress
\* finds in the way.  What the callback of Compress returns is not looked at.
Call(op, cb) ==
    /\ pc = "idle" /\ pc' = op /\ pfn' = cb
    /\ same' = File /\ before' = archive /\ ret' = "none"
    /\ \/ op = "Compress" /\ ~cb /\ UNCHANGED out
          /\ src' \in [File -> {"absent", "plain", "locked"}]
       \/ op = "UnCompress" /\ UNCHANGED src
          /\ out' \in [File -> {Nothing, [Nothing EXCEPT !.kind = "dir"],
                                [Nothing EXCEPT !.kind = "file"]}]
    /\ UNCHANGED <<archive, packVars, extractVars, unlisted, first>>

\* The locals go, and with them the streams that are open.
Return(r) ==
    /\ src' = [f \in File |-> "absent"] /\ out' = [f \in File |-> Nothing]
    /\ pc' = "idle" /\ ret' = r /\ pfn' = FALSE
    /\ pending' = {} /\ vecFilelist' = {} /\ dirItems' = {} /\ FailedFiles' = {}
    /\ item' = 0 /\ epc' = "between" /\ opResult' = "kOK" /\ info' = NoInfo
    /\ diskFile' = None /\ stream' = None /\ NumErrors' = 0
    /\ refused' = {} /\ cancelled' = FALSE
    /\ same' = {} /\ unlisted' = {} /\ first' = None /\ before' = NoArchive

\* 7z.dll is loaded and its CreateObject looked up.
Load(op, next) ==
    /\ pc = op
    /\ \/ pc' = next /\ pending' = (IF next = "traverse" THEN {Root} ELSE {})
          /\ UNCHANGED <<diskVars, ret, pfn, vecFilelist, dirItems, FailedFiles,
                         extractVars, historyVars>>
       \/ /\ UNCHANGED archive
          /\ \E r \in {"LOAD_7Z_FIALD", "CREATEOBJECT_FIALD"} : Return(r)

-----------------------------------------------------------------------------
(* Compress                                                                *)

FilesOf(d) == {f \in File : Parent[f] = d /\ src[f] # "absent"}
FoldersOf(d) == {e \in Folder \ ({Root} \cup Svn) : Parent[e] = d}

\* The entry that FindFirst returns is overwritten before anybody has looked at
\* it.  That is "." but in the root of a drive, where it may be any entry.
Firsts(d) == IF d = Root THEN {None} \cup FilesOf(d) \cup FoldersOf(d) ELSE {None}

\* TraverseFloder, one folder.  A failure counts in the root only; the
\* listing of a folder may also end early, and nobody notices.
Traverse(d) ==
    /\ pc = "traverse" /\ d \in pending
    /\ \/ /\ \E e \in Firsts(d) :
                /\ vecFilelist' = vecFilelist \cup (FilesOf(d) \ {e})
                /\ pending' = (pending \ {d}) \cup (FoldersOf(d) \ {e})
                /\ first' = IF d = Root THEN e ELSE first
          /\ UNCHANGED <<diskVars, unlisted, callVars, dirItems, FailedFiles,
                         extractVars, same, before>>
       \/ /\ \E fs \in SUBSET FilesOf(d), es \in SUBSET FoldersOf(d) :
                /\ vecFilelist' = vecFilelist \cup fs
                /\ pending' = (pending \ {d}) \cup es
          /\ unlisted' = unlisted \cup {d}
          /\ UNCHANGED <<diskVars, callVars, dirItems, FailedFiles, extractVars,
                         same, first, before>>
       \/ d = Root /\ Return("FOLEDER_FAILD") /\ UNCHANGED archive

\* Mutant: the archive is made first, then the files are looked up.
TraversedCreates ==
    /\ pc = "traverse" /\ pending = {} /\ pc' = "find" /\ archive' = NoArchive
    /\ UNCHANGED <<src, out, ret, pfn, packVars, extractVars, historyVars>>

Traversed ==
    /\ pc = "traverse" /\ pending = {} /\ pc' = "find"
    /\ UNCHANGED <<diskVars, ret, pfn, packVars, extractVars, historyVars>>

\* Every file of the list is looked up.
Find(f) ==
    /\ pc = "find" /\ f \in vecFilelist
    /\ \/ /\ src[f] # "absent"
          /\ dirItems' = dirItems \cup {f} /\ vecFilelist' = vecFilelist \ {f}
          /\ UNCHANGED <<diskVars, callVars, pending, FailedFiles, extractVars, historyVars>>
       \/ src[f] = "absent" /\ Return("FINDFILE_FAILD") /\ UNCHANGED archive

\* The archive is created, or emptied.
Create ==
    /\ pc = "find" /\ vecFilelist = {}
    /\ \/ /\ archive' = NoArchive /\ pc' = "object"
          /\ UNCHANGED <<src, out, ret, pfn, packVars, extractVars, historyVars>>
       \/ Return("CREATEARCHIVE_FAILD") /\ UNCHANGED archive

OutObject ==
    /\ pc = "object"
    /\ \/ /\ pc' = "update"
          /\ UNCHANGED <<diskVars, ret, pfn, packVars, extractVars, historyVars>>
       \/ /\ UNCHANGED archive
          /\ \E r \in {"GETOBJECT_FIALD", "NOT_SUPPORT", "HRESULT"} : Return(r)

\* Mutant: a file that cannot be opened is left out in silence.
NoteNothing(f) == UNCHANGED FailedFiles
NoteFailed(f) == FailedFiles' = FailedFiles \cup {f}

\* The engine asks for the stream of an item and packs what it gets; an item
\* without a stream it leaves out.
PackStream(f) ==
    /\ pc = "update" /\ f \in dirItems /\ dirItems' = dirItems \ {f}
    /\ \/ /\ src[f] = "plain"
          /\ archive' = [archive EXCEPT !.items =
                 Append(@, [path |-> f, isDir |-> FALSE, attrib |-> 1, mtime |-> 1])]
          /\ UNCHANGED FailedFiles
       \/ src[f] # "plain" /\ NoteFailed(f) /\ UNCHANGED archive
    /\ UNCHANGED <<src, out, pending, vecFilelist, extractVars, callVars, historyVars>>

Packed ==
    /\ pc = "update"
    /\ \/ /\ dirItems = {} /\ archive' = [archive EXCEPT !.whole = TRUE]
          /\ Return(IF FailedFiles # {} THEN "HASFILES_FAILD" ELSE "OK")
       \/ Return("COMPRESS_FAILD") /\ UNCHANGED archive

-----------------------------------------------------------------------------
(* UnCompress                                                              *)

\* The object is made, the file opened and its header read.
OpenArchive ==
    /\ pc = "open" /\ UNCHANGED archive
    /\ \/ /\ archive.whole /\ pc' = "extract" /\ item' = 1
          /\ UNCHANGED <<src, out, ret, pfn, packVars, epc, opResult, info, diskFile,
                         stream, NumErrors, refused, cancelled, historyVars>>
       \/ \E r \in {"GETOBJECT_FIALD", "OPENARCHIVE_FAILD"} : Return(r)

Current == archive.items[item]
Extracting(e) == pc = "extract" /\ epc = e /\ item <= Len(archive.items)
Goto(e) == epc' = e /\ UNCHANGED <<pc, ret, pfn, packVars, historyVars>>

\* Mutant: an item without attributes keeps those of the item before.
InfoKept(i) == [attrib |-> IF i.attrib = 0 THEN info.attrib ELSE i.attrib,
                mtime |-> i.mtime]
InfoOf(i) == [attrib |-> i.attrib, mtime |-> i.mtime]

\* GetStream.  A folder is made, if it can be; nobody asks whether it was.
GetFolder ==
    /\ Extracting("between") /\ Current.isDir
    /\ info' = InfoOf(Current) /\ diskFile' = Current.path /\ stream' = None
    /\ \/ /\ out[Current.path].kind = "absent"
          /\ out' = [out EXCEPT ![Current.path].kind = "dir"]
       \/ UNCHANGED out
    /\ Goto("open")
    /\ UNCHANGED <<src, archive, item, opResult, NumErrors, refused, cancelled>>

\* A file that is there is deleted, whatever its attributes; then the new one
\* is made.
GetStream ==
    /\ Extracting("between") /\ ~Current.isDir /\ out[Current.path].kind # "dir"
    /\ info' = InfoOf(Current) /\ diskFile' = Current.path /\ stream' = Current.path
    /\ out' = [out EXCEPT ![Current.path] =
                  [Nothing EXCEPT !.kind = "file", !.item = item]]
    /\ Goto("open")
    /\ UNCHANGED <<src, archive, item, opResult, NumErrors, refused, cancelled>>

\* It fails: a property of the item cannot be read, the file that is there not
\* be deleted, or, when that is gone already, the new one not be made.
GetStreamFails ==
    Extracting("between") /\ Return("EXTRACT_FAILD") /\ UNCHANGED archive

\* The engine decodes the item into the stream and judges it.
Decode(r) ==
    /\ Extracting("open") /\ opResult' = r
    /\ out' = IF stream = None THEN out
              ELSE [out EXCEPT ![stream].whole = (r = "kOK")]
    /\ stream = None => r = "kOK"
    /\ Goto("decoded")
    /\ UNCHANGED <<src, archive, item, info, diskFile, stream, NumErrors,
                   refused, cancelled>>

\* The data cannot be read or written, or there is no password.
DecodeFails ==
    Extracting("open") /\ Return("EXTRACT_FAILD") /\ UNCHANGED archive

\* SetCompleted returns S_FALSE when the callback returns a negative number.
\* Between two items that ends the extraction.  While an item is decoded it
\* may also pass for damaged data, and the engine goes on.
Cancel ==
    /\ pfn /\ pc = "extract" /\ epc \in {"between", "open"}
    /\ \/ Return("EXTRACT_FAILD")
       \/ /\ Extracting("open") /\ stream # None
          /\ opResult' = "kDataError" /\ cancelled' = TRUE /\ Goto("decoded")
          /\ UNCHANGED <<src, out, item, info, diskFile, stream, NumErrors, refused>>
    /\ UNCHANGED archive

ErrorCount == NumErrors + IF opResult = "kOK" THEN 0 ELSE 1

\* What is to be set of the file, and the file when that is set.
ToStamp == {x \in {"attrib", "mtime"} :
    \/ x = "attrib" /\ info.attrib # 0
    \/ x = "mtime" /\ stream # None /\ info.mtime # 0}
Stamped(set) == [out EXCEPT
    ![diskFile].attrib = IF "attrib" \in set THEN info.attrib ELSE @,
    ![diskFile].mtime = IF "mtime" \in set THEN info.mtime ELSE @]

\* Mutant: the stream is not released.
StreamKept == stream
StreamReleased == None

\* Nobody asks whether SetMTime and MySetFileAttributes have set anything.
SetOperationResult ==
    /\ Extracting("decoded") /\ UNCHANGED archive
    /\ \/ /\ NumErrors' = ErrorCount /\ stream' = StreamReleased
          /\ \E set \in SUBSET ToStamp :
                out' = Stamped(set) /\ refused' = refused \cup ((ToStamp \ set) \X {item})
          /\ item' = item + 1 /\ Goto("between")
          /\ UNCHANGED <<src, opResult, info, diskFile, cancelled>>
       \/ stream # None /\ Return("EXTRACT_FAILD")

Extracted ==
    /\ pc = "extract" /\ item > Len(archive.items)
    /\ Return(IF pfn THEN "OK" ELSE "EXPARAM_WARN")
    /\ UNCHANGED archive

-----------------------------------------------------------------------------
Next ==
    \/ \E f \in File : Touch(f)
    \/ \E a \in Archives : Bring(a)
    \/ \E op \in {"Compress", "UnCompress"}, cb \in BOOLEAN : Call(op, cb)
    \/ Load("Compress", "traverse") \/ Load("UnCompress", "open")
    \/ \E d \in Folder : Traverse(d)
    \/ Traversed
    \/ \E f \in File : Find(f)
    \/ Create \/ OutObject
    \/ \E f \in File : PackStream(f)
    \/ Packed
    \/ OpenArchive \/ GetFolder \/ GetStream \/ GetStreamFails
    \/ \E r \in {"kOK", "kDataError"} : Decode(r)
    \/ DecodeFails \/ Cancel \/ SetOperationResult \/ Extracted

Spec == Init /\ [][Next]_vars

-----------------------------------------------------------------------------
(* Properties.                                                             *)

Disk == [kind : {"absent", "dir", "file"}, item : Nat, whole : BOOLEAN,
         attrib : {0} \cup Stamp, mtime : {0} \cup Stamp]

DiskTypes ==
    /\ src \in [File -> {"absent", "plain", "locked"}]
    /\ archive \in [items : Seq(Item), whole : BOOLEAN]
    /\ out \in [File -> Disk]
PackTypes ==
    /\ pending \subseteq Folder
    /\ vecFilelist \cup dirItems \cup FailedFiles \subseteq File
    /\ same \subseteq File /\ unlisted \subseteq Folder
    /\ first \in File \cup Folder \cup {None}
ExtractTypes ==
    /\ pc \in {"idle", "Compress", "traverse", "find", "object", "update",
               "UnCompress", "open", "extract"}
    /\ epc \in {"between", "open", "decoded"} /\ opResult \in {"kOK", "kDataError"}
    /\ item \in Nat /\ NumErrors \in 0 .. item
    /\ refused \subseteq {"attrib", "mtime"} \X {i \in Nat : i < item}
    /\ info \in [attrib : {0} \cup Stamp, mtime : {0} \cup Stamp]
    /\ epc # "between" => diskFile = Current.path
    /\ stream = IF epc # "between" /\ ~Current.isDir THEN Current.path ELSE None

\* The type invariant: the shape of each variable; the engine is between two
\* items whenever no file is open, and the open file is that of its item.
TypeOK == DiskTypes /\ PackTypes /\ ExtractTypes

\* The folders of which every folder on the way up was listed to its end, and
\* not passed over.
Listed == {d \in Folder : LET up[e \in Folder] ==
               e \notin unlisted \cup Svn \cup {first} /\ (e = Root \/ up[Parent[e]]) IN up[d]}

PathsOf(a) == {a.items[i].path : i \in DOMAIN a.items}

\* When Compress answers ERROR_OK, the archive is finished, and it has every
\* file that was there all the time, locked or not, unless its folder, or one on
\* the way to it, was not listed to its end.  Left out in silence is one entry
\* of the root of a drive, a file or a folder with all that is in it: the one
\* that TraverseFloder passes over (ZipLib.cpp:569-575).
CompressedAll ==
    [][pc = "update" /\ pc' = "idle" /\ ret' = "OK" =>
          /\ archive'.whole
          /\ \A f \in same \ {first} : src[f] # "absent" /\ Parent[f] \in Listed =>
                f \in PathsOf(archive')]_vars

\* A file that cannot be read is no reason to lose the earlier archive when
\* that was known before the work began: as long as a folder or a file may
\* still turn out to be missing, or the archive in use, it is as it was.
ArchiveKept ==
    [][pc' = "idle" /\ ret' \in {"LOAD_7Z_FIALD", "CREATEOBJECT_FIALD",
            "FOLEDER_FAILD", "FINDFILE_FAILD", "CREATEARCHIVE_FAILD"} /\ pc # "idle"
        => archive' = before]_vars

Last(f) == CHOOSE i \in DOMAIN archive.items :
    /\ archive.items[i].path = f
    /\ \A j \in DOMAIN archive.items : archive.items[j].path = f => j <= i

\* What the file of an item is to have: what the item has, or what a new file
\* has if that could not be set.
AttribOf(i) == IF <<"attrib", i>> \in refused THEN 0 ELSE archive.items[i].attrib
MTimeOf(i) == IF <<"mtime", i>> \in refused THEN 0 ELSE archive.items[i].mtime

\* When UnCompress does not answer an error, each file of the archive is in
\* the target folder, from the last item with its path, and has the attributes
\* and the time of that item or, where Windows refused to set them, which nobody
\* notices, those of a new file; never those of another item.  It is complete,
\* and nobody has cancelled the work, if NumErrors is 0.  (UnCompress does not
\* look at NumErrors, and answers ERROR_OK all the same.)
ExtractedRight ==
    [][pc = "extract" /\ pc' = "idle" /\ ret' \in {"OK", "EXPARAM_WARN"} =>
          /\ NumErrors = 0 => ~cancelled
          /\ \A f \in PathsOf(archive) :
                LET i == Last(f)
                IN  archive.items[i].isDir \/
                    /\ out[f].kind = "file" /\ out[f].item = i
                    /\ out[f].attrib = AttribOf(i) /\ out[f].mtime = MTimeOf(i)
                    /\ NumErrors = 0 => out[f].whole]_vars
=============================================================================
